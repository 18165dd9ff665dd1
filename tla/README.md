# Koschei Sentinel: formal models

This directory holds TLA+ models of Koschei Sentinel, the TLC runs that check
them and the theorems TLAPS proves about them.  Sources are named relative to
`src/src/koschei_sentinel/` (355 Python files, 63,000 lines).

Contents: [inventory](#1-inventory), [plan](#2-plan), [how the models
correspond to the code](#3-the-models), [runs](#4-runs-and-bounds),
[fairness](#5-fairness), [proofs](#6-proofs), [disagreements found](#7-where-the-code-and-its-documentation-disagree),
[what is not modelled](#8-what-is-not-modelled).

To repeat a run: `tlc -workers 2 -config RecoveryCheckpoints.cfg
MCRecoveryCheckpoints.tla`; to repeat a proof: `tlapm LineageProofs.tla`.

## 1. Inventory

Sentinel is a security-model factory and a defensive runtime.  Most of its
modules are commands that read signed JSON artifacts, check them and write
another one.  The behaviour over time is in six places: the checkpointed
training job, the launch of a training on several nodes with the hold-out
inference that follows it, the lineage of approved baselines and its owner
keys, the scheduling and execution of defensive waves, the request path of the
inference service, and the review queues.

| component | state | operations | what is hard | correct when |
|---|---|---|---|---|
| Recovery checkpoints | `recovery-index.json` and checkpoint directories on disk; per rank a copy of the index, pending saves, finalized marks, the asynchronous queue | `poll`, `wait`, `register`, `save_async`, `close`, new job | ranks between collectives, background writers, backpressure, crash between index and directory, failing I/O | the index only names complete checkpoints, ranks agree, generations are not reused, no finished save is lost, bounds hold, calls return |
| Catalog training | training state, cursor, failure ledger, quarantine events, last good directory | step, save, rollback, retry, quarantine, fail, resume | a rollback races pending saves; a resume restores five things from one file | no update is applied twice, the loop and the resumed job agree with the ledger, jobs end |
| Training loop and data feed | prefetch queue, reader cursor, trend windows | prefetch, hand out, close, observe | thread or process between reader and trainer; cursor of handed-out, not of read, batches | the cursor names the batch trained |
| Shadow baseline lineage | lineage files, owner signatures, claim directory | propose, approve, apply (claim, publish), verify | concurrent processes, crash between claim and publication, retries | one history, everything published verifies, an interrupted publication can go on |
| Owner rotation | rotation proposals, acceptances, checkpoints, claims | propose, approve, accept, checkpoint, verify | hand-over interleaved with advances; two claim name spaces | one next owner for each owner and lineage |
| Megatron launch and candidate | identity, launch state, readiness receipts and checkpoint parts in one output directory shared by all nodes | create or resume, announce, join, post receipts, scan, open, train, complete, fail; seal and verify a candidate | jobs overlap on one directory, receipts of earlier sessions, deadlines, deaths of any node, read and then write | no node trains before all have arrived, all under one contract, no standstill, nodes return, a candidate was trained by all |
| Hold-out worker and evidence | worker directory: requests, raw results, execution state, predictions, failures, receipt; evidence | prepare, execute (a SWIFT subprocess), finalize, verify, evidence | the subprocess outlives its command, checks before the launch, half a finalization, files read twice | every case accounted for once, evidence of one run, a completed execution is sealed |
| Shadow evidence | receipts, replays, reviews, scorecards, promotion decisions | build, verify | digests chained over eight documents | nothing is promoted on evidence of another candidate |
| Defense planning | none | graph to plan, per component | independence of components, mode ladder | no authority beyond the assured mode |
| Defense resource scheduling | world lines, scheduler state (waiting ages) | build a schedule, carry the state to the next tick | capacities, reservation, aging, split and merged lines | nothing left over, critical first, ages survive, waiting bounded |
| Defense load range | remaining components, ages, first-service waves | run the scheduler until all are served | classes without capacity | starves only without capacity, stops |
| Defense wave execution | the wave file, execution of each interception plan | start, authorize, record, verify | several operators, one file, no lock | one step per component, evidence before containment, progress kept |
| Wave reassessment, connectors | perception bindings, connector receipts | reassess, execute | replay of stale telemetry | a new wave needs new perception |
| Defensive runtime | receipts, audit chain | detect, respond, recover | an exception in the middle | what was done is recorded |
| Inference service | per request: the body read so far, the scanner's and the decoder's state | check headers, read, refuse, time out, replay | fragments split anywhere, disconnects, a deadline that passes at any await | a body is delivered whole and once or not at all, whatever its fragments |
| Datasets, evaluation, gold, reflex, web3/web4, perception, SFT, PQ, fabric | files | validate and write | digest chains, queues of reviewers | per artifact |

How they interact:

* the catalog loop calls the recovery manager at every step; the manager calls
  Megatron's asynchronous queue and, through collectives, its peers;
* a candidate that comes out of training goes through receipts, replay, review
  and regression into a baseline advance, which claims its predecessor by a
  hard link and is then written as a new lineage file; owner rotation takes a
  verified lineage and hands its owner key over by the same claim in another
  directory, while the lineage goes on;
* the nodes of a launch meet only through files of the output directory; a
  candidate is sealed from that directory, the hold-out worker runs it over the
  planned cases, and the evidence reads the worker's files;
* perception gives a graph and an assurance summary, planning gives one plan
  for each connected component, world lines give components an identity over
  time, the scheduler picks the first step of some of them as a wave, and
  operators take the wave through authorization, execution by an outside
  connector and verification; reassessment asks for new perception.

`PROJECT.json` lists the hazards with their lines and the properties that
cover them; those without a property carry the reason.

## 2. Plan

Done: the modules in the table of section 3, in the order of the table.  The
checkpoint manager came first because a lost or torn checkpoint costs a whole
training run; the lineage second because a fork cannot be repaired; the
defensive wave third because it acts on other systems.

To come, in this order:

1. `DefensiveRuntime`: respond, recover and the audit chain with a connector
   that raises.
2. `PerceptionBinding`: reassessment and connectors, on top of `DefenseWave`.
3. Pure algorithms against reference definitions: dataset split without
   leakage, trends behind an unstable step, mode ladder of assured planning,
   overlap groups of world lines.
4. The review queues (reflex gold, web4), the archive upload.
5. The prefetchers of the training loop.  They come last: items stay in order
   in one queue with one consumer, and only failure of the reader and close
   are of interest.

Compositions: `CatalogTraining` already stands on the abstract
`CheckpointStore` that `RecoveryCheckpoints` is shown to implement, and
`ShadowBaseline` uses `SuccessorClaim`, and `OwnerRotation` extends
`ShadowBaseline` with a second instance of `SuccessorClaim` for its own claim
directory; `DefenseScheduler` uses `DefenseAllocation`; `DefenseWave` extends
`InterceptionExecution`.  Abstract specifications: `CheckpointStore`,
`BaselineHistory`, `WaveLifecycle`, `NodeBarrier`, `RequestGate`.  Theorems:
section 6.  The modules under a proof use no RECURSIVE operator;
`DefenseAllocation` and `BodyLimit` fold over a sequence, `HoldoutWorker` uses
a recursive function.

## 3. The models

| module | code | promise (abstract) | proofs |
|---|---|---|---|
| `RecoveryCheckpoints` | manager, retention, asynchronous queue, distributed commit | `CheckpointStore` | `RecoveryCheckpointsProofs` |
| `CatalogTraining` | catalog training, recovery policy, resume bundle | | `CatalogTrainingProofs` |
| `SuccessorClaim`, `ShadowBaseline` | claim, baseline, its commands | `BaselineHistory` | `LineageProofs` |
| `OwnerRotation` | owner rotation, its commands | | `LineageProofs` |
| `MegatronLaunch` | launch coordination, barrier, candidate | `NodeBarrier` | `MegatronLaunchProofs` |
| `HoldoutWorker` | hold-out worker, evaluation evidence | | `HoldoutWorkerProofs` |
| `BodyLimit` | request-body middleware of the service | `RequestGate` | `BodyLimitProofs` |
| `DefenseAllocation`, `DefenseScheduler` | scheduler, lineage carry, world lines | | `DefenseSchedulerProofs` |
| `InterceptionExecution`, `DefenseWave` | interception execution, wave, its commands | `WaveLifecycle` | `DefenseWaveProofs` |

`MC*` modules only give constants.  Operators marked "Mutant" are variants of
the operator below them that break a property; no specification uses them.

### RecoveryCheckpoints

Disk is `shards` (which ranks' part of a directory is there) and `indexFile`;
each rank has `index`, `pending`, `finalized`, `queue` and `drained`.  An
operation of the manager is run by all ranks: `op` and `stage` say which call
and where it is, `arrived` who has reached the next collective.  Ranks move
alone between collectives, and the collective is one step: finalize locally,
agree on the minimum, publish on rank 0 (write the index, then retire
directories, `removing`), reload everywhere.  A crash can come between any two
steps and loses everything but the disk; a restart reads the index.  With
`"write"` in `Faults` writing the index may fail before it is replaced; with
`"remove"` deleting a retired directory may fail after.

Megatron's queue is external.  It completes requests in order (`InOrder`), as
its single writer process does; a run also lets it complete them in any order,
differently on each rank.  What the model takes from the callers: directory
names are used once in a job, and only base, skip and quarantine checkpoints,
which are durable, are registered.  The test for an existing directory has no
barrier of its own, but Megatron's `save` checks collectively before it
writes, so a refusal is the same on all ranks.

Left out: `wait_for_committed_step` (190-203; nothing calls it) and
`_migrate_v1` (71-89).

### CatalogTraining

One state machine for all ranks: every branch is taken on a value a collective
made equal.  `state` is the training state with the set of batches whose
updates the weights hold; `content` says what each directory restores, and
`pending` and `committed` are the manager's, of which the module assumes what
`CheckpointStore` promises (saves are committed in the order of generations,
inside a manager call).  `Publish` and `Registered` are the manager's part,
`LoopHead`, `Stable`, `SaveStep`, `StepDone`, `Unstable`, `Rollback`,
`Quarantine`, `Finish` and `Fail` the loop's; `Restart` and `Resume` the
crash.  A synchronous save is torn by a crash in the middle (`InFlight`).

Choices a reader should know:

* whether a step is unstable is free (the trend detector is not modelled);
* `Resume` takes any complete checkpoint, as the command does
  (catalog_training 128-135).  A job that was given another one than the newest
  of the index strays: its first rollback restores that newest one under the
  older cursor, and batches are trained twice.  The history variable `strayed`
  records it, `NoBatchTrainedTwice` and the age in `RollbackIsRecent` speak of
  jobs that did not, and `TypeOK`, `JobEnds` and the rest of both of all jobs.
  Without that premise TLC finds the double training: a job dies when its
  first update is in the index, is resumed from the initial checkpoint, and
  rolls back.  Nothing
  in the code or its documents says which checkpoint to resume from;
* the branch that skips a quarantined batch at the head of the loop
  (catalog_training 144-147) has no action, because the cursor never stands on
  one (part of `NoBatchTrainedTwice`);
* `SaveRefused`: after a crash the directory of an unfinished save is in the
  way and the job fails, again in each later attempt;
* `RollbackIsRecent` bounds the age of the checkpoint a rollback takes, not
  the updates it loses.  A save that was pending during a rollback is committed
  later and can become the target of the next one, although the loop had left
  that line of updates: with three unfinalized saves (the configuration allows
  four) a job can fall back behind a batch it has trained, saved and passed;
* failures counted since the last save are lost in a crash.

### SuccessorClaim and ShadowBaseline

A candidate stands for its id with its scorecard and receipt, a digest for the
content it covers, an approval for the owner's signature over a proposal and
an approver.  Proposals are pure functions of their inputs and have no
variable.  A process in `apply` checks (`Apply`), looks up and links its claim
(`Claim`: test for the file, temporary file, `os.link`, in separate steps) and
publishes (`Publish`); it may die anywhere and any process may run any
approval again.  There is one owner key, one sealed replay and one claim
directory, as `docs/SHADOW_BASELINE_LINEAGE.md:31` asks of writers.
`_MAX_LINEAGE` is 10,000 in the code and a constant here.  The approver is
part of the signature, so the same proposal approved by someone else is
another successor and is refused.

### OwnerRotation

The proposal of a hand-over is its content: the lineage and the next owner.
`ApproveRotation` is the signature of the current owner, `Accept` that of the
next one, `Checkpoint`, `ClaimRotation` and `WriteCheckpoint` the command that
claims the hand-over and writes it.  The claim is keyed by the lineage, not by
the owner: an owner may hand different lineages over to different heirs, and a
lineage that was handed over can still be advanced by the old owner, because
the checkpoint activates nothing.  `OneHandover` says what the claim does
promise.  `Advance` is any step of `ShadowBaseline`.

### MegatronLaunch

`phase` is where a process (a job and a node) is in
`execute_cyber_megatron_sft`; the files of the output directory are the only
thing the processes share.  `Create`, `Bind`, `Announce` or `Rebind` are node
0's coordination, `Join` a worker's, `PostReceipt`, `Scan`, `OpenBarrier` and
`Await` the barrier.  Receipts are named after their session, and operators are
assumed to give each job a session nobody used, in a receipt or in the launch
state that is there (`DeploymentsAssumption`; the code refuses only the session of the launch it takes over).  Megatron itself
is external: it writes a node's part of the checkpoint and ends when all nodes
of the job have.  A configuration and its dataset are one identity.  `SealRead`
and `Seal` are the build of a candidate, which reads the launch state and then
inventories the checkpoint; `CandidateVerifies` is its verification.

### HoldoutWorker

The raw results are the sequence of lines SWIFT appended; a line is the case
its messages are bound to and whether the response parses.  An execution
checks the directory (`CheckOutput`), checks again right before it starts the
subprocess (`Launch`), and hashes and records what it finds when that ends
(`HashResults`, `WriteState`).  A command that dies leaves its subprocess
appending.  `serial` says whether the operators let one execution, and its
subprocess, end before they start the next.  Finalizing reads the state, tests
that no output exists, and writes three files one by one; the evidence runs the
verification and then reads receipt and predictions again (`BindReceipt`,
`Score`).  Digests are the contents they are taken of; scores, the plan, the
candidate and the approval do not change and are left out.  SWIFT answers only
planned requests and appends whole lines: what the replay does with an unknown
or torn line is to raise, which ends the command.

### BodyLimit

One request, because requests share nothing.  A body is a sequence of kinds of
bytes: what the scanner, the UTF-8 decoder and the NUL and BOM tests tell apart.
A letter outside ASCII is a lead and one continuation byte (the code's are up to
four bytes) and a byte order mark is one byte.  `Fragment` hands the middleware
any part of what is left, also nothing; each event is checked in one step,
because nothing awaits between `receive` and the verdict.  Header tests are one
flag, except the declared length.  Sending a refusal is an await, so the
deadline may pass during it when it was begun inside the `asyncio.timeout`
block; then a 408 is begun after it (`TypeOK` names the case).  The reference
`IsAcceptable` looks at the whole body: strings are found by the parity of the
backslashes before a quote, not by a scan with a state.  Routes outside
`/v1/active-defense/` are passed through and left out.

### DefenseAllocation, DefenseScheduler

Scores are integers, in hundredths: every term of the priority except the wait
bonus belongs to the component.  Rounding of floating-point sums, which can
only matter for ties, is left out.  `Wave` folds `Allocate` over the
components in the order the code considers them: the favoured critical ones,
then all others by priority with the bonus.

`setting` is the policy and the transitions explored; a run takes each of a set
of settings.  `DefenseScheduler` runs the allocation over ticks: `Schedule` is one schedule built for
the lines of a tick, with any profile for each component; `Tick` is the next
tick of the timeline with the carry of ages.  Lines continue (or are
rerouted), end, appear, or are regrouped, when a group of overlapping
components has more than one on a side and all of its current components get
new ids with all its previous lines as predecessors.  Ids of ended lines are
used again.  A line that is absent for a tick loses its age: the code promises
no more.

### InterceptionExecution, DefenseWave

A plan is the sequence of its `stop_if_verified` flags.  `Start` writes a
wave; the other commands are `Read` (the command has parsed the file) and
`Write` (it has written the whole wave), with any other command in between;
`GiveUp` is an error or a death.  Receipts and outcomes exist once a
connector, which is external, has run.  The components of a wave are those
scheduled; the scheduled step is always the first of its plan (`start`
refuses others).  `team` says which operator cares for which component and
never changes; with one operator at work, who starts the wave once (`Alone`),
the stronger properties hold.  `--wave` and `--output` are the same file.  The write is
one step: a torn file is a hazard, not a behaviour.

## 4. Runs and bounds

| run | question | bounds |
|---|---|---|
| checkpoints | index complete, ranks agree, generations unique and in order, queue and slots bounded (`Bounded`), implements `CheckpointStore` | 2 ranks, 5 directories, 2 slots, 2 unfinalized saves, 4 generations, failing writes and removals, 1 restart |
| checkpoint_ends | every call returns; a clean close has published every save | 3 generations, saves completing in any order, fair ranks and writers |
| training | no update twice when jobs resume from the newest entry (`NoBatchTrainedTwice`), ledger, events and retries agree (`TypeOK`), rollback target intact and recent (`RollbackIsRecent`), jobs end | both checkpoint modes, 4 batches, 4 steps, 2 unfinalized saves, a retry, a crash, any complete checkpoint resumed |
| baseline | one history, what is published or signed verifies (`LineagesVerify`), implements `BaselineHistory`, claims are published, one hand-over for each lineage | 2 processes, 4 candidates, lineage of 3, fair; 3 approvals and no hand-over, or 2 approvals by one process at a time and 2 hand-overs to 2 heirs by 2 processes |
| launch | the launch is a barrier (`NodeBarrier`), one contract, a candidate was trained, no standstill (`NoStandstill`), nodes return | 2 jobs of 2 nodes, 6 deployments, sessions of 2 jobs and an earlier one |
| holdout | every case accounted for, evidence of one execution, sealed in the end | 2 executions that overlap or not, 2 commands that finalize, 1 that audits, 2 cases, one of them with responses that may not parse |
| body | delivered if and only if the whole body is acceptable, unchanged and once; every request gets an end (`RequestGate`) | all bodies of 3 bytes of 10 kinds, strings and brackets of 5 bytes, 4 fragments, depth 1, 3 tokens, 5 bytes, declared lengths right, wrong and too large |
| scheduler | allocation, order of deferral and reservation (`DeferredForBetter`), carry of ages, bounded waiting | four settings: 4 lines, 2 classes with capacities 1 and 2, wave of 2, ages to 2; 5 lines that continue, one control, bonus up to 50; 3 of 4 lines that appear and end, 2 classes, bonus up to 30; 3 lines with an action nobody mapped |
| wave | every wave valid, containment earned, executed once, implements `WaveLifecycle`, a component finishes alone | two teams: 1 operator, 1 start, 3 authorizations that run; 2 operators, 2 starts, 1 |

Three more runs (checkpoint_drained, launch_candidate, scheduler_boost) end in
the disagreements of section 7.  The last one has the default policy, four
lines of one class and two scores.

Several runs take more than one configuration: a variable that never changes
(`setting`, `team`, `serial`, `budget`, `env`) is chosen in the initial state,
and a property that belongs to one of them says so in its premise.

Why these are enough.  Two ranks show every disagreement of a collective that
depends on who has arrived; with three directories over two slots the
retention deletes while saves are pending; four generations are one more than
the names of the recovery directories.  In the loop the smallest retry budget still lets
a batch be retried, quarantined and, on a second one, given up; four steps
with every second one periodic have durable and recovery checkpoints.  Two processes
race for one claim; the passed reports allow a chain of four, one longer than
the limit, a rival of its second member and a return to its first.  One
approver is enough for TLC: a second one only adds rivals of another
signature, which the proofs cover.  With hand-overs there is room for fewer
advances; two signed hand-overs are either rivals for one lineage or one
before and one after an advance, and `LineageProofs` shows that the
lineages do not notice them.  Two jobs of two nodes have every role: a node 0
and a worker that agree or not, a job that takes over and one that is taken
over; the deployments are a race for a fresh output, jobs that resume outputs
left failed, completed or in use, and a node with another plan, endpoint or
identity than its job.  Two executions are what an overlap takes, two commands
race for the three files, and one case is answered twice or never while the
other is fine.  Five bytes hold a string with an escaped quote and a bracket
behind it, more brackets than the depth and more tokens than the limit; with
four fragments every such body can be split at two places and end with an empty
one.  Four lines allow a split and a merge at the same tick with a
full wave.  The age is counted up to the value from which the bonus no longer
grows (an assumption TLC evaluates), so the cap changes no decision.  Two
operators and two components are what a lost update takes (the properties of
that run survive it; what is recorded does not), and the second start reaches every combination of an old wave in memory with a new one on
disk.

Deadlock is checked except in `training`, `launch`, `launch_candidate`,
`holdout` and `body`, whose processes end.

## 5. Fairness

* `RecoveryCheckpoints!FairSpec`: each rank takes its next step and background
  writers finish: live processes, which the collectives need anyway.  Nothing
  is assumed of crashes, and the run has none.
* `CatalogTraining!FairSpec`: the loop and the manager take their next step.
  Whether steps are stable is not subject to fairness: the job ends even if
  all are unstable.
* `ShadowBaseline!FairSpec`: a process that runs goes on (weak), and the
  operator applies the approval again until it succeeds (strong fairness of
  starting again, claiming and publishing): the documentation asks for the
  exact retry.  Processes may still die again and again.
* `OwnerRotation!FairRotationSpec`: the same, of the processes that advance
  lineages; nothing is assumed of those that write hand-overs.  Their liveness
  would be that of the same claim and is not checked again.
* `MegatronLaunch!FairSpec`: a process that can go on does, deadlines pass
  (`LAUNCH_COORDINATION_TIMEOUT_SECONDS`, `ALL_NODE_READINESS_TIMEOUT_SECONDS`
  bound the polls), and Megatron ends or fails on every node, as its
  own collective timeouts make it.  Deaths are not fair.
* `BodyLimit!FairSpec`: the middleware runs on and its deadline passes, as
  `asyncio.timeout` makes it.  Nothing is assumed of clients.
* `HoldoutWorker!FairSpec`: a command that finalizes runs on, and operators
  start it again until it finds a completed execution.  SWIFT, executions and
  the audit are not fair.
* `DefenseWave!FairSpec`: commands end, and for attended components a command
  is repeated until it is written.  Nothing is assumed of the others.

## 6. Proofs

Checked by TLAPS for every value of the constants.

`RecoveryCheckpointsProofs` (assumes a finite set of ranks containing the
leader, directories as declared, bounds that are natural numbers).
`TypeCorrect` needs no more.  `IndexAlwaysLoadable`, `RanksAgree`,
`NoGenerationReused` and `MarksArePending` assume `RemovalSafe`: the queue is
FIFO, as Megatron's is, or deleting a retired directory does not fail.  Index
writes may fail, jobs may crash and restart.  The hypothesis is needed: after a
removal that fails the ranks hold the index of before, and if `close` could
then publish an older save first, it would put the half-removed directory back
into the index (TLC finds it with one slot and a queue that is not FIFO).

The invariant is `IInv == Typing /\ DiskInv /\ (Running => JobInv)`; `DiskInv`
says that the index names complete directories, without repetition and with
nothing left to remove.  It is not inductive alone: a publication is right only
because its entry was finalized by all ranks, which is known from their marks,
which are only meaningful if the ranks hold the same pending entries and the
same index.  `JobInv` says so, one conjunct for each such fact (replicas of
index and pending entries, numbering, naming, freshness of the operation's
entry, completeness of registered ones, the state of a publication, marks, the
queue, retiring directories), and there is one lemma for each.  `Stale`,
`Replaced` and `Republished` cover the failed removal: all that is left to the
job is to close, and the first entry that close publishes is the one whose
retirement failed, which writes the same index again.  That it is the first
rests on the order of the queue: `Fifo` (a rank marks its saves oldest first),
`Ordered` (no pending save older than a ready one is left out) and `Older`
(recovery entries enter the index in the order of their generations), which
also give `PublishedOldestFirst`, for a FIFO queue.

Its second half is about the bounds and the abstract store: `QueueBounded` for
all constants, and from the same
invariant and assumption `AlwaysBounded` (an index with nothing left to remove
holds at most `Slots` recovery entries, which is shown by taking its oldest)
and `StoreImplemented`, the refinement of `CheckpointStore`.  `CleanEnd` is
about the first job when nothing fails.  Its invariant `Clean` says whose all
data on disk is: the index's, a pending save's, the retention's or the current
operation's (`Owned`, with `Untouched` and `Handed` for the moments at which it
changes hands), that a rank holds exactly the pending saves it has not marked
(`Holding`), and that `close` publishes all of those (`Closing`).

`CatalogTrainingProofs` (any catalog, policy, interval, number of unfinalized
saves and of crashes, both checkpoint modes): `TrainingTypeCorrect`,
`NothingTrainedTwice`, `RollbackBounded`.  The invariant is `CInv == Typing /\
Saves /\ Books /\ Current /\ Keys /\ Ordered /\ Indexed /\ Ages /\ Fallback`,
with `Rooted`.  The loop and every checkpoint keep the same account (`Books`,
`Saves`): no batch at or behind the cursor has failed or, unless some job
strayed, been trained, all others but the quarantined ones have been trained
when checkpoints are synchronous, and events and retries are those of the
ledger; so resuming from a checkpoint, whichever it is, restores a consistent
account of all five things together.  A rollback restores the weights only,
and under the loop's cursor: for it the newest entry of the index must not be
beyond that cursor, which `Ordered` says of all entries (what is saved later is
not behind) until a job strays.  `Indexed` says that this takes an index with
entries, so that nothing is lost for synchronous checkpoints.  `Fallback` is
about the directory a loop remembers while the index is empty, and `Rooted` says
that the initial checkpoint, once there, stays: a new job then fails instead of
starting afresh beside the entries of the old one.  A crash only tears
directories the index does not name.  `Ages` bounds how long ago the entry that
would be restored was saved.

`DefenseWaveProofs` (any number of components, steps, operators and starts):
`WaveTypeCorrect`, `ContainmentAlwaysEarned`, `NeverExecutedTwice`,
`LifecycleImplemented`.  The invariant is `WInv == Counts /\ Waves /\ InStep`.
Every wave there is, on disk or in the memory of a command, passes the
validators and owes its containments to outcomes that were produced (`Waves`);
as commands only move such waves around, lost updates cannot break that.  The
counts of what was authorized and executed are compared with the wave on disk
only for an operator who works alone (`InStep`): then the wave in memory is the
one on disk, and a step counted is a step recorded.

`LineageProofs` (any number of processes, candidates, approvals and any
length limit): `TypeCorrect`, `NeverForks`, `AlwaysVerified`,
`HistoryImplemented`.  The invariant is
`Typing /\ Requests /\ Recorded /\ ClaimsSigned /\ PublishedClaimed /\
OneSuccessor /\ Closed /\ OneChain`: every proper prefix of a claimed lineage
(past the first) has its own claim, so all claims form one chain, and a claim
that left the chain would need a name that is taken.  A process that tested
for the file long ago is harmless because linking tests again.

With owner rotation (any number of heirs and of processes, any bounds),
`LineagesUntouched` shows that the system with hand-overs implements
`ShadowBaseline!Spec`, so every theorem above holds beside them;
`RotationTypeCorrect`; and `HandedOverOnce`.  Its invariant `RInv` adds to the
types that each process wants a claim it was asked for with both signatures,
that a name in the claim directory was given once, that a process past its
claim finds that very claim on disk, that every checkpoint has its claim, and
that the lineages concerned verify, which stays true because nothing published
is withdrawn.

`MegatronLaunchProofs` (any number of jobs and nodes, assuming
`DeploymentsAssumption`): `LaunchTypeCorrect`, `OneContractHolds`,
`CandidateTrained` and `LaunchIsBarrier`, the refinement of `NodeBarrier`.  In
the invariant `LInv` each process has what it may rely on where it is (`At`): a
leader about to open the barrier knows that all nodes of its job have posted
its own plan, since a receipt under their session can only be theirs
(`OwnReceipts`); a worker learns it from the launch state, which says "ready"
for a session only if node 0 of that session has gone in (`Told`), even when
another job overwrites it.  That the directory never changes its owner rests on
there being one process that creates it (`OneCreator`).

`NeverStuck` is the part of `NoStandstill` that does not speak of ENABLED:
`CanGoOn` writes out what each place waits for, and TLC checks that it says of
every process exactly whether its step is enabled.  Its invariant is `InOrder`,
about the jobs that are `Calm`: before the announcement (`Early`) a worker that
was turned away was so for a reason that turns node 0 away as well, and the
reason lasts; after it (`Late`) the launch state says where node 0 is, and no
node is turned away.  Both rest on `Alone`: no other node 0 writes meanwhile.  As
the receipts of nodes that wait are all there (`Roles`), the only job without a
node that can go on is one that has finished.

`HoldoutWorkerProofs` (any cases, results of any length, any number of
executions and commands): `WorkerTypeCorrect`, `EveryCaseAccountedFor`,
`EvidenceOfOneRun`.  What the replay computes is proved by induction over the
lines: `NumbersInduction` is induction over a set of naturals, from the
library's theorem on least elements; `OutcomesDefined` uses it to show that the
recursion has a solution, `OutcomesTell` that after each line the outcome of a
case tells how often it was answered.  The invariant is `HInv == Typing /\
OneRun`; `OneRun` is what operators get who let an execution end before the
next: one at work (`OneAtATime`), which has answered all there is (`Appended`);
what it hashed is not appended to, and once it is recorded nothing is at work
(`Recorded`), so that all commands that finalize write the same (`Sealed`) and
the audit reads the same files twice (`Audited`).

`DefenseSchedulerProofs` (any policy, classes, lines and profiles): `TypesHold`,
`DeferralIsJustified`, `AgesAreCarried`, `WaitingHasABound`.  The considered
order is a sequence without repetition in which the favoured critical components
come first and the others by `Ahead`; the fold over it has a solution
(`FoldExists`, by `NumbersInduction`), and settles each component once and for
all, so what a schedule says of a component is what `Fits` said when its turn
came (`Reasons`): that is where the two first theorems come from.  For the
last one a bound on the age of each line alone is not inductive: it says nothing
of when the line will be served.  `FewAreAsOld` counts: the lines that have
waited as long as a line `d`, less the ages the scores can make up for
(`Slack`), and the age of `d` are together at most `MaxLines + Slack`, once `d`
has waited longer than the slack.  It is inductive because whenever such a line
is deferred, one of those lines was served in its place, or it would have
fitted.  It needs what `Unhindered` says: lines that are not regrouped (a split
multiplies old lines), no reserved slots, a control for each class that is asked
for, and a bonus and a priority that do not reach their caps before.

`BodyLimitProofs` (any requests, bodies and limits): `TypesHold` and `GateKept`,
the refinement of `RequestGate` without its fairness.  Scanner and decoder are
folds over one fragment with a state; `FragmentsAddUp` shows that folding the
fragments one after the other is folding the body, wherever it was split, and
`LexemesStartOutside`, `ScannerDecides` and `DecoderDecides` that what the fold
finds is what `IsAcceptable` says of the whole: that the scanner is inside a
string exactly behind an odd number of unescaped quotes, escaped exactly behind
an odd run of backslashes, and over its budget exactly when some prefix is too
deep or has too many tokens.  The invariant is `IInv`: what was read so far is a
prefix of the body, and scanner, decoder and counters are what they are after it
(`Buffered`), each phase is entered with the tests before it passed (`Phased`),
and the application has only been given the whole (`Given`).

Only model-checked are: that `CanGoOn` is what ENABLED says of a step of the
launch (in `NoStandstill`), and all liveness (with `ImplementsGate`, that every
request gets an end), which are out of the prover's reach.  With a queue that is
not FIFO and removals that fail the manager's theorems are false, not unproved.
Two conjuncts are proved and have no run of their own: `MarkedIsPending` (by
`MarksArePending`) and `BackpressureBound` (by `QueueBounded`; it is a part of
`Bounded`).

## 7. Where the code and its documentation disagree

* *Finalized saves lost on a refused schedule* (`checkpoint_drained`).  When the
  asynchronous save raises after its backpressure wait, the ids it drained are
  lost, against the comment that says they are preserved
  (`production_mcore_async_checkpoint.py:77-83`).  It takes a restart over a
  partly written directory.
* *A candidate of a checkpoint still being written* (`launch_candidate`).
  `cyber_megatron_candidate.py:231-232` says a checkpoint cannot become a
  candidate before training completes, and tests the launch state of the
  output.  A job that has resumed on an output does not look at the state it
  takes over (`cyber_megatron_training.py:804-834`), and node 0 of the older
  job writes "completed" (1501) over the new job's state when it ends.  A
  candidate can then be sealed from, and verify against, the partial checkpoint
  of the new job.
* *The wait bonus overrides criticality* (`scheduler_boost`).  Beyond the
  reserved slots the order of the scheduler is the priority with the wait bonus,
  and only then criticality (`defense_resource_scheduler.py:468-476`), which
  itself adds 0.05 to the priority (line 249).  With the default policy a
  component that was deferred twice passes a critical one that scores higher,
  where `docs/SENTINEL_DEFENSE_RESOURCE_SCHEDULER.md:85` says that the boost
  works "without overriding criticality".  `DeferredForBetter` states the order
  as the code has it.

Met while modelling and not kept as a run: commands lose each other's updates.
Components "may progress independently and concurrently"
(`defense_wave_execution.py:263`), but each command reads the one wave file
whole and writes it back whole (`defense_wave_execution_cli.py:54-63`, 96), so
of two commands that overlap the later write restores the status the other
component had.  `Read` and `Write` have it, the run `wave` includes it, and
`ExecutedOnce` is limited to one command at a time because of it.  And
`defense_resource_scheduler.py:277` raises `KeyError` for
`PAUSE_PROTOCOL_CONTRACT`, which planning and assurance permit, so one such
component leaves no schedule for any other, where line 32 of that document
says "Every disconnected attack component is independently evaluated."  The
model has it (`Raises`) and the run includes it.

Three behaviours of the hold-out worker are in the model without being
disagreements.  The test that keeps SWIFT from appending to old results
(`cyber_megatron_holdout_worker.py:740-743`) is not atomic with the launch, so
executions that overlap can mix their answers; `AccountedFor` shows that the
replay then gives no prediction for a case answered twice, and `OneRunCounts`
holds for operators who wait.  A command that dies between the three outputs
leaves a directory that can only be thrown away.  So does a `prepare` that dies
after `mkdir`.

A completed wave can be started again from the same schedule: nothing reads
the reassessment receipt, which line 28 of the scheduler's document makes the
condition of another wave.  The models allow it; a property waits for the
reassessment (section 2, item 2).

Bounded waiting deserves a remark: `WaitingIsBounded` holds when nothing is
reserved, lines are not regrouped, and neither the largest bonus nor the largest
priority is reached before the gap of the scores plus one boost for each line
but one.  With less, the default of 0.30 in steps of 0.05 for instance, the bonus
saturates and the lowest score of a full class can wait for ever.  The
documentation only promises to "reduce" starvation, so this is a hazard and
not a disagreement.

## 8. What is not modelled

`PROJECT.json` lists every component with its reason.  In short: tensor
arithmetic, Megatron and torch; text extraction and anonymisation; digest and
schema checks of single documents, which have no behaviour over time; command
lines that only parse arguments; floating-point rounding; the contents of
evidence, receipts and rationales.  Planned parts are in section 2.

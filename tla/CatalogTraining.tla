-------------------------- MODULE CatalogTraining --------------------------
(***************************************************************************)
(* The training loop of production_mcore_catalog_training.py: batches are  *)
(* taken from the catalog in order, every update is checkpointed, and an   *)
(* unstable step rolls the job back to the last committed checkpoint, then *)
(* retries, quarantines or gives up the batch (production_mcore_recovery). *)
(*                                                                         *)
(* The ranks run this loop in lockstep: every branch is taken on a value   *)
(* that a collective made equal on all of them.  With async the            *)
(* checkpoints go through the recovery manager, of which this module sees  *)
(* what CheckpointStore promises: saves become committed in the order of   *)
(* their generations, only while the loop is inside a manager call.        *)
(* Batch b stands for the window of sequences at offset b * window.        *)
(***************************************************************************)
EXTENDS Naturals, FiniteSets, Sequences

CONSTANTS
    Batches,          \* number of windows in the catalog
    MaxSteps,         \* config.max_steps
    Every,            \* config.checkpoint_every_steps
    MaxRetries,       \* recovery_policy.max_retries_per_batch
    QuarantineAfter,  \* recovery_policy.quarantine_after_failures
    SkipQuarantined,  \* recovery_policy.skip_quarantined_batch
    Modes,            \* values of config.async_recovery_checkpoints
    MaxUnfinalized,   \* config.max_unfinalized_checkpoints
    MaxCrashes        \* bound: number of crashes

ASSUME CountsAssumption ==
    /\ Batches \in Nat /\ MaxSteps \in Nat \ {0} /\ Every \in Nat \ {0}
    /\ MaxUnfinalized \in Nat \ {0} /\ MaxCrashes \in Nat
ASSUME PolicyAssumption ==
    /\ MaxRetries \in Nat /\ QuarantineAfter \in Nat \ {0}
    /\ QuarantineAfter =< MaxRetries + 1
    /\ SkipQuarantined \in BOOLEAN /\ Modes \subseteq BOOLEAN

VARIABLES
    phase,      \* where the loop is
    state,      \* MCoreTrainingState, and the updates the weights hold
    completed,  \* updates the loop has counted
    offset,     \* next batch of the catalog
    ledger,     \* RecoveryLedger
    retries,    \* the loop's copy of ledger.total_retries
    events,     \* batches in quarantine_events
    final,      \* directory the next rollback restores, or NoDir
    pending,    \* asynchronous saves not yet committed, oldest first
    content,    \* disk: what each checkpoint directory holds
    committed,  \* disk: the entries of the recovery index
    crashes,    \* jobs restarted so far
    async,      \* config.async_recovery_checkpoints of this job and its restarts
    strayed     \* history, read by the properties only: some job was resumed from
                \* another checkpoint than the newest of the index

job  == <<state, completed, offset, ledger, retries, events, final>>
disk == <<content, committed>>
vars == <<phase, job, pending, disk, crashes, async, strayed>>

-----------------------------------------------------------------------------
Batch == 0..(Batches - 1)

BaseDir          == [kind |-> "base", n |-> 0]
StepDir(n)       == [kind |-> "step", n |-> n]
QuarantineDir(n) == [kind |-> "quarantine", n |-> n]
NoDir            == [kind |-> "none", n |-> 0]
Dir == {BaseDir} \cup {StepDir(n) : n \in 1..MaxSteps} \cup {QuarantineDir(n) : n \in 1..Batches}

\* Steps saved as "periodic" are durable, the others are "recovery" slots.
Regular(n) == n % Every = 0 \/ n = MaxSteps
DurableDir == Dir \ {StepDir(n) : n \in {m \in 1..MaxSteps : ~ Regular(m)}}

Gen   == Nat
Entry == [dir : Dir, gen : Gen]

\* What a checkpoint restores: the training state, and by Attach the cursor,
\* the ledger, the retry count and the quarantine events.
State    == [step : 0..MaxSteps, seen : SUBSET Batch]
Ledger   == [failures : [Batch -> 0..QuarantineAfter], quarantined : SUBSET Batch, retries : Nat]
Snapshot == [state : State, offset : 0..Batches, ledger : Ledger, retries : Nat,
             events : SUBSET Batch]
FreshState  == [step |-> 0, seen |-> {}]
EmptyLedger == [failures |-> [b \in Batch |-> 0], quarantined |-> {}, retries |-> 0]

Absent  == [missing |-> TRUE]
Partial == [missing |-> FALSE]
Occupied(d) == content[d] # Absent
Saved(d)    == content[d] \notin {Absent, Partial}

\* The manager's promise: which entries a publication may retire.
Store == INSTANCE CheckpointStore WITH intact <- {d \in Dir : Saved(d)}

Queued  == {pending[i] : i \in DOMAIN pending}
Latest  == CHOOSE e \in committed : \A x \in committed : x.gen =< e.gen
NextGen ==
    LET taken == committed \cup Queued
    IN  IF taken = {} THEN 0 ELSE 1 + (CHOOSE e \in taken : \A x \in taken : x.gen =< e.gen).gen

\* manager.committed_last_good_dir or final
LastGood == IF committed = {} THEN final ELSE Latest.dir

\* Mutant: the loop's own events instead of the proposed ones.
AttachOldEvents(s, o, evs) ==
    [state |-> s, offset |-> o, ledger |-> ledger, retries |-> retries, events |-> events]
Attach(s, o, evs) ==
    [state |-> s, offset |-> o, ledger |-> ledger, retries |-> retries, events |-> evs]

Init ==
    /\ phase = "start"
    /\ state = FreshState /\ completed = 0 /\ offset = 0
    /\ ledger = EmptyLedger /\ retries = 0 /\ events = {} /\ final = NoDir
    /\ pending = <<>> /\ committed = {} /\ content = [d \in Dir |-> Absent]
    /\ crashes = 0 /\ async \in Modes /\ strayed = FALSE

-----------------------------------------------------------------------------
(* Starting a job.                                                         *)

\* A job told of no checkpoint saves its initial state before it trains.
StartFresh ==
    /\ phase = "start"
    /\ IF Occupied(BaseDir)
       THEN phase' = "failed" /\ UNCHANGED <<content, final>>
       ELSE /\ content' = [content EXCEPT ![BaseDir] = Attach(state, 0, events)]
            /\ final' = BaseDir
            /\ phase' = "register"
    /\ UNCHANGED <<state, completed, offset, ledger, retries, events, pending, committed,
                   crashes, async, strayed>>

\* Mutant: the cursor is derived from the step.
ResumeAtStep(d) ==
    /\ phase = "start" /\ Saved(d)
    /\ LET saved == content[d] IN
        /\ state' = saved.state /\ completed' = saved.state.step
        /\ offset' = saved.state.step /\ ledger' = saved.ledger
        /\ retries' = saved.retries /\ events' = saved.events
        /\ phase' = IF saved.state.step >= MaxSteps THEN "failed" ELSE "head"
    /\ final' = d
    /\ strayed' = (strayed \/ (committed # {} /\ d # Latest.dir))
    /\ UNCHANGED <<pending, disk, crashes, async>>

\* A job resumes from any complete checkpoint it is given: an old one, or one that
\* never got into the index.  Nothing compares it with the entry of the index that
\* the first rollback will restore.
Resume(d) ==
    /\ phase = "start" /\ Saved(d)
    /\ LET saved == content[d] IN
        /\ state' = saved.state /\ completed' = saved.state.step
        /\ offset' = saved.offset /\ ledger' = saved.ledger
        /\ retries' = saved.retries /\ events' = saved.events
        /\ phase' = IF saved.state.step >= MaxSteps THEN "failed" ELSE "head"
    /\ final' = d
    /\ strayed' = (strayed \/ (committed # {} /\ d # Latest.dir))
    /\ UNCHANGED <<pending, disk, crashes, async>>

-----------------------------------------------------------------------------
(* The recovery manager, as the loop sees it.                              *)

\* A pending save becomes committed, in a call of poll, wait or close.
Publish ==
    /\ phase \in {"register", "recover", "save", "saved", "waiting", "closing"}
    /\ pending # <<>>
    /\ LET e == Head(pending) IN
        \E retired \in SUBSET (committed \cup {e}) :
            /\ Store!MayRetire(e, retired)
            /\ committed' = (committed \cup {e}) \ retired
            /\ content' = [d \in Dir |-> IF d \in Store!Named(retired) THEN Absent ELSE content[d]]
    /\ pending' = Tail(pending)
    /\ UNCHANGED <<phase, job, crashes, async, strayed>>

\* register_committed: a synchronous save enters the index.
Registered ==
    /\ phase = "register"
    /\ committed' = IF async THEN committed \cup {[dir |-> final, gen |-> NextGen]} ELSE committed
    /\ phase' = "head"
    /\ UNCHANGED <<job, pending, content, crashes, async, strayed>>

-----------------------------------------------------------------------------
(* The loop.                                                               *)

\* The next batch, the end of the run, or the end of the catalog.
LoopHead ==
    /\ phase = "head"
    /\ phase' = IF completed = MaxSteps THEN "waiting"
                ELSE IF offset = Batches THEN "closing" ELSE "attempt"
    /\ UNCHANGED <<job, pending, disk, crashes, async, strayed>>

\* The step is stable on every rank: the update counts.
Stable ==
    /\ phase = "attempt"
    /\ offset' = offset + 1 /\ completed' = completed + 1
    /\ state' = [step |-> completed + 1, seen |-> state.seen \cup {offset}]
    /\ phase' = "save"
    /\ UNCHANGED <<ledger, retries, events, final, pending, disk, crashes, async, strayed>>

\* Mutant: one snapshot too many in memory.
OverCapacity == async /\ Len(pending) > MaxUnfinalized
AtCapacity == async /\ Len(pending) >= MaxUnfinalized

\* The step's checkpoint is written, or handed to the manager once its queue
\* has room: at capacity all the saves before it are published first.
SaveStep ==
    /\ phase = "save" /\ ~ Occupied(StepDir(completed)) /\ ~ AtCapacity
    /\ content' = [content EXCEPT ![StepDir(completed)] = Attach(state, offset, events)]
    /\ IF async
       THEN /\ pending' = Append(pending, [dir |-> StepDir(completed), gen |-> NextGen])
            /\ UNCHANGED final
       ELSE final' = StepDir(completed) /\ UNCHANGED pending
    /\ phase' = "saved"
    /\ UNCHANGED <<state, completed, offset, ledger, retries, events, committed, crashes, async, strayed>>

\* The directory is taken: an exception, which loses the saves that the
\* queue has drained but not yet handed back for publication.
SaveRefused ==
    /\ phase = "save" /\ Occupied(StepDir(completed))
    /\ pending' = IF AtCapacity THEN <<>> ELSE pending
    /\ phase' = "closing"
    /\ UNCHANGED <<job, disk, crashes, async, strayed>>

\* The poll after the save is over.
StepDone ==
    /\ phase = "saved"
    /\ final' = LastGood
    /\ phase' = "head"
    /\ UNCHANGED <<state, completed, offset, ledger, retries, events, pending, disk, crashes, async, strayed>>

\* build_recovery_decision
Quarantined(b, failures)  == failures[b] >= QuarantineAfter
RetryAllowed(b, failures) == failures[b] =< MaxRetries /\ ~ Quarantined(b, failures)
Decided(b) ==
    LET failures == [ledger.failures EXCEPT ![b] = @ + 1] IN
    [failures    |-> failures,
     quarantined |-> ledger.quarantined \cup {x \in {b} : Quarantined(x, failures)},
     retries     |-> ledger.retries + IF RetryAllowed(b, failures) THEN 1 ELSE 0]

\* Some rank reported a blocker or an exception.
Unstable ==
    /\ phase = "attempt"
    /\ ledger' = Decided(offset)
    /\ phase' = "recover"
    /\ UNCHANGED <<state, completed, offset, retries, events, final, pending, disk, crashes, async, strayed>>

\* Mutant: the ledger is rolled back with the state.
RollbackLedger ==
    /\ phase = "recover"
    /\ final' = LastGood
    /\ state' = content[final'].state
    /\ ledger' = content[final'].ledger /\ retries' = ledger'.retries
    /\ phase' = IF RetryAllowed(offset, ledger.failures) THEN "attempt"
                ELSE IF offset \in ledger.quarantined /\ SkipQuarantined
                     THEN "quarantine" ELSE "closing"
    /\ UNCHANGED <<completed, offset, events, pending, disk, crashes, async, strayed>>

\* The poll is over: the last good checkpoint replaces the weights and the
\* state, but neither the counters of the loop nor the ledger.
Rollback ==
    /\ phase = "recover"
    /\ final' = LastGood
    /\ state' = content[final'].state
    /\ IF RetryAllowed(offset, ledger.failures)
       THEN phase' = "attempt" /\ retries' = ledger.retries
       ELSE /\ phase' = IF offset \in ledger.quarantined /\ SkipQuarantined
                        THEN "quarantine" ELSE "closing"
            /\ UNCHANGED retries
    /\ UNCHANGED <<completed, offset, ledger, events, pending, disk, crashes, async, strayed>>

\* The batch is given up: the restored state is saved past it.
Quarantine ==
    /\ phase = "quarantine"
    /\ LET d == QuarantineDir(offset + 1) IN
        IF Occupied(d)
        THEN phase' = "closing" /\ UNCHANGED <<content, events, offset, final>>
        ELSE /\ content' = [content EXCEPT ![d] = Attach(state, offset + 1, events \cup {offset})]
             /\ events' = events \cup {offset} /\ offset' = offset + 1 /\ final' = d
             /\ phase' = "register"
    /\ UNCHANGED <<state, completed, ledger, retries, pending, committed, crashes, async, strayed>>

-----------------------------------------------------------------------------
(* The end of a job.                                                       *)

\* wait() publishes every save before the result names the last one.
Finish ==
    /\ phase = "waiting" /\ pending = <<>>
    /\ final' = LastGood
    /\ phase' = "done"
    /\ UNCHANGED <<state, completed, offset, ledger, retries, events, pending, disk, crashes, async, strayed>>

\* An exception leaves the loop through close(abort=False).
Fail ==
    /\ phase = "closing" /\ pending = <<>>
    /\ phase' = "failed"
    /\ UNCHANGED <<job, pending, disk, crashes, async, strayed>>

\* Directories a job that dies now may leave half written.
InFlight ==
    {e.dir : e \in Queued}
        \cup (IF phase = "start" /\ ~ Occupied(BaseDir) THEN {BaseDir} ELSE {})
        \cup (IF phase = "save" /\ ~ Occupied(StepDir(completed)) THEN {StepDir(completed)} ELSE {})
        \cup (IF phase = "quarantine" /\ ~ Occupied(QuarantineDir(offset + 1))
              THEN {QuarantineDir(offset + 1)} ELSE {})

\* The job dies, or has failed, and is started again.
Restart ==
    /\ phase # "done" /\ crashes < MaxCrashes
    /\ \E torn \in SUBSET InFlight :
        content' = [d \in Dir |-> IF d \in torn THEN Partial ELSE content[d]]
    /\ phase' = "start" /\ pending' = <<>> /\ final' = NoDir
    /\ state' = FreshState /\ completed' = 0 /\ offset' = 0
    /\ ledger' = EmptyLedger /\ retries' = 0 /\ events' = {}
    /\ crashes' = crashes + 1
    /\ UNCHANGED <<committed, async, strayed>>

Step ==
    \/ StartFresh \/ \E d \in Dir : Resume(d)
    \/ Publish \/ Registered
    \/ LoopHead \/ Stable \/ SaveStep \/ SaveRefused \/ StepDone
    \/ Unstable \/ Rollback \/ Quarantine
    \/ Finish \/ Fail

Next == Step \/ Restart
Spec == Init /\ [][Next]_vars

\* A live process keeps executing, and the writers of the pending saves end.
FairSpec == Spec /\ WF_vars(Step)

-----------------------------------------------------------------------------
(* Properties.                                                             *)

\* Types; the three accounts of what was tried agree: the quarantine events of the
\* result are those of the ledger and lie before the cursor, also after a restart, and
\* the retry count attached to a checkpoint is the ledger's, or the save raises.
TypeOK ==
    /\ phase \in {"start", "register", "head", "attempt", "recover", "quarantine", "save", "saved",
                  "waiting", "closing", "done", "failed"}
    /\ state \in State /\ completed \in 0..MaxSteps /\ offset \in 0..Batches
    /\ ledger \in Ledger /\ retries \in Nat /\ events \in SUBSET Batch
    /\ final \in Dir \cup {NoDir}
    /\ \A d \in Dir : Saved(d) => content[d] \in Snapshot
    /\ committed \in SUBSET Entry /\ Queued \in SUBSET Entry
    /\ crashes \in 0..MaxCrashes /\ async \in Modes
    /\ phase = "head" => events = ledger.quarantined /\ offset \notin events
    /\ phase \in {"save", "quarantine"} => retries = ledger.retries

\* The weights hold each batch at most once, whatever was rolled back and retired: the
\* batch about to be trained is new to them.  It takes an operator who has resumed from
\* the newest entry of the index whenever it had one: the code does not ask for it, and
\* from an older checkpoint the first rollback restores the newer one under the old
\* cursor.  With synchronous checkpoints, which have no index, it holds whatever was
\* resumed from, and nothing is lost either: the weights hold the update of every
\* batch before the cursor that was not given up.
NoBatchTrainedTwice ==
    phase = "attempt" =>
        /\ ~ strayed => offset \notin state.seen
        /\ ~ async => state = [step |-> completed, seen |-> 0..(offset - 1) \ events]

\* The batches between the checkpoint d and the cursor that were trained.
Since(d) == (content[d].offset..(offset - 1)) \ events

\* A rollback finds its directory complete, although retention may have deleted the
\* one the loop had remembered and whatever the job was resumed from; and, if that was
\* always the newest entry, the checkpoint is at most as many updates old as may be
\* unfinalized, none when the checkpoints are synchronous, whatever was rolled back,
\* quarantined and published out of order with it before.
RollbackIsRecent ==
    [][phase = "recover" /\ crashes' = crashes =>
        /\ Saved(LastGood)
        /\ ~ strayed =>
            Cardinality(Since(LastGood)) =< IF async THEN MaxUnfinalized ELSE 0]_vars

\* Every job ends: the retries of a batch are bounded although each of them
\* restores an older state.
JobEnds == <>(phase \in {"done", "failed"})
=============================================================================

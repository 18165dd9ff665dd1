------------------------ MODULE RecoveryCheckpoints ------------------------
(***************************************************************************)
(* The asynchronous recovery-checkpoint manager of a distributed training  *)
(* job: production_mcore_recovery_checkpoint_manager.py (the collective    *)
(* operations), production_mcore_checkpoint_retention.py (the index file   *)
(* and its retention) and production_mcore_async_checkpoint.py (the queue  *)
(* of asynchronous saves with its backpressure).                           *)
(*                                                                         *)
(* Every rank runs the same sequence of manager operations.  Collectives   *)
(* (gather, broadcast, all_gather) are barriers: `arrived` holds the ranks *)
(* that have reached the next one.  Between barriers the ranks move        *)
(* independently, background writers fill checkpoint directories one shard *)
(* per rank, the job may crash at any point, and a new job starts from     *)
(* what is on disk.                                                        *)
(***************************************************************************)
EXTENDS Naturals, FiniteSets

CONSTANTS
    Rank,             \* the ranks of the job
    Leader,           \* rank 0, the only writer of the index
    Dir,              \* checkpoint directories the caller may name
    NoDir,            \* no directory
    RecoveryDir,      \* those saved with kind = "recovery"
    SyncDir,          \* those saved synchronously, then registered
    DurableDir,       \* those recorded with durable = True
    Slots,            \* keep_recovery_slots
    MaxUnfinalized,   \* AsyncCheckpointConfig.max_unfinalized
    InOrder,          \* TRUE: the queue finalizes requests in the order scheduled
    Faults,           \* subset of {"write", "remove"}: I/O errors of a publication
    MaxGeneration,    \* bound: largest commit generation assigned
    MaxRestarts       \* bound: number of new jobs after the first

ASSUME RanksAssumption == Leader \in Rank /\ IsFiniteSet(Rank)
ASSUME DirsAssumption ==
    /\ NoDir \notin Dir
    /\ RecoveryDir \subseteq Dir /\ SyncDir \subseteq Dir /\ DurableDir \subseteq Dir
    /\ RecoveryDir \cap SyncDir = {}
ASSUME BoundsAssumption ==
    /\ Slots \in Nat \ {0} /\ MaxUnfinalized \in Nat \ {0}
    /\ MaxGeneration \in Nat /\ MaxRestarts \in Nat
ASSUME FaultsAssumption == InOrder \in BOOLEAN /\ Faults \subseteq {"write", "remove"}

VARIABLES
    shards,     \* disk: the ranks whose part of a directory is on disk
    indexFile,  \* disk: the entries of recovery-index.json ({} when absent)
    index,      \* per rank: manager.index.entries
    pending,    \* per rank: manager.pending
    finalized,  \* per rank: manager.locally_finalized_generations
    queue,      \* per rank: requests the async queue has not finalized
    drained,    \* per rank: requests finalized by the backpressure of a save
    stage,      \* where the current operation is
    op,         \* the current operation: its name, directory and agreed entry
    entry,      \* the entry being published
    arrived,    \* ranks that reached the next collective
    ready,      \* generations all ranks agreed to publish, not yet published
    removing,   \* directories the retention is deleting
    used,       \* directories the caller already named in this job
    restarts    \* jobs started after the first

disk    == <<shards, indexFile>>
memory  == <<index, pending, finalized, queue, drained>>
control == <<stage, op, entry, arrived, ready, removing>>
vars    == <<disk, memory, control, used, restarts>>

-----------------------------------------------------------------------------
(* Entries and the retention rule.                                         *)

Generation == 0..MaxGeneration
Entry   == [dir : Dir, gen : Generation]
NoEntry == [dir |-> NoDir, gen |-> 0]

Stages == {"idle", "syncsave", "finalize", "agree", "capacity", "publish",
           "retire", "reload", "enqueue", "raised",
           "ended", "aborted", "crashed"}
Stopped == {"ended", "aborted", "crashed"}
OpNames == {"poll", "wait", "save", "register", "close"}
\* `agreed` is the entry the ranks agreed on, NoEntry before the agreement.
Operation == [name : OpNames, dir : Dir \cup {NoDir}, agreed : Entry \cup {NoEntry}]

Gens(entries) == {e.gen : e \in entries}
Dirs(entries) == {e.dir : e \in entries}

Complete(d) == shards[d] = Rank
Occupied(d) == shards[d] # {}

\* The generation is one above every committed and every pending one.
IsNextGeneration(g, entries) ==
    /\ \A e \in entries : e.gen < g
    /\ g = 0 \/ \E e \in entries : e.gen + 1 = g

\* An entry replaces the previous entry of its directory.
WithEntry(entries, e) == {x \in entries : x.dir # e.dir} \cup {e}

RecoveryEntries(entries) == {e \in entries : e.dir \in RecoveryDir}

\* Mutant of Removable: one slot too many.
RemovableLate(entries) ==
    {e \in RecoveryEntries(entries) :
        /\ e.dir \notin DurableDir
        /\ Cardinality({x \in RecoveryEntries(entries) : x.gen > e.gen}) > Slots}

\* All but the newest Slots recovery entries; durable ones are not removed.
Removable(entries) ==
    {e \in RecoveryEntries(entries) :
        /\ e.dir \notin DurableDir
        /\ Cardinality({x \in RecoveryEntries(entries) : x.gen > e.gen}) >= Slots}

Retained(entries, e) == WithEntry(entries, e) \ Removable(WithEntry(entries, e))

-----------------------------------------------------------------------------

OpIdle == [name |-> "poll", dir |-> NoDir, agreed |-> NoEntry]

Init ==
    /\ shards = [d \in Dir |-> {}]
    /\ indexFile = {}
    /\ index     = [r \in Rank |-> {}]
    /\ pending   = [r \in Rank |-> {}]
    /\ finalized = [r \in Rank |-> {}]
    /\ queue     = [r \in Rank |-> {}]
    /\ drained   = [r \in Rank |-> {}]
    /\ stage = "idle" /\ op = OpIdle /\ entry = NoEntry
    /\ arrived = {} /\ ready = {} /\ removing = {}
    /\ used = {} /\ restarts = 0

-----------------------------------------------------------------------------
(* The caller starts an operation.                                         *)

\* Mutant of Known: pending saves do not reserve their generation.
KnownCommitted(r) == index[r]

Known(r) == index[r] \cup pending[r]

Begin(name, d, next) ==
    /\ stage' = next
    /\ op' = [name |-> name, dir |-> d, agreed |-> NoEntry]
    /\ arrived' = {}
    /\ UNCHANGED <<disk, memory, entry, ready, removing, restarts>>

\* manager.poll() and manager.wait()
Poll == stage = "idle" /\ Begin("poll", NoDir, "finalize") /\ UNCHANGED used
Wait == stage = "idle" /\ Begin("wait", NoDir, "finalize") /\ UNCHANGED used

\* The training loop names a directory once per job: the names grow with the
\* completed steps and the catalog offset.
CallerNames(d) ==
    /\ stage = "idle"
    /\ d \notin used
    /\ \A e \in Known(Leader) : e.gen < MaxGeneration
    /\ used' = used \cup {d}

\* manager.save_async(...): its first call is self.poll().
SaveAsync(d) == d \notin SyncDir /\ CallerNames(d) /\ Begin("save", d, "finalize")

\* A synchronous save followed by manager.register_committed(...), which the
\* training loop uses for base, skip and quarantine checkpoints; the save
\* refuses a directory that is not empty.
Register(d) ==
    /\ d \in SyncDir
    /\ CallerNames(d)
    /\ Begin("register", d, IF Occupied(d) THEN "raised" ELSE "syncsave")

\* manager.close(abort=False), at the end of the run or after an exception.
Close ==
    /\ stage \in {"idle", "raised"}
    /\ Begin("close", NoDir, "finalize")
    /\ UNCHANGED used

\* manager.close(abort=True)
Abort ==
    /\ stage = "idle"
    /\ stage' = "aborted"
    /\ queue'   = [r \in Rank |-> {}]
    /\ pending' = [r \in Rank |-> {}]
    /\ UNCHANGED <<disk, index, finalized, drained, op, entry, arrived, ready,
                   removing, used, restarts>>

\* An exception on every rank: the caller's `finally` closes the manager; an
\* exception inside close ends the job.
Raised == IF op.name = "close" THEN "ended" ELSE "raised"

-----------------------------------------------------------------------------
(* Writers.                                                                *)

\* A background writer of rank r finishes its part of an asynchronous save.
BackgroundWrite(r) ==
    /\ stage \notin Stopped
    /\ \E e \in queue[r] :
        /\ r \notin shards[e.dir]
        /\ shards' = [shards EXCEPT ![e.dir] = @ \cup {r}]
    /\ UNCHANGED <<indexFile, memory, control, used, restarts>>

\* Rank r writes its part of a synchronous save.
SyncWrite(r) ==
    /\ stage = "syncsave" /\ r \notin shards[op.dir]
    /\ shards' = [shards EXCEPT ![op.dir] = @ \cup {r}]
    /\ UNCHANGED <<indexFile, memory, control, used, restarts>>

\* save_and_commit_state: the save returned on every rank and every rank
\* observes the directory; register_committed then polls.
SyncCommit ==
    /\ stage = "syncsave" /\ Complete(op.dir)
    /\ stage' = "finalize"
    /\ UNCHANGED <<disk, memory, op, entry, arrived, ready, removing, used, restarts>>

-----------------------------------------------------------------------------
(* Local finalization, and agreement on the generations to publish.        *)

Blocking == op.name \in {"wait", "close"}

\* What the queue of rank r may report: finished requests, in the order they
\* were scheduled when the queue is FIFO.
Finalizable(r) ==
    {s \in SUBSET queue[r] :
        /\ \A e \in s : r \in shards[e.dir]
        /\ InOrder => \A e \in s, x \in queue[r] : x.gen < e.gen => x \in s}

\* Mutant of FinalizeLocal: a rank with nothing to report skips the all_gather.
FinalizeLocalSkipsEmpty(r) ==
    /\ stage = "finalize" /\ r \notin arrived
    /\ \E s \in Finalizable(r) :
        /\ s # {} /\ s \subseteq pending[r]
        /\ Blocking => s = queue[r]
        /\ queue' = [queue EXCEPT ![r] = @ \ s]
        /\ finalized' = [finalized EXCEPT ![r] = @ \cup Gens(s)]
        /\ arrived' = arrived \cup {r}
    /\ UNCHANGED <<disk, index, pending, drained, stage, op, entry, ready, removing,
                   used, restarts>>

\* Rank r marks its completions (first half of _finalize_ids), all of them
\* when the call blocks.  The completion of a request that is not pending
\* raises.
FinalizeLocal(r) ==
    /\ stage = "finalize" /\ r \notin arrived
    /\ \E s \in Finalizable(r) :
        /\ Blocking => s = queue[r]
        /\ queue' = [queue EXCEPT ![r] = @ \ s]
        /\ \/ /\ s \subseteq pending[r]
              /\ finalized' = [finalized EXCEPT ![r] = @ \cup Gens(s)]
              /\ arrived' = arrived \cup {r}
              /\ UNCHANGED stage
           \/ /\ ~ s \subseteq pending[r]
              /\ stage' = Raised
              /\ UNCHANGED <<finalized, arrived>>
    /\ UNCHANGED <<disk, index, pending, drained, op, entry, ready, removing, used, restarts>>

\* Mutant of GloballyReady: one rank is enough.
ReadySomewhere(marks) == UNION {marks[r] : r \in Rank}

\* Generations finalized on every rank: the intersection of the local sets.
GloballyReady(marks) ==
    {g \in UNION {marks[r] : r \in Rank} : \A r \in Rank : g \in marks[r]}

\* Where an operation continues once its ready generations are published.
Continue ==
    IF op.name = "close" THEN "ended"
    ELSE IF op.name \in {"save", "register"} /\ op.agreed = NoEntry THEN "agree"
    ELSE IF op.name = "save" THEN "enqueue"
    ELSE "idle"

\* Mutant of PublishNext: the ready generations in any order.
PublishAny(gens) ==
    /\ ready' = gens
    /\ \/ gens = {} /\ stage' = Continue /\ UNCHANGED entry
       \/ \E e \in pending[Leader] : e.gen \in gens /\ stage' = "publish" /\ entry' = e

\* _publish_globally_ready takes the ready generations in increasing order.
\* Each is the generation of one pending entry.
PublishNext(gens) ==
    /\ ready' = gens
    /\ \/ /\ gens = {}
          /\ stage' = Continue
          /\ UNCHANGED entry
       \/ \E e \in pending[Leader] :
          /\ e.gen \in gens /\ \A g \in gens : e.gen =< g
          /\ stage' = "publish"
          /\ entry' = e

\* all_gather of the local sets
GatherReady ==
    /\ stage = "finalize" /\ arrived = Rank
    /\ PublishNext(GloballyReady(finalized))
    /\ arrived' = {}
    /\ UNCHANGED <<disk, memory, op, removing, used, restarts>>

-----------------------------------------------------------------------------
(* Agreement on a new entry, capacity of the queue, scheduling.            *)

\* The logical identity the ranks proposed, with the generation of rank 0.
\* Mutant: the directory of the previously published entry.
StaleProposal(g) == [dir |-> entry.dir, gen |-> g]
Proposal(g) == [dir |-> op.dir, gen |-> g]

\* _agree_entry: rank 0 assigns the generation, the broadcast carries it.
AgreeEntry ==
    /\ stage = "agree"
    /\ \E g \in Generation :
        /\ IsNextGeneration(g, Known(Leader))
        /\ op' = [name |-> op.name, dir |-> op.dir, agreed |-> Proposal(g)]
    /\ stage' = IF op.name = "save" THEN "capacity" ELSE "publish"
    /\ entry' = IF op.name = "save" THEN entry ELSE op'.agreed
    /\ UNCHANGED <<disk, memory, arrived, ready, removing, used, restarts>>

\* MCoreAsyncCheckpointQueue.save: with max_unfinalized requests outstanding
\* the rank blocks until all of them are finalized.
AwaitCapacity(r) ==
    /\ stage = "capacity" /\ r \notin arrived
    /\ \/ /\ Cardinality(queue[r]) < MaxUnfinalized
          /\ UNCHANGED <<queue, drained>>
       \/ /\ Cardinality(queue[r]) >= MaxUnfinalized
          /\ \A e \in queue[r] : r \in shards[e.dir]
          /\ drained' = [drained EXCEPT ![r] = queue[r]]
          /\ queue' = [queue EXCEPT ![r] = {}]
    /\ arrived' = arrived \cup {r}
    /\ UNCHANGED <<disk, index, pending, finalized, stage, op, entry, ready, removing,
                   used, restarts>>

\* The target is not empty: FileExistsError, the drained requests are lost.
ScheduleRefused ==
    /\ stage = "capacity" /\ arrived = Rank
    /\ Occupied(op.dir)
    /\ stage' = Raised
    /\ drained' = [r \in Rank |-> {}]
    /\ arrived' = {}
    /\ UNCHANGED <<disk, index, pending, finalized, queue, op, entry, ready, removing,
                   used, restarts>>

\* What the backpressure wait finalized is marked like any completion.
\* Mutant: the finalized ids of the schedule result are dropped.
ForgetDrained == finalized
MarkDrained   == [r \in Rank |-> finalized[r] \cup Gens(drained[r])]

\* The request is scheduled; save_async then finalizes what the backpressure
\* drained before it adds the request to pending.
Schedule ==
    /\ stage = "capacity" /\ arrived = Rank
    /\ ~ Occupied(op.dir)
    /\ queue' = [r \in Rank |-> queue[r] \cup {op.agreed}]
    /\ finalized' = MarkDrained
    /\ drained' = [r \in Rank |-> {}]
    /\ PublishNext(GloballyReady(finalized'))
    /\ arrived' = {}
    /\ UNCHANGED <<disk, index, pending, op, removing, used, restarts>>

Enqueue ==
    /\ stage = "enqueue"
    /\ pending' = [r \in Rank |-> pending[r] \cup {op.agreed}]
    /\ stage' = "idle"
    /\ UNCHANGED <<disk, index, finalized, queue, drained, op, entry, arrived, ready,
                   removing, used, restarts>>

-----------------------------------------------------------------------------
(* Publication: rank 0 records the entry, then every rank reloads the index.*)

\* record_recovery_checkpoint replaces the index file atomically.
RecordEntry ==
    /\ stage = "publish"
    /\ indexFile' = Retained(index[Leader], entry)
    /\ removing' = Dirs(Removable(WithEntry(index[Leader], entry)))
    /\ stage' = "retire"
    /\ UNCHANGED <<shards, memory, op, entry, arrived, ready, used, restarts>>

\* The index could not be written: rank 0 broadcasts the failure.
RecordFails ==
    /\ "write" \in Faults
    /\ stage = "publish"
    /\ stage' = Raised
    /\ ready' = {}
    /\ UNCHANGED <<disk, memory, op, entry, arrived, removing, used, restarts>>

\* Mutant of RemoveFile: directories are deleted before the index is replaced.
RemoveFileEarly ==
    /\ stage \in {"publish", "retire"}
    /\ \E d \in Dirs(Removable(WithEntry(index[Leader], entry))) : \E r \in shards[d] :
        shards' = [shards EXCEPT ![d] = @ \ {r}]
    /\ UNCHANGED <<indexFile, memory, control, used, restarts>>

\* shutil.rmtree removes a retired directory file by file.
RemoveFile ==
    /\ stage = "retire"
    /\ \E d \in removing : \E r \in shards[d] :
        shards' = [shards EXCEPT ![d] = @ \ {r}]
    /\ UNCHANGED <<indexFile, memory, control, used, restarts>>

RemoveFails ==
    /\ "remove" \in Faults
    /\ stage = "retire"
    /\ \E d \in removing : Occupied(d)
    /\ stage' = Raised
    /\ ready' = {} /\ removing' = {}
    /\ UNCHANGED <<disk, memory, op, entry, arrived, used, restarts>>

\* The directories are gone: rank 0 holds the new index and broadcasts.
RetireDone ==
    /\ stage = "retire"
    /\ \A d \in removing : ~ Occupied(d)
    /\ index' = [index EXCEPT ![Leader] = indexFile]
    /\ removing' = {}
    /\ stage' = "reload"
    /\ UNCHANGED <<disk, pending, finalized, queue, drained, op, entry, arrived, ready,
                   used, restarts>>

\* Mutant of Reload: a follower keeps its old index.
ReloadLeaderOnly(r) ==
    /\ stage = "reload" /\ r \notin arrived
    /\ index' = IF r = Leader THEN [index EXCEPT ![r] = indexFile] ELSE index
    /\ pending' = [pending EXCEPT ![r] = @ \ {entry}]
    /\ finalized' = [finalized EXCEPT ![r] = @ \ {entry.gen}]
    /\ arrived' = arrived \cup {r}
    /\ UNCHANGED <<disk, queue, drained, stage, op, entry, ready, removing, used, restarts>>

\* Rank r reloads the index from disk and forgets the published request.
Reload(r) ==
    /\ stage = "reload" /\ r \notin arrived
    /\ index' = [index EXCEPT ![r] = indexFile]
    /\ pending' = [pending EXCEPT ![r] = @ \ {entry}]
    /\ finalized' = [finalized EXCEPT ![r] = @ \ {entry.gen}]
    /\ arrived' = arrived \cup {r}
    /\ UNCHANGED <<disk, queue, drained, stage, op, entry, ready, removing, used, restarts>>

\* The next collective: the next ready generation, or the rest of the call.
Published ==
    /\ stage = "reload" /\ arrived = Rank
    /\ PublishNext(ready \ {entry.gen})
    /\ arrived' = {}
    /\ UNCHANGED <<disk, memory, op, removing, used, restarts>>

-----------------------------------------------------------------------------
(* Crash and restart.                                                      *)

\* The job dies: memory, queue and background writers are lost.
Crash ==
    /\ stage \notin Stopped
    /\ stage' = "crashed"
    /\ UNCHANGED <<disk, memory, op, entry, arrived, ready, removing, used, restarts>>

\* RecoveryCheckpointManager.__post_init__ of a new job loads the index.
Restart ==
    /\ stage \in Stopped /\ restarts < MaxRestarts
    /\ restarts' = restarts + 1
    /\ index'     = [r \in Rank |-> indexFile]
    /\ pending'   = [r \in Rank |-> {}]
    /\ finalized' = [r \in Rank |-> {}]
    /\ queue'     = [r \in Rank |-> {}]
    /\ drained'   = [r \in Rank |-> {}]
    /\ stage' = "idle" /\ op' = OpIdle /\ entry' = NoEntry
    /\ arrived' = {} /\ ready' = {} /\ removing' = {}
    /\ used' = {}
    /\ UNCHANGED disk

\* No further job is started.
Done == stage \in Stopped /\ restarts = MaxRestarts /\ UNCHANGED vars

RankStep(r) ==
    BackgroundWrite(r) \/ SyncWrite(r) \/ FinalizeLocal(r) \/ AwaitCapacity(r) \/ Reload(r)

Collective ==
    \/ SyncCommit \/ GatherReady \/ AgreeEntry \/ ScheduleRefused \/ Schedule \/ Enqueue
    \/ RecordEntry \/ RemoveFile \/ RetireDone \/ Published

Next ==
    \/ Poll \/ Wait \/ Close \/ Abort
    \/ \E d \in Dir : SaveAsync(d) \/ Register(d)
    \/ \E r \in Rank : RankStep(r)
    \/ Collective
    \/ RecordFails \/ RemoveFails
    \/ Crash \/ Restart \/ Done

Spec == Init /\ [][Next]_vars

FairSpec ==
    /\ Spec
    /\ \A r \in Rank : WF_vars(RankStep(r))
    /\ WF_vars(Collective)

-----------------------------------------------------------------------------
(* Properties.                                                             *)

TypeOK ==
    /\ shards \in [Dir -> SUBSET Rank] /\ indexFile \subseteq Entry
    /\ index \in [Rank -> SUBSET Entry] /\ pending \in [Rank -> SUBSET Entry]
    /\ finalized \in [Rank -> SUBSET Generation]
    /\ queue \in [Rank -> SUBSET Entry] /\ drained \in [Rank -> SUBSET Entry]
    /\ stage \in Stages /\ op \in Operation /\ entry \in Entry \cup {NoEntry}
    /\ arrived \subseteq Rank /\ ready \subseteq Generation /\ removing \subseteq Dir
    /\ used \subseteq Dir /\ restarts \in Nat

\* Whatever crashes, fails or overtakes, an entry of recovery-index.json
\* names a directory every rank has finished writing and nobody has begun to
\* delete: what a restart restores from is loadable.
IndexedComplete == \A e \in indexFile : Complete(e.dir)

\* The manager implements the abstract store.
Store == INSTANCE CheckpointStore WITH
            committed <- indexFile, Gen <- Generation,
            intact <- {d \in Dir : Complete(d)}
ImplementsStore == Store!Spec

\* Between operations every rank answers committed_last_good from the same
\* index, the one on disk, and holds the same pending saves.
ReplicasAgree ==
    stage = "idle" =>
        \A r \in Rank : index[r] = indexFile /\ pending[r] = pending[Leader]

\* One commit generation never stands for two checkpoints, committed or
\* pending: the index validator and the duplicate-generation refusal of
\* record_recovery_checkpoint never fire.
GenerationsUnique ==
    stage \notin Stopped =>
        \A r \in Rank : \A e, f \in indexFile \cup pending[r] : e.gen = f.gen => e = f

\* A generation a rank has marked finalized is one of its pending entries, so
\* "does not map to exactly one pending entry" is never raised.
MarkedIsPending ==
    stage \notin Stopped \cup {"reload"} =>
        \A r \in Rank : finalized[r] \subseteq Gens(pending[r])

\* max_unfinalized bounds the host-memory snapshots of every rank.
BackpressureBound == \A r \in Rank : Cardinality(queue[r]) =< MaxUnfinalized

\* The index never holds more than keep_recovery_slots recovery entries that
\* may be deleted.
SlotsBound == Cardinality({e \in indexFile : e.dir \in RecoveryDir \ DurableDir}) =< Slots

\* Neither host memory nor the disk fills up, whatever fails between a save and
\* its retirement (max_unfinalized and keep_recovery_slots).
Bounded == BackpressureBound /\ SlotsBound

\* With a FIFO queue asynchronous saves enter the index in the order of their
\* generations, whatever ranks finalize when.
PublishedInOrder ==
    stage = "publish" /\ entry \in pending[Leader] =>
        \A e \in pending[Leader] : entry.gen =< e.gen

\* A job that ends by close without any failure leaves no checkpoint data
\* outside the index: nothing is orphaned and nothing finished is forgotten.
CleanEndLeavesNoOrphan ==
    stage = "ended" /\ restarts = 0 =>
        \A d \in Dir : Occupied(d) => d \in Dirs(indexFile)

\* The requests a backpressure wait finalized are not forgotten: when close
\* has run, a save that every rank's queue reported finished is committed.
DrainedSavesArePublished ==
    stage = "ended" =>
        \A e \in pending[Leader] : \E r \in Rank : e \in queue[r]

\* Every operation returns or the job stops: no rank waits in a collective
\* for ever.
OperationsReturn == stage \notin {"idle"} \cup Stopped ~> stage \in {"idle", "raised"} \cup Stopped
=============================================================================

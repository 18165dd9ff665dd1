--------------------- MODULE RecoveryCheckpointsProofs ---------------------
(***************************************************************************)
(* Proofs about RecoveryCheckpoints for every set of ranks and             *)
(* directories, every number of retention slots, every bound on the queue  *)
(* and every number of restarts: the index names what exists, the manager  *)
(* implements CheckpointStore, neither its queue nor its slots overflow,   *)
(* and a job that ends cleanly leaves nothing behind.                      *)
(***************************************************************************)
EXTENDS RecoveryCheckpoints, TLAPS, FiniteSetTheorems, WellFoundedInduction

-----------------------------------------------------------------------------
(* The inductive invariant, in named parts.  What a job holds in memory    *)
(* matters only while the job runs.                                        *)

\* A removal that fails leaves the ranks with the index of before the record.
\* The job can then only close, which publishes the same entry again when the
\* queue is FIFO.  When it is not, close may publish an older save first, and
\* put a half-removed directory back into the index.
RemovalSafe == InOrder \/ "remove" \notin Faults

Running == stage \notin Stopped

\* The stages of a publication, and the one that is not of a pending save.
Publishing  == stage \in {"publish", "retire", "reload"}
Registering == op.name = "register" /\ op.agreed # NoEntry

\* A save that is scheduled and not yet pending.
Scheduled ==
    /\ op.name = "save" /\ op.agreed # NoEntry
    /\ stage \in {"publish", "retire", "reload", "enqueue"}

\* A removal failed: the ranks hold the index the file was replaced from, and
\* all that is left to the job is to close.
Stale ==
    /\ stage = "raised" \/ (op.name = "close" /\ stage \in {"finalize", "publish"})
    /\ index[Leader] # indexFile

\* Every rank holds the index of the file, except around a replacement.
IndexReplicas ==
    /\ stage # "retire" => index[Leader] = indexFile \/ Stale
    /\ stage # "reload" => \A r \in Rank : index[r] = index[Leader]
    /\ stage = "reload" => \A r \in arrived : index[r] = indexFile

\* The ranks hold the same pending saves, except the one they are forgetting.
PendingReplicas ==
    /\ stage # "reload" => \A r \in Rank : pending[r] = pending[Leader]
    /\ stage = "reload" =>
        \A r \in Rank :
            /\ pending[r] \ {entry} = pending[Leader] \ {entry}
            /\ r \in arrived => entry \notin pending[r]

\* Generations never repeat in the index, the pending saves and the entry in
\* flight; the agreed generation is above all of them.
Numbering ==
    /\ \A e, f \in indexFile \cup pending[Leader] : e.gen = f.gen => e = f
    /\ Publishing => \A e \in indexFile \cup pending[Leader] : e.gen = entry.gen => e = entry
    /\ op.name = "save" /\ op.agreed # NoEntry /\ stage \notin {"idle", "raised"} =>
        \A e \in indexFile \cup pending[Leader] : e.gen < op.agreed.gen

\* Directories never repeat either.
Naming ==
    /\ \A e, f \in indexFile : e.dir = f.dir => e = f
    /\ \A e, f \in pending[Leader] : e.dir = f.dir => e = f
    /\ \A e \in indexFile, f \in pending[Leader] :
        e.dir = f.dir => e = f /\ e = entry /\ (stage \in {"retire", "reload"} \/ Stale)
    /\ stage # "reload" => Dirs(index[Leader]) \cap Dirs(pending[Leader]) = {}
    /\ Dirs(pending[Leader]) \subseteq used

\* Which operations visit which stages.
Control ==
    /\ stage \in {"syncsave", "finalize", "agree"} => op.agreed = NoEntry
    /\ stage \in {"agree", "capacity"} => op.name \in {"save", "register"}
    /\ stage \in {"capacity", "enqueue"} => op.name = "save" /\ op.agreed # NoEntry
    /\ stage = "syncsave" => op.name = "register"
    /\ stage \in {"idle", "raised"} => op.name # "close"
    /\ stage = "agree" => ready = {}
    /\ stage \in {"idle", "syncsave", "agree", "publish", "retire", "enqueue"} => arrived = {}
    /\ Publishing => entry \in Entry
    /\ op.name \in {"save", "register"} => op.dir \in used
    /\ op.name = "register" => op.dir \in SyncDir
    /\ op.agreed # NoEntry => op.agreed \in Entry /\ op.agreed.dir = op.dir

\* The operation has not handed its directory to the index or to pending.
Fresh ==
    /\ op.name \in {"save", "register"} /\ stage \notin {"idle", "raised"}
    /\ Publishing => ~ Registering

\* Until then that directory is not the one of a pending save, and, once the
\* operation found it empty, not the one of a committed entry.
OperationFresh ==
    Fresh =>
        /\ op.dir \notin Dirs(pending[Leader])
        /\ op.name = "register" \/ Scheduled => op.dir \notin Dirs(indexFile)
        /\ op.name = "register" \/ Scheduled => op.dir \notin removing

\* The data of a registered directory is complete before it is published.
RegisteredComplete ==
    Fresh /\ op.name = "register" /\ stage # "syncsave" => Complete(op.dir)

\* What is published is complete, and either registered or pending and marked
\* on every rank that has not forgotten it.
PublicationInv ==
    /\ stage = "publish" => Complete(entry.dir) /\ entry.dir \notin Dirs(index[Leader])
    /\ Publishing /\ Registering =>
        /\ entry = op.agreed /\ entry.dir \notin Dirs(pending[Leader]) /\ ready = {}
        /\ \A r \in Rank : entry \notin pending[r]
    /\ Publishing /\ ~ Registering =>
        /\ entry.gen \in ready
        /\ \A r \in Rank : stage # "reload" \/ r \notin arrived => entry \in pending[r]
    /\ Publishing =>
        \A r \in Rank : IF stage = "reload" /\ r \in arrived
                        THEN ready \ {entry.gen} \subseteq finalized[r]
                        ELSE ready \subseteq finalized[r]

\* Marks are marks of pending saves whose shard the rank has written.
Marks ==
    \A r \in Rank :
        /\ finalized[r] \subseteq Gens(pending[r])
        /\ \A e \in pending[Leader] :
            e.gen \in finalized[r] => r \in shards[e.dir] \/ (stage \in {"retire", "reload"} /\ e = entry)
        /\ stage = "capacity" =>
            \A e \in drained[r] : e \in pending[r] /\ r \in shards[e.dir]
        /\ stage # "capacity" => drained[r] = {}

\* The queue holds pending saves that are not marked, and the scheduled one.
Queued ==
    op.name # "close" /\ stage # "raised" =>
        \A r \in Rank :
            /\ queue[r] \subseteq pending[r] \cup (IF Scheduled THEN {op.agreed} ELSE {})
            /\ Gens(queue[r]) \cap finalized[r] = {}
            /\ drained[r] # {} => queue[r] = {}

\* Nothing but unnamed data is being removed, and nothing at all for a
\* registered checkpoint, which takes no slot.
Retiring ==
    /\ stage # "retire" => removing = {}
    /\ stage = "retire" /\ Registering => removing = {}
    /\ stage = "retire" =>
        /\ removing \cap Dirs(indexFile) = {}
        /\ removing \cap Dirs(pending[Leader] \ {entry}) = {}

\* The file is what the retention makes of the ranks' index and the entry.
Replaced ==
    stage = "retire" \/ Stale =>
        /\ entry \in Entry /\ entry.dir \notin Dirs(index[Leader])
        /\ indexFile = Retained(index[Leader], entry)
        /\ \A e, f \in index[Leader] \cup {entry} : e.gen = f.gen \/ e.dir = f.dir => e = f

\* The entry whose retirement failed is the next one to be published.
Republished ==
    Stale =>
        /\ InOrder
        /\ entry \in pending[Leader] /\ entry \in indexFile
        /\ \A e \in pending[Leader] : entry.gen =< e.gen
        /\ \A r \in Rank : entry.gen \in finalized[r]

\* With a FIFO queue a rank marks its pending saves in the order of their
\* generations; what it has not marked it still holds, unless a refused save
\* dropped everything it held.
Fifo ==
    /\ Scheduled => \A r \in Rank : op.agreed \in queue[r]
    /\ InOrder =>
        \A r \in Rank :
            /\ \A x, e \in pending[r] :
                x.gen \in finalized[r] /\ e.gen \notin finalized[r] => x.gen < e.gen
            /\ queue[r] # {} \/ (op.name # "close" /\ stage # "raised") =>
                \A e \in pending[r] : e.gen \in finalized[r] \/ e \in queue[r] \cup drained[r]

\* The entry being published is the oldest of the ready ones, and no pending
\* save older than a ready one is left out.
Ordered ==
    /\ Publishing /\ ~ Registering => \A g \in ready : entry.gen =< g
    /\ InOrder /\ Publishing =>
        \A g \in ready, r \in Rank : \A e \in pending[r] : e.gen < g => e.gen \in ready

\* So the slots are taken in the order of the generations.
Older ==
    InOrder =>
        \A x \in RecoveryEntries(indexFile \cup index[Leader]), e \in pending[Leader] :
            x.gen < e.gen \/ x = e

JobInv ==
    /\ IndexReplicas /\ PendingReplicas /\ Numbering /\ Naming /\ OperationFresh
    /\ RegisteredComplete /\ PublicationInv /\ Marks /\ Queued /\ Retiring
    /\ Replaced /\ Republished /\ Fifo /\ Ordered /\ Older

Typing == TypeOK /\ Control

\* The part of Numbering and Naming that outlives the job.
IndexKeys == \A e, f \in indexFile : e.gen = f.gen \/ e.dir = f.dir => e = f

\* The retention has nothing left to remove.
IndexSettled == IsFiniteSet(indexFile) /\ Removable(indexFile) = {}

DiskInv == IndexedComplete /\ IndexKeys /\ IndexSettled

IInv == Typing /\ DiskInv /\ (Running => JobInv)

-----------------------------------------------------------------------------
(* Type correctness.                                                       *)

\* A begun operation is well typed.
LEMMA OperationType ==
    ASSUME NEW n \in OpNames, NEW d \in Dir \cup {NoDir}
    PROVE  [name |-> n, dir |-> d, agreed |-> NoEntry] \in Operation
BY DEF Operation

\* What PublishNext decides has the right types.
LEMMA PublishNextTyping ==
    ASSUME TypeOK, NEW gens \in SUBSET Generation, PublishNext(gens)
    PROVE  /\ ready' \subseteq Generation
           /\ stage' \in Stages \ {"syncsave", "finalize", "capacity", "retire", "reload"}
           /\ entry' \in Entry \cup {NoEntry}
           /\ stage' = "agree" =>
                ready' = {} /\ op.name \in {"save", "register"} /\ op.agreed = NoEntry
           /\ stage' = "publish" => entry' \in Entry
           /\ stage' \in {"idle", "raised"} => op.name # "close"
           /\ stage' = "enqueue" => op.name = "save" /\ op.agreed # NoEntry
BY RanksAssumption DEF PublishNext, Continue, TypeOK, Stages

\* The initial state is well typed.
LEMMA InitTyping == Init => Typing
BY OperationType DEF Init, Typing, TypeOK, Control, Publishing, OpIdle, OpNames, Stages, Entry

\* What the retention rule keeps and retires.
LEMMA Retention ==
    ASSUME NEW entries \in SUBSET Entry, NEW e \in Entry
    PROVE  /\ Retained(entries, e) \subseteq entries \cup {e}
           /\ Removable(WithEntry(entries, e)) \subseteq entries \cup {e}
           /\ Removable(WithEntry(entries, e)) \cap Retained(entries, e) = {}
           /\ \A x \in WithEntry(entries, e) : x.dir = e.dir => x = e
BY DEF Retained, Removable, RecoveryEntries, WithEntry

\* Every step keeps the types.
LEMMA NextTyping ==
    ASSUME Typing, [Next]_vars
    PROVE  Typing'
<1> USE DEF Typing, Control, Publishing
<1> DEFINE Begun == \E n \in OpNames, d \in Dir \cup {NoDir}, s \in {"finalize", "syncsave", "raised"} :
        /\ Begin(n, d, s)
        /\ n \in {"save", "register"} => d \in used'
        /\ s \in {"syncsave", "raised"} => n = "register"
        /\ n = "register" => d \in SyncDir
        /\ used' = used \/ (d \in Dir /\ used' = used \cup {d})
<1>1. ASSUME Begun PROVE Typing'
    BY <1>1, OperationType DEF Begin, TypeOK, Stages, disk, memory
<1>2. CASE Poll \/ Wait \/ Close
    <2> Begun  BY <1>2 DEF Poll, Wait, Close, OpNames
    <2> QED    BY <1>1
<1>3. ASSUME NEW d \in Dir, SaveAsync(d) \/ Register(d) PROVE Typing'
    <2> Begun  BY <1>3 DEF SaveAsync, Register, CallerNames, OpNames
    <2> QED    BY <1>1
<1>4. CASE Abort
    BY <1>4 DEF Abort, TypeOK, Stages, disk
<1>5. ASSUME NEW r \in Rank, RankStep(r) PROVE Typing'
    <2>1. CASE BackgroundWrite(r)
        BY <2>1 DEF BackgroundWrite, TypeOK, memory, control, Entry
    <2>2. CASE SyncWrite(r)
        BY <2>2 DEF SyncWrite, TypeOK, memory, control, Entry
    <2>3. CASE FinalizeLocal(r)
        <3>1. PICK s \in SUBSET queue[r] :
                /\ queue' = [queue EXCEPT ![r] = @ \ s]
                /\ \/ /\ finalized' = [finalized EXCEPT ![r] = @ \cup Gens(s)]
                      /\ arrived' = arrived \cup {r} /\ UNCHANGED stage
                   \/ stage' = Raised /\ UNCHANGED <<finalized, arrived>>
            BY <2>3 DEF FinalizeLocal, Finalizable
        <3>2. Gens(s) \subseteq Generation
            BY DEF Gens, TypeOK, Entry
        <3> QED BY <2>3, <3>1, <3>2 DEF FinalizeLocal, TypeOK, Stages, Raised, disk
    <2>4. CASE AwaitCapacity(r)
        BY <2>4 DEF AwaitCapacity, TypeOK, disk
    <2>5. CASE Reload(r)
        BY <2>5 DEF Reload, TypeOK, disk
    <2> QED BY <1>5, <2>1, <2>2, <2>3, <2>4, <2>5 DEF RankStep
<1>6. CASE Collective
    <2>1. CASE SyncCommit
        BY <2>1 DEF SyncCommit, TypeOK, Stages, disk, memory
    <2>2. CASE GatherReady
        <3>1. GloballyReady(finalized) \subseteq Generation
            BY DEF GloballyReady, TypeOK
        <3> QED BY <2>2, <3>1, PublishNextTyping DEF GatherReady, TypeOK, disk, memory
    <2>3. CASE AgreeEntry
        <3>1. PICK g \in Generation : op' = [name |-> op.name, dir |-> op.dir, agreed |-> Proposal(g)]
            BY <2>3 DEF AgreeEntry
        <3>2. op.name \in {"save", "register"} /\ op.dir \in Dir
            BY <2>3 DEF AgreeEntry, TypeOK
        <3>3. Proposal(g) \in Entry /\ Proposal(g) # NoEntry /\ Proposal(g).dir = op.dir
            BY <3>2, DirsAssumption DEF Proposal, Entry, NoEntry
        <3>4. op' \in Operation /\ op'.name = op.name /\ op'.dir = op.dir /\ op'.agreed = Proposal(g)
            BY <3>1, <3>3 DEF TypeOK, Operation
        <3> QED BY <2>3, <3>2, <3>3, <3>4 DEF AgreeEntry, TypeOK, Stages, disk, memory
    <2>4. CASE ScheduleRefused
        BY <2>4 DEF ScheduleRefused, TypeOK, Stages, Raised, disk
    <2>5. CASE Schedule
        <3>1. op.agreed \in Entry
            BY <2>5 DEF Schedule
        <3>2. \A r \in Rank : Gens(drained[r]) \subseteq Generation
            BY DEF Gens, TypeOK, Entry
        <3>3. finalized' \in [Rank -> SUBSET Generation]
            BY <2>5, <3>2 DEF Schedule, MarkDrained, TypeOK
        <3>4. GloballyReady(finalized') \subseteq Generation
            BY <3>3 DEF GloballyReady
        <3> QED BY <2>5, <3>1, <3>3, <3>4, PublishNextTyping DEF Schedule, TypeOK, disk
    <2>6. CASE Enqueue
        BY <2>6 DEF Enqueue, TypeOK, Stages, disk
    <2>7. CASE RecordEntry
        <3>1. entry \in Entry /\ index[Leader] \in SUBSET Entry
            BY <2>7, RanksAssumption DEF RecordEntry, TypeOK
        <3>2. /\ Removable(WithEntry(index[Leader], entry)) \subseteq Entry
              /\ Retained(index[Leader], entry) \subseteq Entry
            <4>1. /\ Removable(WithEntry(index[Leader], entry)) \subseteq index[Leader] \cup {entry}
                  /\ Retained(index[Leader], entry) \subseteq index[Leader] \cup {entry}
                BY <3>1, Retention, Zenon
            <4> QED BY <3>1, <4>1
        <3>3. Dirs(Removable(WithEntry(index[Leader], entry))) \subseteq Dir
            BY <3>2 DEF Dirs, Entry
        <3> QED BY <2>7, <3>1, <3>2, <3>3 DEF RecordEntry, TypeOK, Stages, memory
    <2>8. CASE RemoveFile
        BY <2>8 DEF RemoveFile, TypeOK, memory, control
    <2>9. CASE RetireDone
        BY <2>9 DEF RetireDone, TypeOK, Stages, disk
    <2>10. CASE Published
        <3>1. ready \ {entry.gen} \subseteq Generation
            BY DEF TypeOK
        <3> QED BY <2>10, <3>1, PublishNextTyping DEF Published, TypeOK, disk, memory
    <2> QED BY <1>6, <2>1, <2>2, <2>3, <2>4, <2>5, <2>6, <2>7, <2>8, <2>9, <2>10 DEF Collective
<1>7. CASE RecordFails \/ RemoveFails
    BY <1>7 DEF RecordFails, RemoveFails, TypeOK, Stages, Raised, disk, memory
<1>8. CASE Crash
    BY <1>8 DEF Crash, TypeOK, Stages, disk, memory
<1>9. CASE Restart
    BY <1>9, OperationType DEF Restart, OpIdle, OpNames, TypeOK, Stages, disk
<1>10. CASE UNCHANGED vars
    BY <1>10 DEF vars, disk, memory, control, TypeOK
<1> HIDE DEF Typing
<1> QED BY <1>2, <1>3, <1>4, <1>5, <1>6, <1>7, <1>8, <1>9, <1>10 DEF Next, Done

\* Every variable keeps its type, whatever fails or crashes.
THEOREM TypeCorrect == Spec => []TypeOK
<1>1. Init => Typing                     BY InitTyping
<1>2. Typing /\ [Next]_vars => Typing'  BY NextTyping
<1>3. Typing => TypeOK                   BY DEF Typing
<1> QED BY <1>1, <1>2, <1>3, PTL DEF Spec

-----------------------------------------------------------------------------
(* Safety.  The steps of a running job, grouped by who takes them.         *)

Calls(d)  == Poll \/ Wait \/ Close \/ SaveAsync(d) \/ Register(d)
Writes(r) == BackgroundWrite(r) \/ SyncWrite(r) \/ SyncCommit \/ RemoveFile
Marking(r) == FinalizeLocal(r) \/ AwaitCapacity(r)
Agreeing  == AgreeEntry \/ ScheduleRefused \/ Enqueue \/ RecordFails

JobStep(d, r) ==
    Calls(d) \/ Writes(r) \/ Marking(r) \/ Agreeing
    \/ GatherReady \/ Schedule \/ RecordEntry \/ RetireDone \/ Reload(r) \/ Published
    \/ RemoveFails

\* A job that keeps running takes one of these steps.
LEMMA JobSteps ==
    ASSUME Next, Running'
    PROVE  Restart \/ (Running /\ \E d \in Dir \cup {NoDir}, r \in Rank : JobStep(d, r))
<1>1. ASSUME NEW d \in Dir, SaveAsync(d) \/ Register(d)
      PROVE  Running /\ Calls(d)
    BY <1>1 DEF Calls, SaveAsync, Register, CallerNames, Running, Stopped
<1>2. ASSUME Poll \/ Wait \/ Close PROVE Running /\ Calls(NoDir)
    BY <1>2 DEF Calls, Poll, Wait, Close, Running, Stopped
<1>3. ASSUME NEW r \in Rank, RankStep(r)
      PROVE  Running /\ (Writes(r) \/ Marking(r) \/ Reload(r))
    BY <1>3 DEF RankStep, Writes, Marking, BackgroundWrite, SyncWrite, FinalizeLocal,
                AwaitCapacity, Reload, Running, Stopped
<1>4. ASSUME Collective \/ RecordFails \/ RemoveFails
      PROVE  Running /\ (Writes(Leader) \/ Agreeing \/ GatherReady \/ Schedule
                         \/ RecordEntry \/ RetireDone \/ Published \/ RemoveFails)
    BY <1>4 DEF Collective, Writes, Agreeing, SyncCommit, GatherReady, AgreeEntry,
                ScheduleRefused, Schedule, Enqueue, RecordEntry, RemoveFile, RetireDone,
                Published, RecordFails, RemoveFails, Running, Stopped
<1>5. ~ (Abort \/ Crash \/ Done)
    BY DEF Abort, Crash, Done, Running, Stopped, vars, control
<1> QED
    BY <1>1, <1>2, <1>3, <1>4, <1>5, RanksAssumption DEF Next, JobStep

\* What rank 0 writes, and what it is about to delete.  A repeated publication
\* writes what the file already holds.
LEMMA Recorded ==
    ASSUME Typing, Running, JobInv, RecordEntry
    PROVE  /\ entry \in Entry
           /\ indexFile' \subseteq indexFile \cup {entry}
           /\ removing' \subseteq Dirs(index[Leader] \cup {entry})
           /\ removing' \cap Dirs(indexFile') = {}
           /\ index[Leader] = indexFile \/ (Stale /\ indexFile' = indexFile)
<1> DEFINE old  == index[Leader]
           kept == Retained(old, entry)
           gone == Removable(WithEntry(old, entry))
<1>1. /\ old \in SUBSET Entry /\ entry \in Entry
      /\ indexFile' = kept /\ removing' = Dirs(gone)
    BY RanksAssumption DEF Typing, TypeOK, Control, Publishing, RecordEntry
<1>2. old = indexFile \/ (Stale /\ indexFile = kept)
    BY DEF JobInv, IndexReplicas, Replaced, RecordEntry
<1>3. \A e, f \in old : e.dir = f.dir => e = f
    BY <1>2 DEF JobInv, Naming, Replaced
<1> HIDE DEF kept, gone, old
<1>4. /\ kept \subseteq old \cup {entry} /\ gone \subseteq old \cup {entry}
      /\ gone \cap kept = {}
      /\ \A x \in WithEntry(old, entry) : x.dir = entry.dir => x = entry
    BY <1>1, Retention, Zenon DEF kept, gone
<1>5. kept \subseteq WithEntry(old, entry) /\ gone \subseteq WithEntry(old, entry)
    BY DEF kept, gone, Retained, Removable, RecoveryEntries
<1>6. \A e, f \in WithEntry(old, entry) : e.dir = f.dir => e = f
    BY <1>3, <1>4 DEF WithEntry
<1>7. removing' \cap Dirs(indexFile') = {}
    BY <1>1, <1>4, <1>5, <1>6 DEF Dirs
<1>8. removing' \subseteq Dirs(old \cup {entry})
    BY <1>1, <1>4 DEF Dirs
<1>9. /\ indexFile' \subseteq indexFile \cup {entry}
      /\ old = indexFile \/ (Stale /\ indexFile' = indexFile)
    BY <1>1, <1>2, <1>4
<1> QED BY <1>1, <1>7, <1>8, <1>9 DEF old

\* An entry that takes no slot gives the retention nothing to remove.
LEMMA RegisteredRetiresNothing ==
    ASSUME NEW entries \in SUBSET Entry, NEW e \in Entry, Removable(entries) = {},
           e.dir \notin RecoveryDir, e.dir \notin Dirs(entries)
    PROVE  Removable(WithEntry(entries, e)) = {}
<1>1. RecoveryEntries(WithEntry(entries, e)) = RecoveryEntries(entries)
    BY DEF RecoveryEntries, WithEntry, Dirs
<1> QED BY <1>1 DEF Removable

\* When a removal fails, the entry just recorded is the oldest pending save,
\* every rank has marked it, and it is in the file.
LEMMA FailedRemoval ==
    ASSUME Typing, Running, JobInv, RemovalSafe, RemoveFails
    PROVE  /\ InOrder /\ ~ Registering
           /\ entry \in pending[Leader] /\ entry \in indexFile
           /\ \A e \in pending[Leader] : entry.gen =< e.gen
           /\ \A r \in Rank : entry.gen \in finalized[r]
<1>1. InOrder /\ ~ Registering /\ stage = "retire"
    BY DEF RemoveFails, RemovalSafe, JobInv, Retiring
<1>2. /\ entry \in pending[Leader] /\ entry.gen \in ready
      /\ \A r \in Rank : entry.gen \in finalized[r]
    BY <1>1, RanksAssumption DEF JobInv, PublicationInv, Publishing
<1>3. pending[Leader] \subseteq Entry /\ \A e \in Entry : e.gen \in Nat
    BY RanksAssumption DEF Typing, TypeOK, Entry, Generation
<1>4. \A e \in pending[Leader] : entry.gen =< e.gen
    BY <1>1, <1>2, <1>3, RanksAssumption DEF JobInv, Ordered, Publishing
<1> DEFINE all == WithEntry(index[Leader], entry)
<1>5. {x \in RecoveryEntries(all) : x.gen > entry.gen} = {}
    <2>1. \A x \in RecoveryEntries(all) : x = entry \/ x \in RecoveryEntries(indexFile \cup index[Leader])
        BY DEF RecoveryEntries, WithEntry
    <2>2. \A x \in RecoveryEntries(all) : x = entry \/ x.gen < entry.gen
        BY <1>1, <1>2, <2>1 DEF JobInv, Older
    <2>3. \A x \in RecoveryEntries(all) : x.gen \in Nat
        BY <1>2, <1>3, RanksAssumption DEF RecoveryEntries, WithEntry, Typing, TypeOK
    <2> QED BY <1>2, <1>3, <2>2, <2>3
<1>6. Cardinality({}) = 0
    BY FS_EmptySet
<1>7. entry \notin Removable(all)
    BY <1>5, <1>6, BoundsAssumption DEF Removable
<1>8. entry \in indexFile
    BY <1>1, <1>7 DEF JobInv, Replaced, Retained, WithEntry
<1> QED BY <1>1, <1>2, <1>4, <1>8

\* With a stale index a job only closes: until it has repeated the record its
\* index, the file, the entry and the pending saves stay as they are.
LEMMA StaleStep ==
    ASSUME Typing, Running, Running', JobInv,
           NEW d \in Dir \cup {NoDir}, NEW r \in Rank, JobStep(d, r)
    PROVE  /\ Stale => /\ Stale' \/ (stage = "publish" /\ stage' = "retire")
                       /\ UNCHANGED <<index, pending, entry, indexFile>>
           /\ Stale' => Stale \/ RemoveFails
<1> USE RanksAssumption DEF Typing, TypeOK, JobInv, Running, Stopped, Control, Stale,
        disk, memory, control
<1>1. CASE Calls(d)
    BY <1>1 DEF Calls, Poll, Wait, Close, SaveAsync, Register, CallerNames, Begin,
        IndexReplicas
<1>2. CASE Writes(r)
    BY <1>2 DEF Writes, BackgroundWrite, SyncWrite, SyncCommit, RemoveFile, IndexReplicas
<1>3. CASE Marking(r)
    BY <1>3 DEF Marking, FinalizeLocal, AwaitCapacity, Raised, IndexReplicas
<1>4. CASE Agreeing
    BY <1>4 DEF Agreeing, AgreeEntry, ScheduleRefused, Enqueue, RecordFails, Raised, IndexReplicas
<1>5. CASE GatherReady
    <2>1. CASE Stale
        <3>1. /\ entry \in pending[Leader]
              /\ \A e \in pending[Leader] : entry.gen =< e.gen
              /\ \A q \in Rank : entry.gen \in finalized[q]
            BY <2>1 DEF Republished
        <3>2. entry.gen \in GloballyReady(finalized)
            BY <3>1 DEF GloballyReady
        <3>3. PICK e \in pending[Leader] :
                /\ e.gen \in GloballyReady(finalized)
                /\ \A g \in GloballyReady(finalized) : e.gen =< g
                /\ stage' = "publish" /\ entry' = e
            BY <1>5, <3>2 DEF GatherReady, PublishNext
        <3>4. e.gen \in Nat /\ entry.gen \in Nat
            BY <3>1 DEF Entry, Generation
        <3>5. e.gen = entry.gen
            BY <3>1, <3>2, <3>3, <3>4
        <3>6. e = entry
            BY <3>1, <3>5 DEF Numbering
        <3> QED BY <1>5, <2>1, <3>3, <3>6 DEF GatherReady
    <2>2. CASE ~ Stale
        BY <1>5, <2>2 DEF GatherReady, PublishNext, Continue, IndexReplicas
    <2> QED BY <2>1, <2>2
<1>6. CASE Schedule
    BY <1>6 DEF Schedule, IndexReplicas
<1>7. CASE RecordEntry
    <2>1. index[Leader] = indexFile \/ (Stale /\ indexFile' = indexFile)
        BY <1>7, Recorded
    <2> QED BY <1>7, <2>1 DEF RecordEntry
<1>8. CASE RetireDone
    BY <1>8 DEF RetireDone
<1>9. CASE Reload(r)
    BY <1>9 DEF Reload
<1>10. CASE Published
    BY <1>10 DEF Published, PublishNext, Continue, IndexReplicas
<1>11. CASE RemoveFails
    BY <1>11 DEF RemoveFails, Raised
<1> QED BY <1>1, <1>2, <1>3, <1>4, <1>5, <1>6, <1>7, <1>8, <1>9, <1>10, <1>11 DEF JobStep

\* Only a publication changes the index file, and every rank reloads it before
\* the operation goes on.
LEMMA IndexReplicasKept ==
    ASSUME Typing, Typing', DiskInv, RemovalSafe, Running, Running', JobInv,
           NEW d \in Dir \cup {NoDir}, NEW r \in Rank, JobStep(d, r)
    PROVE  IndexReplicas'
<1>0. /\ Stale => /\ Stale' \/ (stage = "publish" /\ stage' = "retire")
                  /\ UNCHANGED <<index, pending, entry, indexFile>>
      /\ Stale => stage \in {"raised", "finalize", "publish"}
    BY StaleStep DEF Stale
<1> USE <1>0
<1> USE RanksAssumption, DirsAssumption DEF Typing, TypeOK, JobInv,
        Running, Stopped, Publishing, Control, disk, memory, control, IndexReplicas
<1>1. CASE Calls(d)
    BY <1>1 DEF Calls, Poll, Wait, Close, SaveAsync, Register, CallerNames, Begin,
        Occupied
<1>2. CASE Writes(r)
    BY <1>2 DEF Writes, BackgroundWrite, SyncWrite, SyncCommit, RemoveFile
<1>3. CASE Marking(r)
    BY <1>3 DEF Marking, FinalizeLocal, AwaitCapacity, Finalizable, Raised
<1>4. CASE Agreeing
    BY <1>4 DEF Agreeing, AgreeEntry, ScheduleRefused, Enqueue, RecordFails, Raised
<1>5. CASE GatherReady
    BY <1>5 DEF GatherReady, PublishNext, Continue, GloballyReady
<1>6. CASE Schedule
    BY <1>6 DEF Schedule, PublishNext, Continue, GloballyReady, MarkDrained,
        Occupied
<1>7. CASE RecordEntry
    BY <1>7 DEF RecordEntry
<1>8. CASE RetireDone
    BY <1>8 DEF RetireDone
<1>9. CASE Reload(r)
    BY <1>9 DEF Reload
<1>10. CASE Published
    BY <1>10 DEF Published, PublishNext, Continue
<1>11. CASE RemoveFails
    BY <1>11 DEF RemoveFails, Raised, Stale
<1> QED BY <1>1, <1>2, <1>3, <1>4, <1>5, <1>6, <1>7, <1>8, <1>9, <1>10, <1>11 DEF JobStep

\* Two sets that only differ in what neither of them holds are the same.
LEMMA SameWithout ==
    ASSUME NEW A, NEW B, NEW x, A \ {x} = B \ {x}, x \notin A, x \notin B
    PROVE  A = B
<1>1. A = A \ {x}
    OBVIOUS
<1>2. B = B \ {x}
    OBVIOUS
<1> QED BY <1>1, <1>2, Zenon

\* The ranks add and forget pending saves in the same collectives.
LEMMA PendingReplicasKept ==
    ASSUME Typing, Typing', DiskInv, RemovalSafe, Running, Running', JobInv,
           NEW d \in Dir \cup {NoDir}, NEW r \in Rank, JobStep(d, r)
    PROVE  PendingReplicas'
<1> USE RanksAssumption, DirsAssumption DEF Typing, TypeOK, JobInv,
        Running, Stopped, Publishing, Control, disk, memory, control, Registering,
        PendingReplicas, PublicationInv
<1>1. CASE Calls(d)
    BY <1>1 DEF Calls, Poll, Wait, Close, SaveAsync, Register, CallerNames, Begin,
        Occupied
<1>2. CASE Writes(r)
    BY <1>2 DEF Writes, BackgroundWrite, SyncWrite, SyncCommit, RemoveFile
<1>3. CASE Marking(r)
    BY <1>3 DEF Marking, FinalizeLocal, AwaitCapacity, Finalizable, Raised
<1>4. CASE Agreeing
    <2>1. CASE AgreeEntry \/ ScheduleRefused \/ RecordFails
        BY <2>1 DEF AgreeEntry, ScheduleRefused, RecordFails, Raised
    <2>2. CASE Enqueue
        BY <2>2 DEF Enqueue
    <2> QED BY <1>4, <2>1, <2>2 DEF Agreeing
<1>5. CASE GatherReady
    BY <1>5 DEF GatherReady, PublishNext, Continue, GloballyReady
<1>6. CASE Schedule
    BY <1>6 DEF Schedule, PublishNext, Continue, GloballyReady, MarkDrained,
        Occupied
<1>7. CASE RecordEntry
    BY <1>7 DEF RecordEntry
<1>8. CASE RetireDone
    BY <1>8 DEF RetireDone
<1>9. CASE Reload(r)
    BY <1>9 DEF Reload
<1>10. CASE Published
    <2>1. pending' = pending /\ stage' # "reload"
        BY <1>10 DEF Published, PublishNext, Continue
    <2>2. \A q \in Rank : pending[q] \ {entry} = pending[Leader] \ {entry} /\ entry \notin pending[q]
        BY <1>10 DEF Published
    <2>3. Leader \in Rank
        OBVIOUS
    <2>4. ASSUME NEW q \in Rank PROVE pending[q] = pending[Leader]
        <3>1. /\ pending[q] \ {entry} = pending[Leader] \ {entry}
              /\ entry \notin pending[q] /\ entry \notin pending[Leader]
            BY <2>2, <2>3, Zenon
        <3> QED BY <3>1, SameWithout, Zenon
    <2> QED BY <2>1, <2>4, Zenon
<1>11. CASE RemoveFails
    BY <1>11 DEF RemoveFails, Raised
<1> QED BY <1>1, <1>2, <1>3, <1>4, <1>5, <1>6, <1>7, <1>8, <1>9, <1>10, <1>11 DEF JobStep

\* Rank 0 numbers an entry above everything committed or pending, and only
\* that entry or a pending one enters the index.
LEMMA NumberingKept ==
    ASSUME Typing, Typing', DiskInv, RemovalSafe, Running, Running', JobInv,
           NEW d \in Dir \cup {NoDir}, NEW r \in Rank, JobStep(d, r)
    PROVE  Numbering'
<1> USE RanksAssumption, DirsAssumption DEF Typing, TypeOK, JobInv,
        Running, Stopped, Publishing, Control, disk, memory, control, Registering,
        Numbering, PublicationInv
<1>1. CASE Calls(d)
    BY <1>1 DEF Calls, Poll, Wait, Close, SaveAsync, Register, CallerNames, Begin,
        Occupied
<1>2. CASE Writes(r)
    BY <1>2 DEF Writes, BackgroundWrite, SyncWrite, SyncCommit, RemoveFile
<1>3. CASE Marking(r)
    BY <1>3 DEF Marking, FinalizeLocal, AwaitCapacity, Finalizable, Raised
<1>4. CASE Agreeing
    <2>1. CASE ScheduleRefused \/ RecordFails
        BY <2>1 DEF ScheduleRefused, RecordFails, Raised
    <2>2. CASE Enqueue
        <3>1. pending'[Leader] = pending[Leader] \cup {op.agreed} /\ stage' = "idle" /\ indexFile' = indexFile
            BY <2>2 DEF Enqueue
        <3>2. \A e \in indexFile \cup pending[Leader] : e.gen < op.agreed.gen /\ e.gen \in Nat
            BY <2>2 DEF Enqueue, Entry, Generation
        <3> QED BY <3>1, <3>2
    <2>3. CASE AgreeEntry
        <3>1. PICK g \in Generation :
                /\ IsNextGeneration(g, Known(Leader))
                /\ op' = [name |-> op.name, dir |-> op.dir, agreed |-> Proposal(g)]
            BY <2>3 DEF AgreeEntry
        <3>2. op'.agreed.gen = g /\ op'.name = op.name
            BY <3>1 DEF Proposal
        <3>3. \A e \in indexFile \cup pending[Leader] : e.gen < g /\ e.gen \in Nat
            <4>1. index[Leader] = indexFile
                BY <2>3 DEF AgreeEntry, IndexReplicas, Stale
            <4> QED BY <3>1, <4>1 DEF IsNextGeneration, Known, Entry, Generation
        <3> QED BY <2>3, <3>2, <3>3 DEF AgreeEntry, Generation
    <2> QED BY <1>4, <2>1, <2>2, <2>3 DEF Agreeing
<1>5. CASE GatherReady
    BY <1>5 DEF GatherReady, PublishNext, Continue, GloballyReady
<1>6. CASE Schedule
    BY <1>6 DEF Schedule, PublishNext, Continue, GloballyReady, MarkDrained,
        Occupied
<1>7. CASE RecordEntry
    <2>1. indexFile' \subseteq indexFile \cup {entry}
        BY <1>7, Recorded
    <2>2. ~ Registering => entry \in pending[Leader]
        BY <1>7 DEF RecordEntry
    <2> QED BY <1>7, <2>1, <2>2 DEF RecordEntry
<1>8. CASE RetireDone
    BY <1>8 DEF RetireDone
<1>9. CASE Reload(r)
    BY <1>9 DEF Reload
<1>10. CASE Published
    BY <1>10 DEF Published, PublishNext, Continue
<1>11. CASE RemoveFails
    BY <1>11 DEF RemoveFails, Raised
<1> QED BY <1>1, <1>2, <1>3, <1>4, <1>5, <1>6, <1>7, <1>8, <1>9, <1>10, <1>11 DEF JobStep

\* A directory enters pending or the index once: the caller names it once in a
\* job and the save refuses one that holds data.
LEMMA NamingKept ==
    ASSUME Typing, Typing', DiskInv, RemovalSafe, Running, Running', JobInv,
           NEW d \in Dir \cup {NoDir}, NEW r \in Rank, JobStep(d, r)
    PROVE  Naming'
<1>1. /\ Naming
      /\ stage \notin {"retire", "reload"} /\ ~ Stale =>
            \A e \in indexFile, f \in pending[Leader] : e.dir # f.dir
    BY DEF JobInv, Naming
<1>2. /\ Stale => /\ Stale' \/ (stage = "publish" /\ stage' = "retire")
                  /\ UNCHANGED <<index, pending, entry, indexFile>>
      /\ Stale => stage \in {"raised", "finalize", "publish"}
      /\ stage \notin {"retire", "reload"} /\ ~ Stale => index[Leader] = indexFile
    BY StaleStep DEF Stale, JobInv, IndexReplicas
<1>3. ASSUME UNCHANGED <<index, indexFile, pending>>, used \subseteq used',
             stage \in {"retire", "reload"} => UNCHANGED <<stage, entry>>
      PROVE  Naming'
    BY <1>1, <1>2, <1>3 DEF Naming
<1>4. CASE Calls(d)
    BY <1>3, <1>4 DEF Calls, Poll, Wait, Close, SaveAsync, Register, CallerNames, Begin,
        disk, memory
<1>5. CASE Writes(r)
    BY <1>3, <1>5 DEF Writes, BackgroundWrite, SyncWrite, SyncCommit, RemoveFile,
        disk, memory, control
<1>6. CASE Marking(r) \/ GatherReady \/ Schedule
    BY <1>3, <1>6 DEF Marking, FinalizeLocal, AwaitCapacity, GatherReady, Schedule, disk, memory
<1>7. CASE AgreeEntry \/ ScheduleRefused \/ RecordFails
    BY <1>3, <1>7 DEF AgreeEntry, ScheduleRefused, RecordFails, disk, memory
<1>8. CASE Enqueue
    <2>1. /\ pending'[Leader] = pending[Leader] \cup {op.agreed}
          /\ UNCHANGED <<index, indexFile, used>> /\ stage = "enqueue" /\ stage' = "idle"
        BY <1>8, RanksAssumption DEF Enqueue, disk
    <2>2. /\ op.agreed.dir \notin Dirs(pending[Leader]) /\ op.agreed.dir \notin Dirs(indexFile)
          /\ op.agreed.dir \in used
        BY <1>8 DEF Enqueue, JobInv, OperationFresh, Fresh, Scheduled, Publishing, Typing, Control
    <2> QED BY <1>1, <1>2, <2>1, <2>2 DEF Naming, Dirs
<1>9. CASE RecordEntry
    <2>1. /\ indexFile' \subseteq indexFile \cup {entry}
          /\ index[Leader] = indexFile \/ (Stale /\ indexFile' = indexFile)
        BY <1>9, Recorded
    <2>2. /\ Registering => entry.dir \notin Dirs(pending[Leader])
          /\ ~ Registering => entry \in pending[Leader]
          /\ entry.dir \notin Dirs(index[Leader])
        BY <1>9, RanksAssumption DEF RecordEntry, JobInv, PublicationInv, Publishing
    <2>3. /\ UNCHANGED <<index, pending, used, entry>>
          /\ stage = "publish" /\ stage' = "retire"
        BY <1>9 DEF RecordEntry, memory
    <2>4. CASE Stale /\ indexFile' = indexFile
        BY <1>1, <2>3, <2>4 DEF Naming
    <2>5. CASE index[Leader] = indexFile
        BY <1>1, <2>1, <2>2, <2>3, <2>5 DEF Naming, Dirs
    <2> QED BY <2>1, <2>4, <2>5
<1>10. CASE RetireDone
    <2>1. /\ UNCHANGED <<indexFile, pending, used, entry>>
          /\ stage = "retire" /\ stage' = "reload"
        BY <1>10 DEF RetireDone, disk
    <2> QED BY <1>1, <2>1 DEF Naming
<1>11. CASE Reload(r)
    <2>1. /\ UNCHANGED <<indexFile, used, entry, stage>> /\ stage = "reload"
          /\ pending'[Leader] \subseteq pending[Leader]
        BY <1>11, RanksAssumption DEF Reload, disk, Typing, TypeOK
    <2> QED BY <1>1, <2>1 DEF Naming, Dirs
<1>12. CASE Published
    <2>1. /\ UNCHANGED <<index, indexFile, pending, used>> /\ stage = "reload"
          /\ entry \notin pending[Leader] /\ index[Leader] = indexFile
        BY <1>12, RanksAssumption DEF Published, disk, memory, JobInv, PendingReplicas, IndexReplicas
    <2>2. \A e \in indexFile, f \in pending[Leader] : e.dir # f.dir
        BY <1>1, <2>1 DEF Naming
    <2> QED BY <1>1, <2>1, <2>2 DEF Naming, Dirs
<1>13. CASE RemoveFails
    <2>1. /\ UNCHANGED <<index, indexFile, pending, used, entry>>
          /\ stage = "retire" /\ stage' = "raised"
        BY <1>13 DEF RemoveFails, Raised, disk, memory, Running, Stopped
    <2>2. Stale' \/ index[Leader] = indexFile
        BY <2>1 DEF Stale
    <2> QED BY <1>1, <2>1, <2>2 DEF Naming, Dirs
<1> QED BY <1>4, <1>5, <1>6, <1>7, <1>8, <1>9, <1>10, <1>11, <1>12, <1>13
        DEF JobStep, Agreeing

\* Publishing older saves does not touch the directory of the current operation.
LEMMA OperationFreshKept ==
    ASSUME Typing, Typing', DiskInv, RemovalSafe, Running, Running', JobInv,
           NEW d \in Dir \cup {NoDir}, NEW r \in Rank, JobStep(d, r)
    PROVE  OperationFresh'
<1> USE RanksAssumption, DirsAssumption DEF Typing, TypeOK, JobInv,
        Running, Stopped, Publishing, Control, disk, memory, control, Registering,
        Scheduled, Fresh, Dirs, OperationFresh, Retiring, PublicationInv
<1>1. CASE Calls(d)
    BY <1>1, RanksAssumption DEF Calls, Poll, Wait, Close, SaveAsync, Register,
        CallerNames, Begin, Occupied, Naming, Dirs, DiskInv, IndexedComplete, Complete
<1>2. CASE Writes(r)
    BY <1>2 DEF Writes, BackgroundWrite, SyncWrite, SyncCommit, RemoveFile
<1>3. CASE Marking(r)
    BY <1>3 DEF Marking, FinalizeLocal, AwaitCapacity, Finalizable, Raised
<1>4. CASE Agreeing
    BY <1>4 DEF Agreeing, AgreeEntry, ScheduleRefused, Enqueue, RecordFails, Raised
<1>5. CASE GatherReady
    BY <1>5 DEF GatherReady, PublishNext, Continue, GloballyReady
<1>6. CASE Schedule
    BY <1>6 DEF Schedule, PublishNext, Continue, GloballyReady, MarkDrained,
        Occupied, DiskInv, IndexedComplete, Complete
<1>7. CASE RecordEntry
    <2>1. /\ indexFile' \subseteq indexFile \cup {entry}
          /\ removing' \subseteq Dirs(index[Leader] \cup {entry})
          /\ op.name # "close" => index[Leader] = indexFile
        <3> HIDE DEF Dirs
        <3> QED BY <1>7, Recorded DEF Stale, RecordEntry
    <2>2. ~ Registering => entry \in pending[Leader]
        BY <1>7 DEF RecordEntry
    <2> QED BY <1>7, <2>1, <2>2, SMTT(30) DEF RecordEntry
<1>8. CASE RetireDone
    BY <1>8 DEF RetireDone
<1>9. CASE Reload(r)
    BY <1>9 DEF Reload
<1>10. CASE Published
    BY <1>10 DEF Published, PublishNext, Continue
<1>11. CASE RemoveFails
    BY <1>11 DEF RemoveFails, Raised
<1> QED BY <1>1, <1>2, <1>3, <1>4, <1>5, <1>6, <1>7, <1>8, <1>9, <1>10, <1>11 DEF JobStep

\* Nothing removes the data of a directory being registered.
LEMMA RegisteredCompleteKept ==
    ASSUME Typing, Typing', DiskInv, RemovalSafe, Running, Running', JobInv,
           NEW d \in Dir \cup {NoDir}, NEW r \in Rank, JobStep(d, r)
    PROVE  RegisteredComplete'
<1> USE RanksAssumption, DirsAssumption DEF Typing, TypeOK, JobInv,
        Running, Stopped, Publishing, Control, disk, memory, control, Registering,
        Fresh, Scheduled, Complete, Dirs, RegisteredComplete, OperationFresh,
        PublicationInv
<1>1. CASE Calls(d)
    BY <1>1 DEF Calls, Poll, Wait, Close, SaveAsync, Register, CallerNames, Begin,
        Occupied
<1>2. CASE Writes(r)
    BY <1>2 DEF Writes, BackgroundWrite, SyncWrite, SyncCommit, RemoveFile
<1>3. CASE Marking(r)
    BY <1>3 DEF Marking, FinalizeLocal, AwaitCapacity, Finalizable, Raised
<1>4. CASE Agreeing
    BY <1>4 DEF Agreeing, AgreeEntry, ScheduleRefused, Enqueue, RecordFails, Raised
<1>5. CASE GatherReady
    BY <1>5 DEF GatherReady, PublishNext, Continue, GloballyReady
<1>6. CASE Schedule
    BY <1>6 DEF Schedule, PublishNext, Continue, GloballyReady, MarkDrained,
        Occupied
<1>7. CASE RecordEntry
    BY <1>7 DEF RecordEntry
<1>8. CASE RetireDone
    BY <1>8 DEF RetireDone
<1>9. CASE Reload(r)
    BY <1>9 DEF Reload
<1>10. CASE Published
    BY <1>10 DEF Published, PublishNext, Continue
<1>11. CASE RemoveFails
    BY <1>11 DEF RemoveFails, Raised
<1> QED BY <1>1, <1>2, <1>3, <1>4, <1>5, <1>6, <1>7, <1>8, <1>9, <1>10, <1>11 DEF JobStep

\* The index gains complete directories and loses data of none it names.
LEMMA IndexedCompleteKept ==
    ASSUME Typing, Typing', DiskInv, RemovalSafe, Running, Running', JobInv,
           NEW d \in Dir \cup {NoDir}, NEW r \in Rank, JobStep(d, r)
    PROVE  IndexedComplete'
<1> USE RanksAssumption, DirsAssumption DEF Typing, TypeOK, JobInv,
        Running, Stopped, Publishing, Control, disk, memory, control, Complete, Dirs,
        DiskInv, IndexedComplete
<1>1. CASE Calls(d)
    BY <1>1 DEF Calls, Poll, Wait, Close, SaveAsync, Register, CallerNames, Begin,
        Occupied
<1>2. CASE Writes(r)
    <2>1. CASE BackgroundWrite(r) \/ SyncWrite(r) \/ SyncCommit
        BY <2>1 DEF BackgroundWrite, SyncWrite, SyncCommit, Entry
    <2>2. CASE RemoveFile
        BY <2>2 DEF RemoveFile, Retiring
    <2> QED BY <1>2, <2>1, <2>2 DEF Writes
<1>3. CASE Marking(r)
    BY <1>3 DEF Marking, FinalizeLocal, AwaitCapacity, Finalizable, Raised
<1>4. CASE Agreeing
    BY <1>4 DEF Agreeing, AgreeEntry, ScheduleRefused, Enqueue, RecordFails, Raised
<1>5. CASE GatherReady
    BY <1>5 DEF GatherReady, PublishNext, Continue, GloballyReady
<1>6. CASE Schedule
    BY <1>6 DEF Schedule, PublishNext, Continue, GloballyReady, MarkDrained,
        Occupied
<1>7. CASE RecordEntry
    <2>1. indexFile' \subseteq indexFile \cup {entry}
        BY <1>7, Recorded
    <2> QED BY <1>7, <2>1 DEF RecordEntry, PublicationInv
<1>8. CASE RetireDone
    BY <1>8 DEF RetireDone
<1>9. CASE Reload(r)
    BY <1>9 DEF Reload
<1>10. CASE Published
    BY <1>10 DEF Published, PublishNext, Continue
<1>11. CASE RemoveFails
    BY <1>11 DEF RemoveFails, Raised
<1> QED BY <1>1, <1>2, <1>3, <1>4, <1>5, <1>6, <1>7, <1>8, <1>9, <1>10, <1>11 DEF JobStep

\* The directories retired are those that just left the index.
LEMMA RetiringKept ==
    ASSUME Typing, Typing', DiskInv, RemovalSafe, Running, Running', JobInv,
           NEW d \in Dir \cup {NoDir}, NEW r \in Rank, JobStep(d, r)
    PROVE  Retiring'
<1> USE RanksAssumption, DirsAssumption DEF Typing, TypeOK, JobInv,
        Running, Stopped, Publishing, Control, disk, memory, control, Dirs, Registering,
        Retiring
<1>1. CASE Calls(d)
    BY <1>1 DEF Calls, Poll, Wait, Close, SaveAsync, Register, CallerNames, Begin,
        Occupied
<1>2. CASE Writes(r)
    BY <1>2 DEF Writes, BackgroundWrite, SyncWrite, SyncCommit, RemoveFile
<1>3. CASE Marking(r)
    BY <1>3 DEF Marking, FinalizeLocal, AwaitCapacity, Finalizable, Raised
<1>4. CASE Agreeing
    BY <1>4 DEF Agreeing, AgreeEntry, ScheduleRefused, Enqueue, RecordFails, Raised
<1>5. CASE GatherReady
    BY <1>5 DEF GatherReady, PublishNext, Continue, GloballyReady
<1>6. CASE Schedule
    BY <1>6 DEF Schedule, PublishNext, Continue, GloballyReady, MarkDrained,
        Occupied
<1>7. CASE RecordEntry
    <2>1. /\ removing' \subseteq Dirs(index[Leader] \cup {entry})
          /\ removing' \cap Dirs(indexFile') = {}
        <3> HIDE DEF Dirs
        <3> QED BY <1>7, Recorded
    <2>2. \A e \in index[Leader], f \in pending[Leader] : e.dir # f.dir
        BY <1>7 DEF RecordEntry, Naming
    <2>3. \A f \in pending[Leader] \ {entry} : f.dir # entry.dir
        BY <1>7 DEF RecordEntry, Naming, PublicationInv
    <2>4. Dirs(index[Leader] \cup {entry}) \cap Dirs(pending[Leader] \ {entry}) = {}
        BY <2>2, <2>3
    <2>5. UNCHANGED <<pending, entry, op>> /\ stage = "publish" /\ stage' = "retire"
        BY <1>7 DEF RecordEntry
    <2>6. ASSUME Registering PROVE removing' = {}
        <3>1. /\ index[Leader] = indexFile /\ indexFile \in SUBSET Entry
              /\ Removable(indexFile) = {}
            BY <1>7, <2>5, <2>6 DEF IndexReplicas, Stale, DiskInv, IndexSettled
        <3>2. entry \in Entry /\ entry.dir \notin RecoveryDir /\ entry.dir \notin Dirs(indexFile)
            BY <2>5, <2>6, <3>1 DEF PublicationInv
        <3>3. removing' = Dirs(Removable(WithEntry(indexFile, entry)))
            BY <1>7, <3>1 DEF RecordEntry
        <3> HIDE DEF Dirs, TypeOK
        <3>4. Removable(WithEntry(indexFile, entry)) = {}
            BY <3>1, <3>2, RegisteredRetiresNothing
        <3> QED BY <3>3, <3>4 DEF Dirs
    <2> HIDE DEF Dirs
    <2> QED BY <2>1, <2>4, <2>5, <2>6
<1>8. CASE RetireDone
    BY <1>8 DEF RetireDone
<1>9. CASE Reload(r)
    BY <1>9 DEF Reload
<1>10. CASE Published
    BY <1>10 DEF Published, PublishNext, Continue
<1>11. CASE RemoveFails
    BY <1>11 DEF RemoveFails, Raised
<1> QED BY <1>1, <1>2, <1>3, <1>4, <1>5, <1>6, <1>7, <1>8, <1>9, <1>10, <1>11 DEF JobStep

\* A rank marks a save only after its own part is written, and only the
\* publication that retires a save removes its parts.
LEMMA MarksKept ==
    ASSUME Typing, Typing', DiskInv, RemovalSafe, Running, Running', JobInv,
           NEW d \in Dir \cup {NoDir}, NEW r \in Rank, JobStep(d, r)
    PROVE  Marks'
<1> USE RanksAssumption, DirsAssumption DEF Typing, TypeOK, JobInv,
        Running, Stopped, Publishing, Control, disk, memory, control, Registering,
        Scheduled, Gens, Marks
<1>1. CASE Calls(d)
    BY <1>1 DEF Calls, Poll, Wait, Close, SaveAsync, Register, CallerNames, Begin,
        Occupied
<1>2. CASE Writes(r)
    <2>1. CASE BackgroundWrite(r) \/ SyncWrite(r) \/ SyncCommit
        BY <2>1 DEF BackgroundWrite, SyncWrite, SyncCommit, Entry
    <2>2. CASE RemoveFile
        <3>1. \A q \in Rank, e \in pending[Leader] \ {entry} : q \in shards[e.dir] => q \in shards'[e.dir]
            BY <2>2 DEF RemoveFile, Retiring, Dirs
        <3> QED BY <2>2, <3>1 DEF RemoveFile
    <2> QED BY <1>2, <2>1, <2>2 DEF Writes
<1>3. CASE Marking(r)
    <2>1. CASE AwaitCapacity(r)
        BY <2>1 DEF AwaitCapacity, Queued
    <2>2. CASE FinalizeLocal(r)
        <3> DEFINE Marked(s) ==
                /\ s \subseteq pending[r]
                /\ finalized' = [finalized EXCEPT ![r] = finalized[r] \cup Gens(s)]
                /\ stage' = stage
        <3>1. PICK s \in Finalizable(r) : Marked(s) \/ (stage' = Raised /\ finalized' = finalized)
            BY <2>2, Zenon DEF FinalizeLocal
        <3>2. \A e \in s : r \in shards[e.dir]
            BY DEF Finalizable
        <3>3. /\ stage = "finalize" /\ pending' = pending /\ entry' = entry
              /\ drained' = drained /\ shards' = shards
            BY <2>2 DEF FinalizeLocal
        <3>4. CASE Marked(s)
            <4>1. \A e \in pending[Leader] : e.gen \in Gens(s) => e \in s
                BY <3>3, <3>4 DEF Numbering, PendingReplicas
            <4>2. Gens(s) \subseteq Gens(pending[r])
                BY <3>4
            <4> QED BY <3>2, <3>3, <3>4, <4>1, <4>2
        <3> QED BY <3>1, <3>3, <3>4 DEF Raised
    <2> QED BY <1>3, <2>1, <2>2 DEF Marking
<1>4. CASE Agreeing
    <2>1. CASE AgreeEntry \/ ScheduleRefused \/ RecordFails
        BY <2>1 DEF AgreeEntry, ScheduleRefused, RecordFails, Raised
    <2>2. CASE Enqueue
        <3>1. \A e \in pending[Leader] : e.gen < op.agreed.gen /\ e.gen \in Nat
            BY <2>2 DEF Enqueue, Numbering, Entry, Generation
        <3>2. \A q \in Rank : op.agreed.gen \notin finalized[q]
            <4>1. \A q \in Rank : finalized[q] \subseteq Gens(pending[q]) /\ pending[q] = pending[Leader]
                BY <2>2 DEF Enqueue, PendingReplicas
            <4> QED BY <3>1, <4>1
        <3> QED BY <2>2, <3>2 DEF Enqueue
    <2> QED BY <1>4, <2>1, <2>2 DEF Agreeing
<1>5. CASE GatherReady
    BY <1>5 DEF GatherReady, PublishNext, Continue, GloballyReady
<1>6. CASE Schedule
    BY <1>6 DEF Schedule, PublishNext, Continue, GloballyReady, MarkDrained,
        Occupied, Numbering, PendingReplicas
<1>7. CASE RecordEntry
    BY <1>7 DEF RecordEntry
<1>8. CASE RetireDone
    BY <1>8 DEF RetireDone
<1>9. CASE Reload(r)
    BY <1>9 DEF Reload, Numbering, PublicationInv, PendingReplicas
<1>10. CASE Published
    BY <1>10 DEF Published, PublishNext, Continue, PendingReplicas
<1>11. CASE RemoveFails
    <2>1. /\ UNCHANGED <<shards, pending, finalized, drained>>
          /\ stage = "retire" /\ stage' = "raised"
        BY <1>11 DEF RemoveFails, Raised
    <2>2. Complete(entry.dir) /\ entry.dir \in Dir
        BY <1>11, FailedRemoval DEF DiskInv, IndexedComplete, Entry
    <2> QED BY <2>1, <2>2 DEF Complete
<1> QED BY <1>1, <1>2, <1>3, <1>4, <1>5, <1>6, <1>7, <1>8, <1>9, <1>10, <1>11 DEF JobStep

\* Marking a save takes it out of the queue.
LEMMA QueuedKept ==
    ASSUME Typing, Typing', DiskInv, RemovalSafe, Running, Running', JobInv,
           NEW d \in Dir \cup {NoDir}, NEW r \in Rank, JobStep(d, r)
    PROVE  Queued'
<1> USE RanksAssumption, DirsAssumption DEF Typing, TypeOK, JobInv,
        Running, Stopped, Publishing, Control, disk, memory, control, Registering,
        Scheduled, Gens, Queued
<1>1. CASE Calls(d)
    BY <1>1 DEF Calls, Poll, Wait, Close, SaveAsync, Register, CallerNames, Begin,
        Occupied
<1>2. CASE Writes(r)
    BY <1>2 DEF Writes, BackgroundWrite, SyncWrite, SyncCommit, RemoveFile
<1>3. CASE Marking(r)
    BY <1>3 DEF Marking, FinalizeLocal, AwaitCapacity, Finalizable, Raised,
        Numbering, PendingReplicas
<1>4. CASE Agreeing
    BY <1>4 DEF Agreeing, AgreeEntry, ScheduleRefused, Enqueue, RecordFails, Raised,
        Numbering, PendingReplicas
<1>5. CASE GatherReady
    BY <1>5 DEF GatherReady, PublishNext, Continue, GloballyReady
<1>6. CASE Schedule
    <2>1. \A q \in Rank : Gens(drained[q]) \subseteq Gens(pending[q]) /\ finalized[q] \subseteq Gens(pending[q])
        BY <1>6 DEF Schedule, Marks
    <2>2. \A e \in pending[Leader] : e.gen < op.agreed.gen /\ e.gen \in Nat
        BY <1>6 DEF Schedule, Numbering, Entry, Generation
    <2>3. \A q \in Rank : pending[q] = pending[Leader]
        BY <1>6 DEF Schedule, PendingReplicas
    <2>4. \A q \in Rank : finalized'[q] = finalized[q] \cup Gens(drained[q])
        BY <1>6 DEF Schedule, MarkDrained
    <2>5. \A q \in Rank : op.agreed.gen \notin Gens(pending[q])
        BY <2>2, <2>3
    <2>6. \A q \in Rank : op.agreed.gen \notin finalized'[q]
        <3> HIDE DEF Gens, Typing, TypeOK, JobInv
        <3> QED BY <2>1, <2>4, <2>5
    <2>7. \A q \in Rank : Gens(queue[q]) \cap (finalized[q] \cup Gens(drained[q])) = {}
        BY <1>6 DEF Schedule
    <2>8. \A q \in Rank :
            /\ queue'[q] = queue[q] \cup {op.agreed} /\ drained'[q] = {}
            /\ queue[q] \subseteq pending[q] /\ pending'[q] = pending[q]
        BY <1>6 DEF Schedule
    <2>9. stage' \in {"publish", "enqueue"} /\ op' = op /\ op.name = "save" /\ op.agreed # NoEntry
        BY <1>6 DEF Schedule, PublishNext, Continue
    <2>10. \A q \in Rank : Gens(queue'[q]) = Gens(queue[q]) \cup {op.agreed.gen}
        BY <2>8
    <2> HIDE DEF Scheduled, Gens
    <2>11. \A q \in Rank : Gens(queue'[q]) \cap finalized'[q] = {}
        BY <2>4, <2>6, <2>7, <2>10
    <2>12. Scheduled' /\ op' = op
        BY <2>9 DEF Scheduled
    <2> QED BY <2>8, <2>11, <2>12
<1>7. CASE RecordEntry
    BY <1>7 DEF RecordEntry
<1>8. CASE RetireDone
    BY <1>8 DEF RetireDone
<1>9. CASE Reload(r)
    <2>1. \A q \in Rank : q \notin arrived /\ ~ Registering => entry.gen \in finalized[q]
        BY <1>9 DEF Reload, PublicationInv
    <2>2. Registering => \A q \in Rank : entry \notin queue[q]
        BY <1>9 DEF Reload, PublicationInv
    <2>3. op.name # "close" => entry \notin queue[r]
        BY <1>9, <2>1, <2>2 DEF Reload
    <2> QED BY <1>9, <2>3 DEF Reload
<1>10. CASE Published
    BY <1>10 DEF Published, PublishNext, Continue
<1>11. CASE RemoveFails
    BY <1>11 DEF RemoveFails, Raised
<1> QED BY <1>1, <1>2, <1>3, <1>4, <1>5, <1>6, <1>7, <1>8, <1>9, <1>10, <1>11 DEF JobStep

\* The entry PublishNext takes is pending and complete.
LEMMA NextPublication ==
    ASSUME Typing, Typing', NEW gens \in SUBSET Generation, PublishNext(gens),
           UNCHANGED <<shards, indexFile, pending, op>>, arrived' = {},
           Marks', Naming', PendingReplicas',
           \A q \in Rank : gens \subseteq finalized'[q],
           gens = {} \/ ~ Registering
    PROVE  PublicationInv'
<1>1. CASE gens = {} /\ stage' = Continue
    BY <1>1 DEF PublicationInv, Continue, Publishing
<1>2. CASE \E e \in pending[Leader] : e.gen \in gens /\ stage' = "publish" /\ entry' = e
    <2>2. /\ entry' \in pending'[Leader] /\ entry'.gen \in gens
          /\ stage' = "publish" /\ ready' = gens
        BY <1>2 DEF PublishNext
    <2>3. \A q \in Rank : q \in shards'[entry'.dir]
        BY <2>2 DEF Marks
    <2>4. entry'.dir \in Dir
        BY <2>2, RanksAssumption DEF Typing, TypeOK, Entry
    <2>5. Complete(entry.dir)'
        BY <2>3, <2>4 DEF Complete, Typing, TypeOK
    <2>6. (entry.dir \notin Dirs(index[Leader]))'
        BY <2>2 DEF Naming, Dirs
    <2>7. ~ Registering'
        BY <1>2 DEF Registering
    <2>8. \A q \in Rank : entry' \in pending'[q]
        BY <2>2 DEF PendingReplicas
    <2> QED BY <2>2, <2>5, <2>6, <2>7, <2>8 DEF PublicationInv
<1> QED BY <1>1, <1>2 DEF PublishNext

\* Only complete checkpoints are taken for publication.
LEMMA PublicationInvKept ==
    ASSUME Typing, Typing', DiskInv, RemovalSafe, Running, Running', JobInv,
           Marks', Naming', PendingReplicas',
           NEW d \in Dir \cup {NoDir}, NEW r \in Rank, JobStep(d, r)
    PROVE  PublicationInv'
<1> USE RanksAssumption, DirsAssumption DEF Typing, TypeOK, JobInv,
        Running, Stopped, Publishing, Control, disk, memory, control, Registering,
        Scheduled, Dirs, PublicationInv
<1>1. CASE Calls(d)
    BY <1>1 DEF Calls, Poll, Wait, Close, SaveAsync, Register, CallerNames, Begin,
        Occupied
<1>2. CASE Writes(r)
    <2>1. CASE BackgroundWrite(r)
        BY <2>1 DEF BackgroundWrite, Complete, Entry
    <2>2. CASE SyncWrite(r) \/ SyncCommit \/ RemoveFile
        BY <2>2 DEF SyncWrite, SyncCommit, RemoveFile
    <2> QED BY <1>2, <2>1, <2>2 DEF Writes
<1>3. CASE Marking(r)
    BY <1>3 DEF Marking, FinalizeLocal, AwaitCapacity, Finalizable, Raised
<1>4. CASE Agreeing
    <2>1. CASE ScheduleRefused \/ RecordFails \/ Enqueue
        BY <2>1 DEF ScheduleRefused, RecordFails, Raised, Enqueue
    <2>2. CASE AgreeEntry /\ op.name = "save"
        BY <2>2 DEF AgreeEntry
    <2>3. CASE AgreeEntry /\ op.name = "register"
        <3>1. entry' = op'.agreed /\ stage' = "publish" /\ op'.agreed.dir = op.dir
            BY <2>3 DEF AgreeEntry, Proposal
        <3>2. /\ op.dir \notin Dirs(pending[Leader]) /\ op.dir \notin Dirs(indexFile)
              /\ index[Leader] = indexFile /\ Complete(op.dir)
            BY <2>3 DEF AgreeEntry, OperationFresh, RegisteredComplete, Fresh, IndexReplicas, Stale
        <3>3. \A q \in Rank : entry' \notin pending'[q]
            BY <2>3, <3>1, <3>2 DEF AgreeEntry, PendingReplicas
        <3>4. /\ op'.name = "register" /\ op'.agreed # NoEntry /\ ready' = {}
              /\ UNCHANGED <<shards, index, indexFile, pending>>
            BY <2>3, <3>1 DEF AgreeEntry, Entry, NoEntry
        <3>5. Complete(entry.dir)'
            BY <3>1, <3>2, <3>4 DEF Complete
        <3> QED BY <3>1, <3>2, <3>3, <3>4, <3>5
    <2> QED BY <1>4, <2>1, <2>2, <2>3 DEF Agreeing, AgreeEntry
<1>5. CASE GatherReady
    <2>1. GloballyReady(finalized) \in SUBSET Generation
        BY DEF GloballyReady
    <2>2. \A q \in Rank : GloballyReady(finalized) \subseteq finalized'[q]
        BY <1>5 DEF GatherReady, GloballyReady
    <2> QED BY <1>5, <2>1, <2>2, NextPublication DEF GatherReady
<1>6. CASE Schedule
    <2>1. GloballyReady(finalized') \in SUBSET Generation
        BY DEF GloballyReady
    <2>2. \A q \in Rank : GloballyReady(finalized') \subseteq finalized'[q]
        BY <1>6 DEF GloballyReady
    <2> QED BY <1>6, <2>1, <2>2, NextPublication DEF Schedule
<1>7. CASE RecordEntry
    BY <1>7 DEF RecordEntry
<1>8. CASE RetireDone
    BY <1>8 DEF RetireDone
<1>9. CASE Reload(r)
    BY <1>9 DEF Reload
<1>10. CASE Published
    <2>1. ready \ {entry.gen} \in SUBSET Generation
        OBVIOUS
    <2>2. \A q \in Rank : ready \ {entry.gen} \subseteq finalized'[q]
        BY <1>10 DEF Published
    <2> QED BY <1>10, <2>1, <2>2, NextPublication DEF Published
<1>11. CASE RemoveFails
    BY <1>11 DEF RemoveFails, Raised
<1> QED BY <1>1, <1>2, <1>3, <1>4, <1>5, <1>6, <1>7, <1>8, <1>9, <1>10, <1>11 DEF JobStep

\* A failed removal leaves the file that the retention made of the ranks' index.
LEMMA ReplacedKept ==
    ASSUME Typing, Typing', DiskInv, RemovalSafe, Running, Running', JobInv,
           NEW d \in Dir \cup {NoDir}, NEW r \in Rank, JobStep(d, r)
    PROVE  Replaced'
<1>1. \/ RecordEntry
      \/ stage' = "retire" => UNCHANGED <<stage, index, indexFile, entry>>
    BY DEF JobStep, Calls, Writes, Marking, Agreeing, Poll, Wait, Close, SaveAsync, Register,
           CallerNames, Begin, BackgroundWrite, SyncWrite, SyncCommit, RemoveFile,
           FinalizeLocal, AwaitCapacity, Raised, AgreeEntry, ScheduleRefused, Enqueue,
           RecordFails, RemoveFails, GatherReady, Schedule, RetireDone, Reload, Published,
           PublishNext, Continue, disk, memory, control
<1>2. CASE RecordEntry
    <2>1. /\ UNCHANGED <<index, entry>> /\ entry \in Entry
          /\ entry.dir \notin Dirs(index[Leader])
          /\ indexFile' = Retained(index[Leader], entry)
        BY <1>2 DEF RecordEntry, JobInv, PublicationInv, Publishing, Typing, Control, memory
    <2>2. Stale \/ index[Leader] = indexFile
        BY <1>2 DEF RecordEntry, JobInv, IndexReplicas
    <2>3. \A e, f \in index[Leader] \cup {entry} : e.gen = f.gen \/ e.dir = f.dir => e = f
        BY <1>2, <2>1, <2>2
        DEF JobInv, Replaced, Numbering, Naming, Publishing, RecordEntry, Dirs
    <2> QED BY <2>1, <2>3 DEF Replaced
<1>3. ASSUME UNCHANGED <<index, indexFile, entry>>, stage = "retire" \/ Stale
      PROVE  Replaced'
    BY <1>3 DEF JobInv, Replaced
<1>4. ASSUME Stale' PROVE UNCHANGED <<index, indexFile, entry>> /\ (stage = "retire" \/ Stale)
    BY <1>4, StaleStep DEF RemoveFails, disk, memory
<1> QED BY <1>1, <1>2, <1>3, <1>4 DEF Replaced

\* While the index is stale, the entry in the file remains the oldest pending
\* save, and marked.
LEMMA RepublishedKept ==
    ASSUME Typing, Typing', DiskInv, RemovalSafe, Running, Running', JobInv,
           NEW d \in Dir \cup {NoDir}, NEW r \in Rank, JobStep(d, r)
    PROVE  Republished'
<1>1. CASE RemoveFails
    BY <1>1, FailedRemoval DEF RemoveFails, Republished, disk, memory
<1>2. CASE Stale /\ UNCHANGED <<pending, entry, indexFile>>
    <2>1. \A q \in Rank : finalized[q] \subseteq finalized'[q]
        BY <1>2
        DEF Stale, Typing, TypeOK, JobStep, Calls, Writes, Marking, Agreeing, Poll, Wait, Close,
            SaveAsync, Register, CallerNames, Begin, BackgroundWrite, SyncWrite, SyncCommit,
            RemoveFile, FinalizeLocal, AwaitCapacity, AgreeEntry, ScheduleRefused, Enqueue,
            RecordFails, RemoveFails, GatherReady, Schedule, RecordEntry, RetireDone, Reload,
            Published, MarkDrained, disk, memory, control
    <2> QED BY <1>2, <2>1 DEF JobInv, Republished
<1> QED BY <1>1, <1>2, StaleStep DEF Republished

\* Marking follows the queue, and the queue holds what is not marked.
LEMMA FifoKept ==
    ASSUME Typing, Typing', DiskInv, RemovalSafe, Running, Running', JobInv,
           NEW d \in Dir \cup {NoDir}, NEW r \in Rank, JobStep(d, r)
    PROVE  Fifo'
<1> DEFINE Marked(q) == \A x, e \in pending[q] :
                x.gen \in finalized[q] /\ e.gen \notin finalized[q] => x.gen < e.gen
           Held(q) == queue[q] # {} \/ (op.name # "close" /\ stage # "raised") =>
                \A e \in pending[q] : e.gen \in finalized[q] \/ e \in queue[q] \cup drained[q]
           Takes == Scheduled => \A q \in Rank : op.agreed \in queue[q]
<1>0. /\ Takes /\ (InOrder => \A q \in Rank : Marked(q) /\ Held(q))
      /\ Takes' /\ (InOrder => \A q \in Rank : Marked(q)' /\ Held(q)') => Fifo'
    BY DEF JobInv, Fifo
<1>1. ASSUME UNCHANGED <<pending, finalized, queue, drained>>,
             op'.name = "close" \/ stage' = "raised" \/ (op.name # "close" /\ stage # "raised"),
             Scheduled' => Scheduled /\ op' = op
      PROVE  Fifo'
    <2>1. \A q \in Rank : Marked(q) => Marked(q)'
        BY <1>1
    <2>2. \A q \in Rank : Held(q) => Held(q)'
        BY <1>1
    <2>3. Takes'
        BY <1>0, <1>1
    <2> QED BY <1>0, <2>1, <2>2, <2>3
<1>2. CASE Calls(d) \/ Writes(r)
    BY <1>1, <1>2
    DEF Calls, Writes, Poll, Wait, Close, SaveAsync, Register, CallerNames, Begin, BackgroundWrite,
        SyncWrite, SyncCommit, RemoveFile, Scheduled, disk, memory, control, Typing, Control
<1>3. CASE GatherReady \/ Published
    BY <1>1, <1>3 DEF GatherReady, Published, PublishNext, Continue, Scheduled, memory, Typing, Control
<1>4. CASE AgreeEntry \/ RecordFails \/ RecordEntry \/ RemoveFails
    BY <1>1, <1>4 DEF AgreeEntry, RecordFails, RecordEntry, RemoveFails, Raised, Scheduled, disk,
        memory, Typing, Control
<1>5. CASE RetireDone
    BY <1>1, <1>5 DEF RetireDone, Scheduled
<1>6. CASE ScheduleRefused
    <2>1. /\ UNCHANGED <<pending, finalized, queue>> /\ stage = "capacity"
          /\ stage' = "raised" /\ \A q \in Rank : drained'[q] = {}
        BY <1>6 DEF ScheduleRefused, Raised, Running, Stopped
    <2>2. \A q \in Rank : drained[q] # {} => queue[q] = {}
        BY <2>1 DEF JobInv, Queued, Typing, Control
    <2>3. \A q \in Rank : queue[q] # {} => drained[q] = {}
        BY <2>2
    <2>4. ASSUME InOrder, NEW q \in Rank PROVE Marked(q)' /\ Held(q)'
        BY <1>0, <2>1, <2>3, <2>4 DEF Typing, Control
    <2>5. Takes'
        BY <2>1 DEF Scheduled
    <2> QED BY <1>0, <2>4, <2>5
<1>7. CASE AwaitCapacity(r)
    <2>1. /\ UNCHANGED <<pending, finalized, stage, op>> /\ stage = "capacity"
          /\ \A q \in Rank : queue'[q] \cup drained'[q] = queue[q] \cup drained[q]
        <3>1. UNCHANGED <<pending, finalized, stage, op>> /\ stage = "capacity"
            BY <1>7 DEF AwaitCapacity
        <3>2. CASE UNCHANGED <<queue, drained>>
            BY <3>1, <3>2
        <3>3. CASE queue[r] # {} /\ drained' = [drained EXCEPT ![r] = queue[r]]
                   /\ queue' = [queue EXCEPT ![r] = {}]
            <4>1. drained[r] = {}
                BY <3>1, <3>3 DEF JobInv, Queued, Typing, Control
            <4> QED BY <3>1, <3>3, <4>1 DEF Typing, TypeOK
        <3>4. Cardinality(queue[r]) >= MaxUnfinalized => queue[r] # {}
            BY FS_EmptySet, BoundsAssumption
        <3> QED BY <1>7, <3>2, <3>1, <3>3, <3>4 DEF AwaitCapacity
    <2>2. ASSUME InOrder, NEW q \in Rank PROVE Marked(q)' /\ Held(q)'
        BY <1>0, <2>1, <2>2 DEF Typing, Control
    <2>3. Takes'
        BY <2>1 DEF Scheduled
    <2> QED BY <1>0, <2>2, <2>3
<1>8. CASE FinalizeLocal(r)
    <2>1. PICK s \in Finalizable(r) :
            /\ queue' = [queue EXCEPT ![r] = queue[r] \ s]
            /\ \/ /\ s \subseteq pending[r]
                  /\ finalized' = [finalized EXCEPT ![r] = finalized[r] \cup Gens(s)]
                  /\ stage' = stage
               \/ ~ s \subseteq pending[r] /\ stage' = Raised
        BY <1>8 DEF FinalizeLocal
    <2>2. s \subseteq queue[r] /\ UNCHANGED <<pending, drained, op>> /\ stage = "finalize"
        BY <1>8 DEF FinalizeLocal, Finalizable
    <2>3. op.name # "close" => queue[r] \subseteq pending[r]
        BY <2>2 DEF JobInv, Queued, Scheduled
    <2>4. /\ s \subseteq pending[r] /\ stage' = stage
          /\ finalized' = [finalized EXCEPT ![r] = finalized[r] \cup Gens(s)]
        BY <2>1, <2>2, <2>3 DEF Raised, Running, Stopped
    <2>5. \A q \in Rank :
            /\ finalized'[q] = IF q = r THEN finalized[r] \cup Gens(s) ELSE finalized[q]
            /\ queue'[q] = IF q = r THEN queue[r] \ s ELSE queue[q]
        BY <2>1, <2>4 DEF Typing, TypeOK
    <2>6. \A e \in s : e.gen \in Gens(s)
        BY DEF Gens
    <2>7. ASSUME InOrder PROVE Marked(r)'
        <3>1. SUFFICES ASSUME NEW x \in pending[r], NEW e \in pending[r],
                              x.gen \in finalized'[r], e.gen \notin finalized'[r]
                       PROVE  x.gen < e.gen
            BY <2>2
        <3>2. e.gen \notin finalized[r] /\ e \notin s /\ e.gen \notin Gens(s)
            BY <2>5, <2>6, <3>1
        <3>3. CASE x.gen \in finalized[r]
            BY <1>0, <2>7, <3>2, <3>3
        <3>4. CASE x.gen \in Gens(s)
            <4>1. PICK y \in s : y.gen = x.gen
                BY <3>4 DEF Gens
            <4>2. drained[r] = {}
                BY <2>2 DEF JobInv, Marks
            <4>3. e \in queue[r]
                BY <1>0, <2>2, <2>7, <3>2, <4>1, <4>2
            <4>4. ~ (e.gen < y.gen)
                BY <2>7, <3>2, <4>1, <4>3 DEF Finalizable
            <4>5. e.gen # y.gen
                BY <2>6, <3>2, <4>1
            <4>6. e.gen \in Nat /\ x.gen \in Nat
                BY DEF Typing, TypeOK, Entry, Generation
            <4> QED BY <4>1, <4>4, <4>5, <4>6
        <3> QED BY <2>5, <3>1, <3>3, <3>4
    <2>8. ASSUME InOrder PROVE Held(r)'
        BY <1>0, <2>2, <2>4, <2>5, <2>6, <2>8
    <2>9. ASSUME InOrder, NEW q \in Rank PROVE Marked(q)' /\ Held(q)'
        <3>1. CASE q = r
            BY <2>7, <2>8, <2>9, <3>1
        <3>2. CASE q # r
            BY <1>0, <2>2, <2>4, <2>5, <2>9, <3>2
        <3> QED BY <3>1, <3>2
    <2>10. Takes'
        BY <2>2, <2>4 DEF Scheduled
    <2> QED BY <1>0, <2>9, <2>10
<1>9. CASE Schedule
    <2>1. /\ UNCHANGED <<pending, op>> /\ stage = "capacity" /\ op.name = "save"
          /\ \A q \in Rank :
                /\ queue'[q] = queue[q] \cup {op.agreed}
                /\ finalized'[q] = finalized[q] \cup Gens(drained[q])
                /\ drained[q] # {} => queue[q] = {}
        BY <1>9 DEF Schedule, MarkDrained, Typing, Control, JobInv, Queued
    <2>2. \A q \in Rank : \A e \in drained[q] : e.gen \in finalized'[q]
        BY <2>1 DEF Gens
    <2>3. \A q \in Rank : drained[q] = {} => finalized'[q] = finalized[q]
        <3>1. Gens({}) = {}
            BY DEF Gens
        <3> QED BY <2>1, <3>1
    <2>4. ASSUME InOrder, NEW q \in Rank
          PROVE  \A e \in pending[q] : e.gen \in finalized'[q] \/ e \in queue[q]
        BY <1>0, <2>1, <2>2, <2>4
    <2>5. ASSUME InOrder, NEW q \in Rank PROVE Held(q)'
        BY <2>1, <2>4, <2>5
    <2>6. ASSUME InOrder, NEW q \in Rank PROVE Marked(q)'
        <3>1. CASE drained[q] = {}
            BY <1>0, <2>1, <2>3, <2>6, <3>1
        <3>2. CASE drained[q] # {}
            BY <2>1, <2>4, <2>6, <3>2
        <3> QED BY <3>1, <3>2
    <2>7. Takes'
        BY <2>1
    <2> QED BY <1>0, <2>5, <2>6, <2>7
<1>10. CASE Enqueue
    <2>1. /\ UNCHANGED <<queue, finalized, drained, op>> /\ Scheduled
          /\ op.name = "save" /\ stage = "enqueue" /\ stage' = "idle"
          /\ \A q \in Rank : pending'[q] = pending[q] \cup {op.agreed}
        BY <1>10 DEF Enqueue, Scheduled, Typing, Control
    <2>2. ASSUME NEW q \in Rank
          PROVE  /\ \A e \in pending[q] : e.gen < op.agreed.gen /\ e.gen \in Nat
                 /\ op.agreed.gen \notin finalized[q] /\ op.agreed.gen \in Nat
        <3>1. pending[q] = pending[Leader] /\ finalized[q] \subseteq Gens(pending[q])
            BY <2>1 DEF JobInv, PendingReplicas, Marks
        <3>2. pending[q] \subseteq Entry /\ op.agreed \in Entry
            BY <2>1 DEF Typing, TypeOK, Control
        <3>3. \A e \in pending[q] : e.gen < op.agreed.gen
            BY <2>1, <3>1 DEF JobInv, Numbering, Scheduled
        <3>4. \A e \in Entry : e.gen \in Nat
            BY DEF Entry, Generation
        <3>5. op.agreed.gen \notin Gens(pending[q])
            BY <3>2, <3>3, <3>4 DEF Gens
        <3> QED BY <3>1, <3>2, <3>3, <3>4, <3>5
    <2>3. ASSUME InOrder, NEW q \in Rank PROVE Marked(q)' /\ Held(q)'
        BY <1>0, <2>1, <2>2, <2>3
    <2>4. Takes'
        BY <2>1 DEF Scheduled
    <2> QED BY <1>0, <2>3, <2>4
<1>11. CASE Reload(r)
    <2>1. /\ UNCHANGED <<queue, drained, op, stage>> /\ stage = "reload"
          /\ \A q \in Rank :
                \/ pending'[q] = pending[q] /\ finalized'[q] = finalized[q]
                \/ /\ pending'[q] = pending[q] \ {entry}
                   /\ finalized'[q] = finalized[q] \ {entry.gen}
        BY <1>11 DEF Reload, Typing, TypeOK
    <2>2. ASSUME NEW q \in Rank
          PROVE  \A e \in pending[q] \ {entry} : e.gen # entry.gen
        BY <2>1 DEF JobInv, PendingReplicas, Numbering, Publishing
    <2>3. ASSUME InOrder, NEW q \in Rank PROVE Marked(q)' /\ Held(q)'
        <3>1. CASE pending'[q] = pending[q] /\ finalized'[q] = finalized[q]
            BY <1>0, <2>1, <2>3, <3>1
        <3>2. CASE pending'[q] = pending[q] \ {entry} /\ finalized'[q] = finalized[q] \ {entry.gen}
            BY <1>0, <2>1, <2>2, <2>3, <3>2
        <3> QED BY <2>1, <3>1, <3>2
    <2>4. Takes'
        BY <1>0, <2>1 DEF Scheduled
    <2> QED BY <1>0, <2>3, <2>4
<1> QED BY <1>2, <1>3, <1>4, <1>5, <1>6, <1>7, <1>8, <1>9, <1>10, <1>11
        DEF JobStep, Marking, Agreeing

\* No save older than a globally ready one is left behind.
LEMMA ReadyInOrder ==
    ASSUME NEW pend \in SUBSET Entry, NEW fin \in [Rank -> SUBSET Generation],
           \A q \in Rank : fin[q] \subseteq Gens(pend),
           \A q \in Rank : \A x, e \in pend : x.gen \in fin[q] /\ e.gen \notin fin[q] => x.gen < e.gen,
           NEW g \in GloballyReady(fin), NEW e \in pend, e.gen < g
    PROVE  e.gen \in GloballyReady(fin)
<1>1. ASSUME NEW q \in Rank PROVE e.gen \in fin[q]
    <2>1. g \in fin[q]
        BY DEF GloballyReady
    <2>2. PICK x \in pend : x.gen = g
        BY <2>1 DEF Gens
    <2>3. e.gen \in Nat /\ x.gen \in Nat
        BY DEF Entry, Generation
    <2> QED BY <2>1, <2>2, <2>3
<1> QED BY <1>1, RanksAssumption DEF GloballyReady

\* The ready saves are published oldest first.
LEMMA OrderedKept ==
    ASSUME Typing, Typing', DiskInv, RemovalSafe, Running, Running', JobInv,
           PendingReplicas', Marks', Fifo',
           NEW d \in Dir \cup {NoDir}, NEW r \in Rank, JobStep(d, r)
    PROVE  Ordered'
<1>1. ASSUME NEW fin \in [Rank -> SUBSET Generation], fin = finalized',
             PublishNext(GloballyReady(fin)), pending' = pending
      PROVE  Ordered'
    <2>1. ready' = GloballyReady(fin)
        BY <1>1 DEF PublishNext
    <2>2. Publishing' => \A g \in ready' : entry'.gen =< g
        BY <1>1, <2>1 DEF PublishNext, Continue, Publishing
    <2>3. ASSUME InOrder, Publishing', NEW g \in ready', NEW q \in Rank, NEW e \in pending'[q], e.gen < g
          PROVE  e.gen \in ready'
        <3>1. PICK pend \in SUBSET Entry : pend = pending'[Leader]
            BY RanksAssumption DEF Typing, TypeOK
        <3>2. \A p \in Rank : pending'[p] = pend
            BY <1>1, <2>3, <3>1 DEF PublishNext, Continue, Publishing, PendingReplicas
        <3>3. \A p \in Rank : fin[p] \subseteq Gens(pend)
            BY <1>1, <3>2 DEF Marks, Gens
        <3>4. \A p \in Rank : \A x, y \in pend : x.gen \in fin[p] /\ y.gen \notin fin[p] => x.gen < y.gen
            BY <1>1, <2>3, <3>2 DEF Fifo
        <3>5. e \in pend /\ g \in GloballyReady(fin)
            BY <2>1, <2>3, <3>2
        <3> QED BY <2>1, <2>3, <3>3, <3>4, <3>5, ReadyInOrder
    <2> QED BY <2>2, <2>3 DEF Ordered
<1>2. finalized' \in [Rank -> SUBSET Generation]
    BY DEF Typing, TypeOK
<1>3. CASE GatherReady \/ Schedule
    <2>1. PublishNext(GloballyReady(finalized')) /\ pending' = pending
        BY <1>3 DEF GatherReady, Schedule, disk, memory
    <2> QED BY <1>1, <1>2, <2>1
<1>4. CASE Published
    <2>1. /\ ready' = ready \ {entry.gen} /\ UNCHANGED <<pending, op>> /\ stage = "reload"
          /\ stage' # "publish" => ~ Publishing'
          /\ stage' = "publish" => \A g \in ready' : entry'.gen =< g
        BY <1>4 DEF Published, PublishNext, Continue, Publishing, memory
    <2>2. \A q \in Rank : pending[q] = pending[Leader] \ {entry}
        BY <1>4, RanksAssumption DEF Published, JobInv, PendingReplicas
    <2>3. \A e \in pending[Leader] \ {entry} : e.gen # entry.gen
        BY <2>1 DEF JobInv, Numbering, Publishing
    <2>4. ASSUME InOrder, NEW g \in ready', NEW q \in Rank, NEW e \in pending[q], e.gen < g
          PROVE  e.gen \in ready'
        <3>1. e.gen \in ready
            BY <2>1, <2>4 DEF JobInv, Ordered, Publishing
        <3> QED BY <2>1, <2>2, <2>3, <2>4, <3>1
    <2> QED BY <2>1, <2>4 DEF Ordered, Publishing
<1>5. CASE Reload(r)
    <2>1. /\ UNCHANGED <<ready, entry, stage, op>> /\ \A q \in Rank : pending'[q] \subseteq pending[q]
        BY <1>5 DEF Reload, Typing, TypeOK
    <2> QED BY <2>1 DEF JobInv, Ordered, Publishing, Registering
<1>6. CASE AgreeEntry
    <2>1. ready' = {}
        BY <1>6 DEF AgreeEntry, Typing, Control
    <2>2. Publishing' => Registering'
        <3>1. op.dir # NoDir /\ (stage' = "publish" => op.name = "register")
            BY <1>6, DirsAssumption DEF AgreeEntry, Typing, TypeOK, Control
        <3>2. /\ op'.name = op.name /\ op'.agreed.dir = op.dir
              /\ stage' \in {"capacity", "publish"}
            BY <1>6 DEF AgreeEntry, Proposal
        <3> QED BY <3>1, <3>2 DEF Publishing, Registering, NoEntry
    <2> QED BY <2>1, <2>2 DEF Ordered
<1>7. CASE RecordEntry \/ RetireDone \/ Writes(r)
    <2>1. UNCHANGED <<ready, entry, pending, op>> /\ (Publishing' => Publishing)
        BY <1>7 DEF RecordEntry, RetireDone, Writes, BackgroundWrite, SyncWrite, SyncCommit,
            RemoveFile, Publishing, disk, memory, control
    <2> QED BY <2>1 DEF JobInv, Ordered, Registering
<1>8. CASE Calls(d) \/ Marking(r) \/ ScheduleRefused \/ Enqueue \/ RecordFails \/ RemoveFails
    <2>1. ~ Publishing'
        BY <1>8 DEF Calls, Poll, Wait, Close, SaveAsync, Register, Begin, Marking, FinalizeLocal,
            AwaitCapacity, ScheduleRefused, Enqueue, RecordFails, RemoveFails, Raised, Publishing
    <2> QED BY <2>1 DEF Ordered
<1> QED BY <1>3, <1>4, <1>5, <1>6, <1>7, <1>8 DEF JobStep, Agreeing

\* Slots are taken by older saves than the pending ones.
LEMMA OlderKept ==
    ASSUME Typing, Typing', DiskInv, RemovalSafe, Running, Running', JobInv,
           NEW d \in Dir \cup {NoDir}, NEW r \in Rank, JobStep(d, r)
    PROVE  Older'
<1>1. ASSUME UNCHANGED <<index, indexFile, pending>> PROVE Older'
    BY <1>1 DEF JobInv, Older
<1>2. CASE Calls(d) \/ Writes(r) \/ Marking(r)
    BY <1>1, <1>2 DEF Calls, Poll, Wait, Close, SaveAsync, Register, Begin, Writes, BackgroundWrite,
        SyncWrite, SyncCommit, RemoveFile, Marking, FinalizeLocal, AwaitCapacity, disk, memory
<1>3. CASE GatherReady \/ Schedule \/ Published
    BY <1>1, <1>3 DEF GatherReady, Schedule, Published, disk, memory
<1>4. CASE AgreeEntry \/ ScheduleRefused \/ RecordFails \/ RemoveFails
    BY <1>1, <1>4 DEF AgreeEntry, ScheduleRefused, RecordFails, RemoveFails, disk, memory
<1>5. CASE Enqueue
    <2>1. /\ UNCHANGED <<index, indexFile>> /\ index[Leader] = indexFile
          /\ pending'[Leader] = pending[Leader] \cup {op.agreed}
          /\ \A e \in indexFile : e.gen < op.agreed.gen
        BY <1>5, RanksAssumption
        DEF Enqueue, JobInv, IndexReplicas, Stale, Numbering, Typing, Control, disk
    <2> QED BY <2>1 DEF JobInv, Older, RecoveryEntries
<1>6. CASE RecordEntry
    <2>1. UNCHANGED <<index, pending, entry>> /\ indexFile' \subseteq indexFile \cup {entry}
        BY <1>6, Recorded DEF RecordEntry, memory
    <2>2. ASSUME InOrder, entry.dir \in RecoveryDir, NEW e \in pending[Leader]
          PROVE  entry.gen < e.gen \/ entry = e
        <3>1. ~ Registering /\ entry \in pending[Leader] /\ entry.gen \in ready
            BY <1>6, <2>2, RanksAssumption, DirsAssumption
            DEF RecordEntry, JobInv, PublicationInv, Publishing, Registering, Typing, Control
        <3>2. e.gen \in Nat /\ entry.gen \in Nat
            BY <3>1, RanksAssumption DEF Typing, TypeOK, Entry, Generation
        <3>3. entry.gen =< e.gen
            BY <1>6, <2>2, <3>1, <3>2, RanksAssumption DEF RecordEntry, JobInv, Ordered, Publishing
        <3>4. e.gen = entry.gen => e = entry
            BY <3>1 DEF JobInv, Numbering
        <3> QED BY <3>2, <3>3, <3>4
    <2> QED BY <2>1, <2>2 DEF JobInv, Older, RecoveryEntries
<1>7. CASE RetireDone
    <2>1. UNCHANGED <<indexFile, pending>> /\ index'[Leader] = indexFile
        BY <1>7, RanksAssumption DEF RetireDone, disk, Typing, TypeOK
    <2> QED BY <2>1 DEF JobInv, Older, RecoveryEntries
<1>8. CASE Reload(r)
    <2>1. /\ UNCHANGED indexFile /\ pending'[Leader] \subseteq pending[Leader]
          /\ index'[Leader] = index[Leader] \/ index'[Leader] = indexFile
        BY <1>8, RanksAssumption DEF Reload, disk, Typing, TypeOK
    <2> QED BY <2>1 DEF JobInv, Older, RecoveryEntries
<1> QED BY <1>2, <1>3, <1>4, <1>5, <1>6, <1>7, <1>8 DEF JobStep, Agreeing

\* The retention leaves nothing to remove.
LEMMA RetentionSettles ==
    ASSUME NEW entries \in SUBSET Entry, IsFiniteSet(entries), NEW e \in Entry
    PROVE  IsFiniteSet(Retained(entries, e)) /\ Removable(Retained(entries, e)) = {}
<1> DEFINE all  == WithEntry(entries, e)
           kept == Retained(entries, e)
           Newer(s, x) == {y \in RecoveryEntries(s) : y.gen > x.gen}
<1>1. IsFiniteSet(all) /\ kept \subseteq all
    <2>1. all \subseteq entries \cup {e} /\ kept \subseteq all
        BY DEF WithEntry, Retained
    <2>2. IsFiniteSet(entries \cup {e})
        BY FS_AddElement
    <2> QED BY <2>1, <2>2, FS_Subset
<1>2. IsFiniteSet(kept)
    BY <1>1, FS_Subset
<1>3. ASSUME NEW x \in Removable(kept) PROVE FALSE
    <2>1. /\ x \in kept /\ x.dir \in RecoveryDir /\ x.dir \notin DurableDir
          /\ Cardinality(Newer(kept, x)) >= Slots
        BY <1>3 DEF Removable, RecoveryEntries
    <2>2. Newer(kept, x) \subseteq Newer(all, x) /\ Newer(all, x) \subseteq all
        BY <1>1 DEF RecoveryEntries
    <2>3. IsFiniteSet(Newer(all, x)) /\ IsFiniteSet(Newer(kept, x))
        BY <1>1, <2>2, FS_Subset
    <2> HIDE DEF Newer
    <2>4. /\ Cardinality(Newer(kept, x)) =< Cardinality(Newer(all, x))
          /\ Cardinality(Newer(all, x)) \in Nat /\ Cardinality(Newer(kept, x)) \in Nat
        BY <2>2, <2>3, FS_Subset, FS_CardinalityType
    <2>5. Cardinality(Newer(all, x)) >= Slots
        BY <2>1, <2>4, BoundsAssumption
    <2>6. x \in Removable(all)
        BY <1>1, <2>1, <2>5 DEF Removable, RecoveryEntries, Newer
    <2> QED BY <2>1, <2>6 DEF Retained
<1> QED BY <1>2, <1>3

\* Nothing else writes the index file.
LEMMA IndexSettledKept ==
    ASSUME Typing, Typing', DiskInv, RemovalSafe, Running, Running', JobInv,
           NEW d \in Dir \cup {NoDir}, NEW r \in Rank, JobStep(d, r)
    PROVE  IndexSettled'
<1>1. CASE RecordEntry
    <2>1. /\ entry \in Entry /\ (index[Leader] = indexFile \/ indexFile' = indexFile)
          /\ indexFile' = Retained(index[Leader], entry) /\ indexFile \in SUBSET Entry
        BY <1>1, Recorded DEF RecordEntry, Typing, TypeOK
    <2> QED BY <2>1, RetentionSettles DEF DiskInv, IndexSettled
<1>2. ~ RecordEntry => UNCHANGED indexFile
    BY DEF JobStep, Calls, Writes, Marking, Agreeing, Poll, Wait, Close, SaveAsync, Register, Begin,
        BackgroundWrite, SyncWrite, SyncCommit, RemoveFile, FinalizeLocal, AwaitCapacity,
        AgreeEntry, ScheduleRefused, Enqueue, RecordFails, RemoveFails, GatherReady, Schedule,
        RetireDone, Reload, Published, disk
<1> QED BY <1>1, <1>2 DEF DiskInv, IndexSettled

-----------------------------------------------------------------------------
(* The invariant.                                                          *)

\* The invariant holds initially.
LEMMA InitInv == Init => IInv
<1> SUFFICES ASSUME Init PROVE IInv
    OBVIOUS
<1>1. Typing
    BY InitTyping
<1>2. Running => JobInv
    BY RanksAssumption
    DEF Init, OpIdle, JobInv, IndexReplicas, PendingReplicas, Numbering, Naming,
        OperationFresh, RegisteredComplete, PublicationInv, Marks, Queued, Retiring,
        Publishing, Registering, Scheduled, Fresh, Dirs, Gens, Stale, Replaced, Republished,
        Fifo, Ordered, Older, RecoveryEntries
<1>3. IndexSettled
    BY FS_EmptySet DEF Init, IndexSettled, Removable, RecoveryEntries
<1> QED BY <1>1, <1>2, <1>3 DEF Init, IInv, DiskInv, IndexedComplete, IndexKeys

\* A new job holds what is on disk and nothing else.
LEMMA RestartInv ==
    ASSUME Typing, Typing', DiskInv, Restart
    PROVE  DiskInv' /\ JobInv'
<1> USE RanksAssumption DEF Restart, disk
<1>1. DiskInv'
    BY DEF DiskInv, IndexedComplete, Complete, IndexKeys, IndexSettled
<1>2. IndexReplicas' /\ PendingReplicas' /\ ~ Stale'
    BY DEF IndexReplicas, PendingReplicas, Stale, OpIdle
<1>3. Numbering' /\ Naming'
    BY <1>1 DEF Numbering, Naming, DiskInv, IndexKeys, Publishing, OpIdle, Dirs
<1>4. OperationFresh' /\ RegisteredComplete' /\ PublicationInv' /\ Retiring'
    BY DEF OperationFresh, RegisteredComplete, PublicationInv, Retiring, Fresh, Publishing, OpIdle
<1>5. Marks' /\ Queued'
    BY DEF Marks, Queued, Gens
<1>6. Replaced' /\ Republished' /\ Fifo' /\ Ordered' /\ Older'
    BY <1>2 DEF Replaced, Republished, Fifo, Ordered, Older, Scheduled, Publishing
<1> QED BY <1>1, <1>2, <1>3, <1>4, <1>5, <1>6 DEF JobInv

\* A job stops without touching the disk.
LEMMA StoppedDisk ==
    ASSUME Next, ~ Running'
    PROVE  UNCHANGED disk
BY DEF Next, RankStep, Collective, Poll, Wait, Close, Abort, SaveAsync, Register, Begin,
       BackgroundWrite, SyncWrite, FinalizeLocal, AwaitCapacity, Reload, SyncCommit,
       GatherReady, AgreeEntry, ScheduleRefused, Schedule, Enqueue, RecordEntry, RemoveFile,
       RetireDone, Published, RecordFails, RemoveFails, Crash, Restart, Done,
       Running, Stopped, vars, disk, memory, control

\* The invariant is inductive.
LEMMA NextInv ==
    ASSUME RemovalSafe, IInv, [Next]_vars
    PROVE  IInv'
<1>1. Typing /\ Typing' /\ DiskInv
    BY NextTyping DEF IInv
<1>2. ASSUME Running, JobInv, NEW d \in Dir \cup {NoDir}, NEW r \in Rank, JobStep(d, r), Running'
      PROVE  DiskInv' /\ JobInv'
    <2>1. IndexedComplete' /\ IndexReplicas' /\ PendingReplicas'
        BY <1>1, <1>2, IndexedCompleteKept, IndexReplicasKept, PendingReplicasKept
    <2>2. Numbering' /\ Naming' /\ OperationFresh' /\ RegisteredComplete'
        BY <1>1, <1>2, NumberingKept, NamingKept, OperationFreshKept, RegisteredCompleteKept
    <2>3. Marks' /\ Queued' /\ Retiring'
        BY <1>1, <1>2, MarksKept, QueuedKept, RetiringKept
    <2>4. PublicationInv'
        BY <1>1, <1>2, <2>1, <2>2, <2>3, PublicationInvKept
    <2>5. Replaced' /\ Republished' /\ Fifo' /\ Older'
        BY <1>1, <1>2, ReplacedKept, RepublishedKept, FifoKept, OlderKept
    <2>6. Ordered'
        BY <1>1, <1>2, <2>1, <2>3, <2>5, OrderedKept
    <2>7. IndexKeys'
        BY <2>2 DEF Numbering, Naming, IndexKeys
    <2>8. IndexSettled'
        BY <1>1, <1>2, IndexSettledKept
    <2> QED BY <2>1, <2>2, <2>3, <2>4, <2>5, <2>6, <2>7, <2>8 DEF JobInv, DiskInv
<1>3. CASE UNCHANGED vars
    <2> USE <1>3 DEF vars, disk, memory, control
    <2>1. DiskInv' = DiskInv /\ Running' = Running
        BY DEF DiskInv, IndexedComplete, IndexKeys, IndexSettled, Complete, Running
    <2>2. JobInv => IndexReplicas' /\ PendingReplicas' /\ Numbering' /\ Naming'
        BY DEF JobInv, IndexReplicas, PendingReplicas, Numbering, Naming, Publishing, Stale
    <2>3. JobInv => OperationFresh' /\ RegisteredComplete' /\ Retiring'
        BY DEF JobInv, OperationFresh, RegisteredComplete, Retiring, Fresh, Registering,
               Scheduled, Publishing, Complete
    <2>4. JobInv => PublicationInv' /\ Marks' /\ Queued'
        BY DEF JobInv, PublicationInv, Marks, Queued, Registering, Scheduled, Publishing, Complete
    <2>5. JobInv => Replaced' /\ Republished' /\ Fifo' /\ Ordered' /\ Older'
        BY DEF JobInv, Replaced, Republished, Fifo, Ordered, Older, Stale, Registering,
               Scheduled, Publishing
    <2> QED BY <1>1, <2>1, <2>2, <2>3, <2>4, <2>5 DEF IInv, JobInv
<1>4. CASE Next /\ ~ Running'
    BY <1>1, <1>4, StoppedDisk DEF IInv, disk, DiskInv, IndexedComplete, IndexKeys, IndexSettled, Complete
<1>5. CASE Restart
    BY <1>1, <1>5, RestartInv DEF IInv
<1>6. CASE Next /\ Running' /\ ~ Restart
    <2>1. PICK d \in Dir \cup {NoDir}, r \in Rank : Running /\ JobStep(d, r)
        BY <1>6, JobSteps
    <2> QED BY <1>1, <1>2, <1>6, <2>1 DEF IInv
<1> QED BY <1>3, <1>4, <1>5, <1>6

\* The invariant holds in every reachable state.
LEMMA Invariant == ASSUME RemovalSafe PROVE Spec => []IInv
<1>1. Init => IInv
    BY InitInv
<1>2. IInv /\ [Next]_vars => IInv'
    BY NextInv
<1> QED BY <1>1, <1>2, PTL DEF Spec

\* Whatever the interleaving and wherever the job crashes, an entry of the
\* index names a directory every rank has finished writing.
THEOREM IndexAlwaysLoadable ==
    ASSUME RemovalSafe
    PROVE  Spec => []IndexedComplete
<1>1. IInv => IndexedComplete
    BY DEF IInv, DiskInv
<1>2. Spec => []IInv
    BY Invariant
<1> QED BY <1>1, <1>2, PTL

\* Between operations all ranks hold the index of the file and the same
\* pending saves.
THEOREM RanksAgree ==
    ASSUME RemovalSafe
    PROVE  Spec => []ReplicasAgree
<1>1. IInv => ReplicasAgree
    BY DEF IInv, Running, Stopped, JobInv, IndexReplicas, PendingReplicas, Stale, ReplicasAgree
<1>2. Spec => []IInv
    BY Invariant
<1> QED BY <1>1, <1>2, PTL

\* A commit generation is never used twice.
THEOREM NoGenerationReused ==
    ASSUME RemovalSafe
    PROVE  Spec => []GenerationsUnique
<1>1. IInv => GenerationsUnique
    BY DEF IInv, Running, JobInv, PendingReplicas, Numbering, Publishing, GenerationsUnique
<1>2. Spec => []IInv
    BY Invariant
<1> QED BY <1>1, <1>2, PTL

\* What a rank marks finalized maps to a pending entry.
THEOREM MarksArePending ==
    ASSUME RemovalSafe
    PROVE  Spec => []MarkedIsPending
<1>1. IInv => MarkedIsPending
    BY DEF IInv, Running, JobInv, Marks, MarkedIsPending
<1>2. Spec => []IInv
    BY Invariant
<1> QED BY <1>1, <1>2, PTL

\* With a FIFO queue asynchronous saves enter the index in the order of their
\* generations, whatever the ranks finalize when.
THEOREM PublishedOldestFirst ==
    ASSUME InOrder
    PROVE  Spec => []PublishedInOrder
<1>1. IInv => PublishedInOrder
    <2> SUFFICES ASSUME IInv, stage = "publish", entry \in pending[Leader], NEW e \in pending[Leader]
                 PROVE  entry.gen =< e.gen
        BY DEF PublishedInOrder
    <2>1. JobInv /\ Typing
        BY DEF IInv, Running, Stopped
    <2>2. ~ Registering /\ entry.gen \in ready
        BY <2>1, RanksAssumption DEF JobInv, PublicationInv, Publishing
    <2>3. e.gen \in Nat /\ entry.gen \in Nat
        BY <2>1, RanksAssumption DEF Typing, TypeOK, Entry, Generation
    <2> QED BY <2>1, <2>2, <2>3, RanksAssumption DEF JobInv, Ordered, Publishing
<1>2. Spec => []IInv
    BY Invariant DEF RemovalSafe
<1> QED BY <1>1, <1>2, PTL

-----------------------------------------------------------------------------
(* Backpressure.                                                           *)

\* At the capacity check a rank that has passed it has room for one more.
QueueInv ==
    \A r \in Rank :
        /\ IsFiniteSet(queue[r])
        /\ Cardinality(queue[r]) =< MaxUnfinalized
        /\ stage = "capacity" /\ r \in arrived => Cardinality(queue[r]) < MaxUnfinalized

LEMMA QueueShrinks ==
    ASSUME NEW q, IsFiniteSet(q), NEW s \in SUBSET q
    PROVE  /\ IsFiniteSet(s) /\ Cardinality(s) =< Cardinality(q)
           /\ Cardinality(s) \in Nat /\ Cardinality(q) \in Nat
BY FS_Subset, FS_CardinalityType

LEMMA QueueStep ==
    ASSUME Typing, QueueInv, [Next]_vars
    PROVE  QueueInv'
<1> USE DEF Typing, Control, QueueInv, disk, memory, control
<1>0. \A r \in Rank : Cardinality(queue[r]) \in Nat
    BY FS_CardinalityType
<1>1. CASE \E r \in Rank : FinalizeLocal(r)
    <2>1. PICK r \in Rank : FinalizeLocal(r)
        BY <1>1
    <2>2. \E s : queue' = [queue EXCEPT ![r] = queue[r] \ s]
        BY <2>1, Zenon DEF FinalizeLocal
    <2>3. PICK s : queue' = [queue EXCEPT ![r] = queue[r] \ s]
        BY <2>2
    <2>4. /\ IsFiniteSet(queue[r] \ s) /\ Cardinality(queue[r] \ s) =< Cardinality(queue[r])
          /\ Cardinality(queue[r] \ s) \in Nat
        BY QueueShrinks
    <2>5. \A q \in Rank : queue'[q] = IF q = r THEN queue[r] \ s ELSE queue[q]
        BY <2>3 DEF TypeOK
    <2>6. stage' # "capacity"
        BY <2>1 DEF FinalizeLocal, Raised
    <2> QED BY <1>0, <2>4, <2>5, <2>6, BoundsAssumption
<1>2. CASE \E r \in Rank : AwaitCapacity(r)
    <2>1. PICK r \in Rank : AwaitCapacity(r)
        BY <1>2
    <2>2. IsFiniteSet({}) /\ Cardinality({}) = 0
        BY FS_EmptySet
    <2>3. arrived' = arrived \cup {r} /\ stage' = stage
        BY <2>1 DEF AwaitCapacity
    <2>4. \/ queue' = queue /\ Cardinality(queue[r]) < MaxUnfinalized
          \/ queue' = [queue EXCEPT ![r] = {}]
        BY <2>1 DEF AwaitCapacity
    <2>5. CASE queue' = queue /\ Cardinality(queue[r]) < MaxUnfinalized
        BY <1>0, <2>3, <2>5
    <2>6. CASE queue' = [queue EXCEPT ![r] = {}]
        <3>1. \A q \in Rank : queue'[q] = IF q = r THEN {} ELSE queue[q]
            BY <2>6 DEF TypeOK
        <3> QED BY <1>0, <2>2, <2>3, <3>1, BoundsAssumption
    <2> QED BY <2>4, <2>5, <2>6
<1>3. CASE Schedule
    <2>1. \A r \in Rank : queue'[r] = queue[r] \cup {op.agreed} /\ Cardinality(queue[r]) < MaxUnfinalized
        BY <1>3 DEF Schedule
    <2>2. ASSUME NEW r \in Rank
          PROVE  /\ IsFiniteSet(queue'[r]) /\ Cardinality(queue'[r]) \in Nat
                 /\ Cardinality(queue'[r]) =< Cardinality(queue[r]) + 1
        <3>1. /\ IsFiniteSet(queue[r] \cup {op.agreed})
              /\ \/ Cardinality(queue[r] \cup {op.agreed}) = Cardinality(queue[r])
                 \/ Cardinality(queue[r] \cup {op.agreed}) = Cardinality(queue[r]) + 1
            BY FS_AddElement
        <3>2. queue'[r] = queue[r] \cup {op.agreed} /\ Cardinality(queue[r]) \in Nat
            BY <1>0, <2>1
        <3> HIDE DEF Typing, QueueInv
        <3> QED BY <3>1, <3>2
    <2>3. stage' # "capacity"
        BY <1>3 DEF Schedule, PublishNext, Continue
    <2> QED BY <1>0, <2>1, <2>2, <2>3, BoundsAssumption
<1>4. CASE Abort \/ Restart
    BY <1>4, FS_EmptySet, BoundsAssumption DEF Abort, Restart
<1>5. CASE AgreeEntry
    BY <1>5 DEF AgreeEntry
<1>6. CASE queue' = queue /\ stage' # "capacity"
    BY <1>6
<1>7. CASE UNCHANGED <<queue, stage, arrived>>
    BY <1>7
<1>8. CASE (\E r \in Rank : BackgroundWrite(r)) \/ RemoveFile \/ UNCHANGED vars
    BY <1>7, <1>8 DEF BackgroundWrite, RemoveFile, vars
<1>9. CASE \E r \in Rank : SyncWrite(r) \/ Reload(r)
    BY <1>6, <1>9 DEF SyncWrite, Reload
<1>10. CASE Poll \/ Wait \/ Close \/ \E d \in Dir : SaveAsync(d) \/ Register(d)
    BY <1>6, <1>10 DEF Poll, Wait, Close, SaveAsync, Register, Begin
<1>11. CASE SyncCommit \/ GatherReady \/ ScheduleRefused \/ Enqueue \/ RecordEntry \/ RetireDone
            \/ Published \/ RecordFails \/ RemoveFails \/ Crash
    BY <1>6, <1>11 DEF SyncCommit, GatherReady, ScheduleRefused, Enqueue, RecordEntry,
        RetireDone, Published, RecordFails, RemoveFails, Crash, PublishNext, Continue, Raised
<1> HIDE DEF QueueInv
<1> QED BY <1>1, <1>2, <1>3, <1>4, <1>5, <1>8, <1>9, <1>10, <1>11
        DEF Next, RankStep, Collective, Done

\* max_unfinalized bounds the snapshots every rank holds in host memory,
\* whatever fails or crashes.
THEOREM QueueBounded == Spec => []BackpressureBound
<1>1. Init => Typing /\ QueueInv
    <2>1. IsFiniteSet({}) /\ Cardinality({}) = 0
        BY FS_EmptySet
    <2> QED BY <2>1, InitTyping, BoundsAssumption DEF Init, QueueInv
<1>2. (Typing /\ QueueInv) /\ [Next]_vars => (Typing /\ QueueInv)'
    BY NextTyping, QueueStep
<1>3. Typing /\ QueueInv => BackpressureBound
    BY DEF QueueInv, BackpressureBound
<1> QED BY <1>1, <1>2, <1>3, PTL DEF Spec

-----------------------------------------------------------------------------
(* Retention.                                                              *)

\* A nonempty set of entries has an oldest one.
LEMMA Oldest ==
    ASSUME NEW entries \in SUBSET Entry, entries # {}
    PROVE  \E y \in entries : \A z \in entries : y.gen =< z.gen
<1> DEFINE gens == {y.gen : y \in entries}
           less == OpToRel(<, Nat)
<1>1. gens \subseteq Nat /\ gens # {}
    BY DEF Entry, Generation
<1>2. IsWellFoundedOn(less, Nat)
    BY NatLessThanWellFounded
<1>3. \A i, j \in Nat : i < j => <<i, j>> \in less
    BY DEF OpToRel
<1> HIDE DEF less
<1>4. PICK g \in gens : \A h \in gens : ~ (<<h, g>> \in less)
    <2> HIDE DEF gens
    <2> QED BY <1>1, <1>2, WFMin
<1>5. \A h \in gens : ~ (h < g)
    BY <1>1, <1>3, <1>4
<1>6. PICK y \in entries : g = y.gen
    BY <1>4
<1>7. \A z \in entries : ~ (z.gen < y.gen)
    BY <1>5, <1>6
<1>8. \A z \in entries : z.gen \in Nat
    BY DEF Entry, Generation
<1> QED BY <1>7, <1>8

\* What the retention has nothing to remove from takes at most Slots slots:
\* every other entry is newer than the oldest of them.
LEMMA SettledSlots ==
    ASSUME NEW entries \in SUBSET Entry, IsFiniteSet(entries), Removable(entries) = {},
           \A e, f \in entries : e.gen = f.gen => e = f
    PROVE  Cardinality({e \in entries : e.dir \in RecoveryDir \ DurableDir}) =< Slots
<1> DEFINE held == {e \in entries : e.dir \in RecoveryDir \ DurableDir}
           Newer(x) == {y \in RecoveryEntries(entries) : y.gen > x.gen}
<1>1. CASE held = {}
    BY <1>1, FS_EmptySet, BoundsAssumption
<1>2. CASE held # {}
    <2>1. held \in SUBSET Entry
        OBVIOUS
    <2>2. PICK x \in held : \A z \in held : x.gen =< z.gen
        <3> HIDE DEF held
        <3> QED BY <1>2, <2>1, Oldest
    <2>3. x \in RecoveryEntries(entries) /\ x.dir \notin DurableDir
        BY DEF RecoveryEntries
    <2>4. ~ (Cardinality(Newer(x)) >= Slots)
        BY <2>3 DEF Removable
    <2>5. \A z \in entries : z.gen \in Nat
        BY DEF Entry, Generation
    <2>6. held \ {x} \subseteq Newer(x)
        BY <2>2, <2>5 DEF RecoveryEntries
    <2>7. IsFiniteSet(held) /\ IsFiniteSet(Newer(x))
        <3>1. held \subseteq entries /\ Newer(x) \subseteq entries
            BY DEF RecoveryEntries
        <3> HIDE DEF held, Newer
        <3> QED BY <3>1, FS_Subset
    <2> HIDE DEF held, Newer
    <2>8. /\ Cardinality(held \ {x}) = Cardinality(held) - 1
          /\ IsFiniteSet(held \ {x})
        BY <2>7, FS_RemoveElement
    <2>9. Cardinality(held \ {x}) =< Cardinality(Newer(x))
        BY <2>6, <2>7, FS_Subset
    <2>10. Cardinality(held) \in Nat /\ Cardinality(Newer(x)) \in Nat
        BY <2>7, FS_CardinalityType
    <2> QED BY <2>4, <2>8, <2>9, <2>10, BoundsAssumption DEF held
<1> QED BY <1>1, <1>2

\* Host memory and disk are bounded: max_unfinalized snapshots on every rank
\* and keep_recovery_slots recovery checkpoints that may be deleted.
THEOREM AlwaysBounded ==
    ASSUME RemovalSafe
    PROVE  Spec => []Bounded
<1>1. IInv => SlotsBound
    <2> SUFFICES ASSUME IInv PROVE SlotsBound
        OBVIOUS
    <2>1. /\ indexFile \in SUBSET Entry /\ IsFiniteSet(indexFile) /\ Removable(indexFile) = {}
          /\ \A e, f \in indexFile : e.gen = f.gen => e = f
        BY DEF IInv, Typing, TypeOK, DiskInv, IndexSettled, IndexKeys
    <2> QED BY <2>1, SettledSlots DEF SlotsBound
<1>2. Spec => []IInv
    BY Invariant
<1>3. Spec => []BackpressureBound
    BY QueueBounded
<1>4. SlotsBound /\ BackpressureBound => Bounded
    BY DEF Bounded
<1> QED BY <1>1, <1>2, <1>3, <1>4, PTL

-----------------------------------------------------------------------------
(* Refinement.                                                             *)

\* A nonempty set of entries has a newest one.
LEMMA Newest ==
    ASSUME NEW entries \in SUBSET Entry, entries # {}
    PROVE  \E y \in entries : \A z \in entries : z.gen =< y.gen
<1> DEFINE Age(y) == MaxGeneration - y.gen
           ages == {Age(y) : y \in entries}
           less == OpToRel(<, Nat)
<1>1. ages \subseteq Nat /\ ages # {}
    BY BoundsAssumption DEF Entry, Generation
<1>2. IsWellFoundedOn(less, Nat)
    BY NatLessThanWellFounded
<1>3. \A i, j \in Nat : i < j => <<i, j>> \in less
    BY DEF OpToRel
<1> HIDE DEF less
<1>4. PICK a \in ages : \A b \in ages : ~ (<<b, a>> \in less)
    <2> HIDE DEF ages
    <2> QED BY <1>1, <1>2, WFMin
<1>5. \A b \in ages : ~ (b < a)
    BY <1>1, <1>3, <1>4
<1>6. PICK y \in entries : a = Age(y)
    BY <1>4
<1>7. \A z \in entries : ~ (Age(z) < Age(y))
    BY <1>5, <1>6
<1>8. \A z \in entries : z.gen \in 0..MaxGeneration
    BY DEF Entry, Generation
<1> QED BY <1>6, <1>7, <1>8, BoundsAssumption

\* The retention never removes the newest recovery entry.
LEMMA NewestRetained ==
    ASSUME NEW entries \in SUBSET Entry, NEW x \in Removable(entries)
    PROVE  \E y \in entries \ Removable(entries) : y.gen > x.gen
<1> DEFINE Newer(e) == {z \in RecoveryEntries(entries) : z.gen > e.gen}
<1>1. Cardinality({}) = 0
    BY FS_EmptySet
<1>2. \A e \in Removable(entries) : Newer(e) # {}
    BY <1>1, BoundsAssumption DEF Removable
<1>3. Newer(x) # {} /\ Newer(x) \in SUBSET Entry
    BY <1>2 DEF RecoveryEntries
<1>4. PICK y \in Newer(x) : \A z \in Newer(x) : z.gen =< y.gen
    BY <1>3, Newest
<1>5. \A z \in entries : z.gen \in Nat
    BY DEF Entry, Generation
<1>6. x \in entries /\ y \in entries /\ y.gen > x.gen
    BY <1>4 DEF Removable, RecoveryEntries
<1>7. Newer(y) = {}
    BY <1>4, <1>5, <1>6 DEF RecoveryEntries
<1> QED BY <1>2, <1>6, <1>7

\* The steps that touch the disk.
LEMMA DiskSteps ==
    ASSUME Next
    PROVE  \/ UNCHANGED disk
           \/ \E r \in Rank : BackgroundWrite(r) \/ SyncWrite(r)
           \/ RecordEntry \/ RemoveFile
BY DEF Next, RankStep, Collective, Poll, Wait, Close, Abort, SaveAsync, Register, Begin,
       FinalizeLocal, AwaitCapacity, Reload, SyncCommit, GatherReady, AgreeEntry,
       ScheduleRefused, Schedule, Enqueue, RetireDone, Published, RecordFails, RemoveFails,
       Crash, Restart, Done, vars, disk, memory, control

\* What is on disk changes as the abstract store allows.
LEMMA StoreStep ==
    ASSUME IInv, IInv', [Next]_vars
    PROVE  [Store!Next]_(Store!vars)
<1> DEFINE whole == {d \in Dir : Complete(d)}
<1> USE RanksAssumption DEF IInv, Typing, TypeOK
<1>1. CASE UNCHANGED disk
    BY <1>1 DEF disk, Store!vars, Complete
<1>2. ASSUME NEW d \in Dir, NEW r \in Rank, UNCHANGED indexFile,
             shards' = [shards EXCEPT ![d] = @ \cup {r}]
      PROVE  Store!Complete(d) \/ UNCHANGED Store!vars
    <2>1. \A c \in Dir : c # d => (Complete(c)' <=> Complete(c))
        BY <1>2 DEF Complete
    <2>2. Complete(d) => Complete(d)'
        BY <1>2 DEF Complete
    <2>3. whole' = whole \/ whole' = whole \cup {d}
        BY <2>1, <2>2
    <2> QED BY <1>2, <2>3 DEF Store!Complete, Store!vars
<1>3. ASSUME NEW r \in Rank, BackgroundWrite(r) \/ SyncWrite(r)
      PROVE  [Store!Next]_(Store!vars)
    <2>1. PICK d \in Dir : UNCHANGED indexFile /\ shards' = [shards EXCEPT ![d] = @ \cup {r}]
        BY <1>3 DEF BackgroundWrite, SyncWrite, Entry, Control
    <2> QED BY <1>2, <2>1 DEF Store!Next
<1>4. CASE RemoveFile
    <2>1. PICK d \in removing, r \in Rank :
            UNCHANGED indexFile /\ shards' = [shards EXCEPT ![d] = @ \ {r}]
        BY <1>4 DEF RemoveFile
    <2>2. d \in Dir /\ d \notin Store!Named(indexFile)
        BY <1>4 DEF RemoveFile, Running, Stopped, JobInv, Retiring, Dirs, Store!Named
    <2>3. \A c \in Dir : c # d => (Complete(c)' <=> Complete(c))
        BY <2>1, <2>2 DEF Complete
    <2>4. ~ Complete(d)'
        BY <2>1, <2>2 DEF Complete
    <2>5. whole' = whole \ {d}
        BY <2>3, <2>4
    <2> QED BY <2>1, <2>2, <2>5 DEF Store!Next, Store!Discard
<1>5. CASE RecordEntry
    <2> DEFINE retired == Removable(indexFile \cup {entry})
    <2>1. /\ JobInv /\ entry \in Entry /\ Complete(entry.dir) /\ UNCHANGED shards
          /\ entry.dir \notin Dirs(index[Leader])
          /\ index[Leader] = indexFile \/ indexFile' = indexFile
        <3>1. JobInv /\ Running /\ Typing
            BY <1>5 DEF RecordEntry, Running, Stopped
        <3>2. index[Leader] = indexFile \/ indexFile' = indexFile
            BY <1>5, <3>1, Recorded
        <3> QED BY <1>5, <3>1, <3>2 DEF RecordEntry, JobInv, PublicationInv, Publishing, Control
    <2>2. CASE indexFile' = indexFile
        BY <1>1, <2>1, <2>2 DEF disk
    <2> SUFFICES ASSUME index[Leader] = indexFile PROVE [Store!Next]_(Store!vars)
        BY <2>1, <2>2
    <2>3. /\ JobInv /\ entry \in Entry /\ Complete(entry.dir)
          /\ index[Leader] = indexFile /\ entry.dir \notin Dirs(indexFile)
        BY <2>1
    <2>4. WithEntry(indexFile, entry) = indexFile \cup {entry}
        BY <2>3 DEF WithEntry, Dirs
    <2>5. indexFile' = (indexFile \cup {entry}) \ retired /\ UNCHANGED shards
        BY <1>5, <2>3, <2>4 DEF RecordEntry, Retained
    <2>6. \A x \in retired : x.dir \notin DurableDir /\ x \in indexFile \cup {entry}
        BY DEF Removable, RecoveryEntries
    <2>7. \A x \in retired : \E y \in (indexFile \cup {entry}) \ retired : y.gen > x.gen
        BY <2>3, NewestRetained
    <2>8. whole' = whole /\ entry.dir \in whole
        BY <2>3, <2>5 DEF Complete, Entry
    <2> HIDE DEF retired, whole
    <2>9. Store!Commit(entry, retired)
        BY <2>5, <2>6, <2>7, <2>8 DEF Store!Commit, Store!MayRetire, whole
    <2>10. entry \in [dir : Dir, gen : Generation] /\ retired \in SUBSET (indexFile \cup {entry})
        BY <2>3, <2>6 DEF Entry
    <2> QED BY <2>9, <2>10 DEF Store!Next
<1>6. CASE UNCHANGED vars
    BY <1>1, <1>6 DEF vars
<1> QED BY <1>1, <1>3, <1>4, <1>5, <1>6, DiskSteps

\* The manager implements the abstract store: whoever restores from the index
\* finds intact data, and the newest committed checkpoint is never given up.
THEOREM StoreImplemented ==
    ASSUME RemovalSafe
    PROVE  Spec => ImplementsStore
<1>1. Init => Store!Init
    BY RanksAssumption DEF Init, Store!Init, Complete
<1>2. IInv /\ IInv' /\ [Next]_vars => [Store!Next]_(Store!vars)
    BY StoreStep
<1>3. Spec => []IInv
    BY Invariant
<1> QED BY <1>1, <1>2, <1>3, PTL DEF Spec, ImplementsStore, Store!Spec

-----------------------------------------------------------------------------
(* A clean end.  The first job, when nothing fails.                        *)

\* Every checkpoint data on disk belongs to the index, a pending save, the
\* retention or the current operation, and the caller has named its directory.
Owned ==
    \A d \in Dir : Occupied(d) =>
        /\ d \in used
        /\ \/ d \in Dirs(indexFile) \cup Dirs(pending[Leader]) \cup removing
           \/ op.name \in {"save", "register"} /\ stage # "idle" /\ d = op.dir

\* Nothing is written for a save before it is scheduled.
Untouched == op.name = "save" /\ stage # "idle" /\ ~ Scheduled => ~ Occupied(op.dir)

\* A published directory is in the index or goes away, and no save shares it.
Handed ==
    stage \in {"retire", "reload"} =>
        /\ Occupied(entry.dir) => entry.dir \in Dirs(indexFile) \cup removing
        /\ entry.dir \notin Dirs(pending[Leader] \ {entry})
        /\ op.name = "save" => entry.dir # op.dir

\* A rank holds exactly the pending saves it has not marked.
Holding ==
    \A r \in Rank :
        /\ queue[r] \subseteq pending[r] \cup (IF Scheduled THEN {op.agreed} ELSE {})
        /\ Gens(queue[r]) \cap finalized[r] = {}
        /\ \A e \in pending[r] : e.gen \in finalized[r] \/ e \in queue[r] \cup drained[r]

\* close finalizes everything a rank holds, and publishes all of it.
Closing ==
    op.name = "close" =>
        /\ \A r \in Rank : stage # "finalize" \/ r \in arrived => queue[r] = {}
        /\ Publishing => Gens(pending[Leader]) \subseteq ready

Clean ==
    /\ stage # "raised" /\ ~ Stale
    /\ Owned /\ Untouched /\ Handed /\ Holding /\ Closing

NoOrphan == \A d \in Dir : Occupied(d) => d \in Dirs(indexFile)

CleanInv == restarts = 0 => (Running => Clean) /\ (stage = "ended" => NoOrphan)

\* What a rank finalizes is pending, so the completion never raises.
LEMMA CleanFinalize ==
    ASSUME Holding, NEW r \in Rank, FinalizeLocal(r)
    PROVE  \E s \in Finalizable(r) :
            /\ s \subseteq queue[r] /\ s \subseteq pending[r] /\ (Blocking => s = queue[r])
            /\ queue' = [queue EXCEPT ![r] = queue[r] \ s]
            /\ finalized' = [finalized EXCEPT ![r] = finalized[r] \cup Gens(s)]
            /\ arrived' = arrived \cup {r}
            /\ stage = "finalize" /\ stage' = stage
<1>1. queue[r] \subseteq pending[r]
    BY DEF Holding, FinalizeLocal, Scheduled
<1>2. \A s \in Finalizable(r) : s \subseteq queue[r]
    BY DEF Finalizable
<1> QED BY <1>1, <1>2 DEF FinalizeLocal

\* What a rank holds is pending on rank 0 too, or just scheduled.
LEMMA HeldIsPending ==
    ASSUME IInv, Running, Holding, NEW r \in Rank, NEW e \in queue[r]
    PROVE  e \in pending[Leader] \/ (Scheduled /\ e = op.agreed)
<1>1. e \in pending[r] \/ (Scheduled /\ e = op.agreed)
    BY DEF Holding
<1>2. CASE stage # "reload"
    BY <1>1, <1>2 DEF IInv, JobInv, PendingReplicas
<1>3. CASE stage = "reload" /\ e \in pending[r]
    <2>1. pending[r] \ {entry} = pending[Leader] \ {entry} /\ (r \in arrived => entry \notin pending[r])
        BY <1>3 DEF IInv, JobInv, PendingReplicas
    <2>2. r \notin arrived /\ e = entry => entry.gen \in finalized[r]
        BY <1>3 DEF IInv, JobInv, PublicationInv, Publishing
    <2>3. e.gen \notin finalized[r]
        BY DEF Holding, Gens
    <2> QED BY <1>3, <2>1, <2>2, <2>3
<1> QED BY <1>1, <1>2, <1>3

\* What enters the index or leaves it is accounted for.
LEMMA Handover ==
    ASSUME IInv, Running, ~ Stale, RecordEntry
    PROVE  Dirs(indexFile) \cup {entry.dir} \subseteq Dirs(indexFile') \cup removing'
<1> DEFINE all == WithEntry(indexFile, entry)
<1>1. /\ indexFile' = all \ Removable(all) /\ removing' = Dirs(Removable(all))
    BY DEF RecordEntry, Retained, IInv, JobInv, IndexReplicas
<1>2. Dirs(indexFile) \cup {entry.dir} \subseteq Dirs(all)
    BY DEF WithEntry, Dirs
<1> HIDE DEF all
<1> QED BY <1>1, <1>2 DEF Dirs

\* Nothing raises.
LEMMA NothingRaised ==
    ASSUME Faults = {}, IInv, IInv', Running, Running', Clean,
           NEW d \in Dir \cup {NoDir}, NEW r \in Rank, JobStep(d, r)
    PROVE  stage' # "raised" /\ ~ Stale'
<1>1. ~ Stale'
    BY StaleStep DEF IInv, Clean, RemoveFails
<1> SUFFICES stage' # "raised"
    BY <1>1
<1>2. CASE Calls(d)
    BY <1>2, DirsAssumption DEF Calls, Poll, Wait, Close, SaveAsync, Register, CallerNames, Begin,
        Clean, Owned
<1>3. CASE Marking(r)
    <2>1. CASE FinalizeLocal(r)
        BY <2>1, CleanFinalize DEF Clean
    <2> QED BY <1>3, <2>1 DEF Marking, AwaitCapacity
<1>4. CASE Agreeing
    <2>1. ~ ScheduleRefused
        BY DEF ScheduleRefused, Clean, Untouched, Scheduled, IInv, Typing, Control
    <2> QED BY <1>4, <2>1 DEF Agreeing, AgreeEntry, Enqueue, RecordFails
<1>5. CASE ~ (Calls(d) \/ Marking(r) \/ Agreeing)
    BY <1>5 DEF JobStep, Writes, BackgroundWrite, SyncWrite, SyncCommit, RemoveFile, GatherReady,
        Schedule, RecordEntry, RetireDone, Reload, Published, RemoveFails, PublishNext, Continue,
        control, Clean
<1> QED BY <1>2, <1>3, <1>4, <1>5

\* Every step leaves the data on disk owned.
LEMMA OwnedKept ==
    ASSUME Faults = {}, IInv, IInv', Running, Running', Clean,
           NEW d \in Dir \cup {NoDir}, NEW r \in Rank, JobStep(d, r)
    PROVE  Owned'
<1> USE RanksAssumption DEF IInv, Typing, TypeOK
<1>1. ASSUME UNCHANGED <<indexFile, pending, removing>>, used \subseteq used',
             \A c \in Dir : shards'[c] \subseteq shards[c],
             op.name \in {"save", "register"} /\ stage # "idle" =>
                op'.name = op.name /\ op'.dir = op.dir /\ stage' # "idle"
      PROVE  Owned'
    <2>1. \A c \in Dir : Occupied(c)' => Occupied(c)
        BY <1>1 DEF Occupied
    <2> QED BY <1>1, <2>1 DEF Clean, Owned
<1>2. CASE Calls(d)
    <2>1. stage = "idle" /\ UNCHANGED <<indexFile, pending, removing, shards>> /\ used \subseteq used'
        BY <1>2 DEF Calls, Poll, Wait, Close, SaveAsync, Register, CallerNames, Begin, Clean, disk, memory
    <2> QED BY <1>1, <2>1
<1>3. ASSUME NEW c \in Dir, UNCHANGED <<indexFile, pending, removing, used, op, stage>>,
             \E q \in Rank : shards' = [shards EXCEPT ![c] = @ \cup {q}],
             c \in used,
             c \in Dirs(pending[Leader])
                \/ (op.name \in {"save", "register"} /\ stage # "idle" /\ c = op.dir)
      PROVE  Owned'
    <2>1. \A b \in Dir : Occupied(b)' => Occupied(b) \/ b = c
        BY <1>3 DEF Occupied
    <2> QED BY <1>3, <2>1 DEF Clean, Owned
<1>4. CASE BackgroundWrite(r)
    <2>1. PICK e \in queue[r] : shards' = [shards EXCEPT ![e.dir] = @ \cup {r}]
        BY <1>4 DEF BackgroundWrite
    <2>2. e.dir \in Dir
        BY <2>1 DEF Entry
    <2>3. UNCHANGED <<indexFile, pending, removing, used, op, stage>>
        BY <1>4 DEF BackgroundWrite, memory, control
    <2>4. CASE e \in pending[Leader]
        <3>1. e.dir \in Dirs(pending[Leader]) /\ e.dir \in used
            BY <2>4 DEF JobInv, Naming, Dirs
        <3> QED BY <1>3, <2>1, <2>2, <2>3, <3>1
    <2>5. CASE Scheduled /\ e = op.agreed
        <3>1. e.dir = op.dir /\ op.name = "save" /\ stage # "idle" /\ e.dir \in used
            BY <2>5 DEF Scheduled, Control
        <3> QED BY <1>3, <2>1, <2>2, <2>3, <3>1
    <2> QED BY <2>4, <2>5, HeldIsPending DEF Clean
<1>5. CASE SyncWrite(r)
    <2>1. /\ op.name = "register" /\ stage = "syncsave" /\ op.dir \in used /\ op.dir \in Dir
          /\ shards' = [shards EXCEPT ![op.dir] = @ \cup {r}]
          /\ UNCHANGED <<indexFile, pending, removing, used, op, stage>>
        BY <1>5 DEF SyncWrite, Control, memory, control
    <2> QED BY <1>3, <2>1
<1>6. CASE SyncCommit \/ RemoveFile
    BY <1>1, <1>6 DEF SyncCommit, RemoveFile, disk, memory, control
<1>7. CASE Marking(r)
    <2>1. stage \in {"finalize", "capacity"} /\ stage' = stage
        <3>1. CASE FinalizeLocal(r)
            BY <3>1, CleanFinalize DEF Clean
        <3> QED BY <1>7, <3>1 DEF Marking, AwaitCapacity
    <2> QED BY <1>1, <1>7, <2>1 DEF Marking, FinalizeLocal, AwaitCapacity, disk
<1>8. CASE AgreeEntry
    <2>1. op'.name = op.name /\ op'.dir = op.dir /\ stage' \in {"capacity", "publish"}
        BY <1>8 DEF AgreeEntry
    <2> QED BY <1>1, <1>8, <2>1 DEF AgreeEntry, disk, memory
<1>9. CASE ScheduleRefused \/ RecordFails \/ RemoveFails
    BY <1>9, NothingRaised DEF ScheduleRefused, RecordFails, RemoveFails, Raised, Running, Stopped
<1>10. CASE Enqueue
    <2>1. /\ UNCHANGED <<shards, indexFile, removing, used>> /\ op.agreed.dir = op.dir
          /\ pending'[Leader] = pending[Leader] \cup {op.agreed}
        BY <1>10 DEF Enqueue, disk, Control
    <2> QED BY <2>1 DEF Clean, Owned, Occupied, Dirs
<1>11. CASE GatherReady \/ Schedule
    <2>1. /\ op' = op /\ (op.name \in {"save", "register"} => stage' # "idle")
          /\ UNCHANGED <<shards, indexFile, pending, removing, used>>
        BY <1>11 DEF GatherReady, Schedule, PublishNext, Continue, Control, disk, memory
    <2> QED BY <1>1, <2>1
<1>12. CASE RecordEntry
    <2>1. Dirs(indexFile) \subseteq Dirs(indexFile') \cup removing'
        BY <1>12, Handover DEF Clean
    <2>2. UNCHANGED <<shards, pending, used, op>> /\ stage = "publish" /\ stage' = "retire" /\ removing = {}
        BY <1>12 DEF RecordEntry, memory, JobInv, Retiring
    <2> QED BY <2>1, <2>2 DEF Clean, Owned, Occupied
<1>13. CASE RetireDone
    <2>1. /\ UNCHANGED <<shards, indexFile, pending, used, op>>
          /\ stage = "retire" /\ stage' = "reload" /\ \A c \in removing : ~ Occupied(c)
        BY <1>13 DEF RetireDone, disk
    <2> QED BY <2>1 DEF Clean, Owned, Occupied
<1>14. CASE Reload(r)
    <2>1. /\ UNCHANGED <<shards, indexFile, used, op, stage, removing, entry>> /\ stage = "reload"
          /\ pending'[Leader] = pending[Leader] \/ pending'[Leader] = pending[Leader] \ {entry}
        BY <1>14 DEF Reload, disk
    <2>2. Occupied(entry.dir) => entry.dir \in Dirs(indexFile) \cup removing
        BY <2>1 DEF Clean, Handed
    <2>3. \A c \in Dirs(pending[Leader]) : c \in Dirs(pending'[Leader]) \/ c = entry.dir
        BY <2>1 DEF Dirs
    <2> QED BY <2>1, <2>2, <2>3 DEF Clean, Owned, Occupied
<1>15. CASE Published
    <2>1. UNCHANGED <<shards, indexFile, pending, used, op, removing>> /\ stage = "reload"
        BY <1>15 DEF Published, disk, memory
    <2>2. CASE Registering
        <3>1. entry.dir = op.dir
            BY <2>1, <2>2 DEF JobInv, PublicationInv, Publishing, Registering, Control
        <3>2. Occupied(op.dir) => op.dir \in Dirs(indexFile) \cup removing
            BY <2>1, <3>1 DEF Clean, Handed
        <3> QED BY <2>1, <3>2 DEF Clean, Owned, Occupied
    <2>3. CASE ~ Registering
        <3>1. op.name \in {"save", "register"} => stage' # "idle"
            BY <1>15, <2>3 DEF Published, PublishNext, Continue, Registering
        <3> QED BY <1>1, <2>1, <3>1
    <2> QED BY <2>2, <2>3
<1> QED BY <1>2, <1>4, <1>5, <1>6, <1>7, <1>8, <1>9, <1>10, <1>11, <1>12, <1>13, <1>14, <1>15
        DEF JobStep, Writes, Agreeing

\* The directory of a save stays empty until the save is scheduled.
LEMMA UntouchedKept ==
    ASSUME Faults = {}, IInv, IInv', Running, Running', Clean,
           NEW d \in Dir \cup {NoDir}, NEW r \in Rank, JobStep(d, r)
    PROVE  Untouched'
<1> USE RanksAssumption DEF IInv, Typing, TypeOK
<1>1. ASSUME \A c \in Dir : shards'[c] \subseteq shards[c],
             op'.name = "save" /\ stage' # "idle" /\ ~ Scheduled' =>
                op.name = "save" /\ op'.dir = op.dir /\ stage # "idle" /\ ~ Scheduled
      PROVE  Untouched'
    <2>1. op'.name = "save" => op'.dir \in Dir
        BY DEF Control
    <2> QED BY <1>1, <2>1 DEF Clean, Untouched, Occupied
<1>2. CASE Calls(d)
    <2>1. CASE SaveAsync(d)
        <3>1. op'.dir = d /\ d \notin used /\ UNCHANGED shards /\ d \in used' /\ used' \subseteq Dir
            BY <2>1 DEF SaveAsync, CallerNames, Begin, disk
        <3> QED BY <3>1 DEF Clean, Owned, Untouched, Occupied
    <2> QED BY <1>2, <2>1 DEF Calls, Poll, Wait, Close, Register, CallerNames, Begin, Untouched
<1>3. CASE BackgroundWrite(r)
    <2>1. PICK e \in queue[r] : shards' = [shards EXCEPT ![e.dir] = @ \cup {r}]
        BY <1>3 DEF BackgroundWrite
    <2>2. UNCHANGED <<op, stage, pending>>
        BY <1>3 DEF BackgroundWrite, memory, control
    <2>3. Scheduled' <=> Scheduled
        BY <2>2 DEF Scheduled
    <2>4. op.name = "save" /\ stage # "idle" /\ ~ Scheduled => e.dir # op.dir
        <3>1. ~ Scheduled => e.dir \in Dirs(pending[Leader])
            BY HeldIsPending DEF Clean, Dirs
        <3> QED BY <3>1 DEF JobInv, OperationFresh, Fresh, Registering, Clean
    <2>5. op.name = "save" => op.dir \in Dir
        BY DEF Control
    <2> QED BY <2>1, <2>2, <2>3, <2>4, <2>5 DEF Clean, Untouched, Occupied
<1>4. CASE SyncWrite(r)
    BY <1>4 DEF SyncWrite, Control, control, Untouched
<1>5. CASE SyncCommit \/ RemoveFile
    BY <1>1, <1>5 DEF SyncCommit, RemoveFile, disk, memory, control, Scheduled
<1>6. CASE Marking(r) \/ ScheduleRefused \/ RecordFails \/ RemoveFails
    <2>1. UNCHANGED <<shards, op>> /\ ~ Scheduled
        BY <1>6 DEF Marking, FinalizeLocal, AwaitCapacity, ScheduleRefused, RecordFails, RemoveFails,
            Scheduled, disk
    <2>2. stage # "idle"
        BY <1>6 DEF Marking, FinalizeLocal, AwaitCapacity, ScheduleRefused, RecordFails, RemoveFails
    <2> QED BY <1>1, <2>1, <2>2
<1>7. CASE AgreeEntry
    BY <1>1, <1>7 DEF AgreeEntry, Scheduled, disk
<1>8. CASE Enqueue
    BY <1>8 DEF Enqueue, Untouched
<1>9. CASE GatherReady \/ Schedule
    <2>1. UNCHANGED <<shards, op>> /\ stage \in {"finalize", "capacity"}
          /\ stage' \in {"idle", "agree", "enqueue", "publish", "ended"}
        BY <1>9 DEF GatherReady, Schedule, PublishNext, Continue, disk
    <2> QED BY <1>1, <2>1 DEF Scheduled
<1>10. CASE RecordEntry \/ RetireDone \/ Reload(r)
    BY <1>1, <1>10 DEF RecordEntry, RetireDone, Reload, Scheduled, disk
<1>11. CASE Published
    <2>1. UNCHANGED <<shards, op>> /\ stage = "reload"
          /\ (op.name = "save" /\ op.agreed # NoEntry => stage' \in {"publish", "enqueue"})
        BY <1>11 DEF Published, PublishNext, Continue, disk
    <2> QED BY <1>1, <2>1 DEF Scheduled
<1> QED BY <1>2, <1>3, <1>4, <1>5, <1>6, <1>7, <1>8, <1>9, <1>10, <1>11
        DEF JobStep, Writes, Agreeing

\* A published directory is not written again, unless the index names it.
LEMMA HandedKept ==
    ASSUME Faults = {}, IInv, IInv', Running, Running', Clean,
           NEW d \in Dir \cup {NoDir}, NEW r \in Rank, JobStep(d, r)
    PROVE  Handed'
<1> USE RanksAssumption DEF IInv, Typing, TypeOK
<1>1. CASE BackgroundWrite(r) /\ stage \in {"retire", "reload"}
    <2>1. PICK e \in queue[r] : shards' = [shards EXCEPT ![e.dir] = @ \cup {r}]
        BY <1>1 DEF BackgroundWrite
    <2>2. UNCHANGED <<indexFile, op, stage, entry, pending, removing>>
        BY <1>1 DEF BackgroundWrite, memory, control
    <2>3. e.dir # entry.dir \/ e = entry
        <3>1. CASE e \in pending[Leader]
            BY <1>1, <3>1 DEF Clean, Handed, Dirs
        <3>2. CASE Scheduled /\ e = op.agreed
            BY <1>1, <3>2 DEF Clean, Handed, Scheduled, Control
        <3> QED BY <3>1, <3>2, HeldIsPending DEF Clean
    <2>4. e # entry
        <3>1. Publishing
            BY <1>1 DEF Publishing
        <3>2. CASE Registering
            <4>1. e \in pending[r]
                BY <3>2 DEF Clean, Holding, Scheduled, Registering
            <4> QED BY <3>1, <3>2, <4>1 DEF JobInv, PublicationInv
        <3>3. CASE ~ Registering /\ (stage # "reload" \/ r \notin arrived)
            <4>1. entry.gen \in finalized[r]
                BY <3>1, <3>3 DEF JobInv, PublicationInv
            <4> QED BY <4>1 DEF Clean, Holding, Gens
        <3>4. CASE stage = "reload" /\ r \in arrived
            <4>1. entry \notin pending[r]
                BY <3>4 DEF JobInv, PendingReplicas
            <4>2. Scheduled => entry.dir # op.agreed.dir
                BY <1>1 DEF Clean, Handed, Scheduled, Control
            <4> QED BY <4>1, <4>2 DEF Clean, Holding
        <3> QED BY <3>2, <3>3, <3>4
    <2>5. entry.dir \in Dir /\ e.dir \in Dir
        BY <1>1 DEF Control, Publishing, Entry
    <2>6. Occupied(entry.dir)' => Occupied(entry.dir)
        BY <2>1, <2>2, <2>3, <2>4, <2>5 DEF Occupied
    <2> QED BY <1>1, <2>2, <2>6 DEF Clean, Handed
<1>2. CASE RecordEntry
    <2>1. UNCHANGED <<pending, entry, op>> /\ stage = "publish"
          /\ entry.dir \in Dirs(indexFile') \cup removing'
        BY <1>2, Handover DEF RecordEntry, memory, Clean
    <2>2. entry.dir \notin Dirs(pending[Leader] \ {entry})
        BY <2>1 DEF JobInv, PublicationInv, Publishing, Naming, Dirs
    <2>3. op.name = "save" => entry.dir # op.dir
        <3>1. op.name = "save" => entry \in pending[Leader] /\ op.dir \notin Dirs(pending[Leader])
            BY <2>1 DEF JobInv, PublicationInv, Publishing, Registering, OperationFresh, Fresh
        <3> QED BY <3>1 DEF Dirs
    <2> QED BY <2>1, <2>2, <2>3 DEF Handed
<1>3. CASE RetireDone
    <2>1. /\ UNCHANGED <<shards, indexFile, pending, entry, op>> /\ stage = "retire"
          /\ \A c \in removing : ~ Occupied(c)
        BY <1>3 DEF RetireDone, disk
    <2> QED BY <2>1 DEF Clean, Handed, Occupied
<1>4. CASE Reload(r)
    <2>1. /\ UNCHANGED <<shards, indexFile, entry, op, removing, stage>> /\ stage = "reload"
          /\ pending'[Leader] \subseteq pending[Leader]
        BY <1>4 DEF Reload, disk
    <2> QED BY <2>1 DEF Clean, Handed, Occupied, Dirs
<1>5. CASE RemoveFile
    <2>1. /\ UNCHANGED <<indexFile, pending, entry, op, removing, stage>> /\ stage = "retire"
          /\ \A c \in Dir : shards'[c] \subseteq shards[c]
        BY <1>5 DEF RemoveFile, memory, control
    <2>2. entry.dir \in Dir
        BY <2>1 DEF Control, Publishing, Entry
    <2> QED BY <2>1, <2>2 DEF Clean, Handed, Occupied
<1>6. CASE stage' \notin {"retire", "reload"}
    BY <1>6 DEF Handed
<1>7. \/ RecordEntry \/ RetireDone \/ Reload(r) \/ RemoveFile
      \/ BackgroundWrite(r) /\ stage \in {"retire", "reload"}
      \/ stage' \notin {"retire", "reload"}
    BY DEF JobStep, Calls, Writes, Marking, Agreeing, Poll, Wait, Close, SaveAsync, Register, Begin,
           BackgroundWrite, SyncWrite, SyncCommit, FinalizeLocal, AwaitCapacity, Raised, AgreeEntry,
           ScheduleRefused, Enqueue, RecordFails, RemoveFails, GatherReady, Schedule, Published,
           PublishNext, Continue, control
<1> QED BY <1>1, <1>2, <1>3, <1>4, <1>5, <1>6, <1>7

\* A rank goes on holding exactly what it has not marked.
LEMMA HoldingKept ==
    ASSUME Faults = {}, IInv, IInv', Running, Running', Clean,
           NEW d \in Dir \cup {NoDir}, NEW r \in Rank, JobStep(d, r)
    PROVE  Holding'
<1> USE RanksAssumption
<1> DEFINE Unmarked(q) == \A e \in pending[q] : e.gen \in finalized[q] \/ e \in queue[q] \cup drained[q]
<1>0. /\ Typing /\ Typing' /\ JobInv /\ JobInv' /\ stage' # "raised"
      /\ \A q \in Rank : Unmarked(q)
    BY NothingRaised DEF IInv, Clean, Holding
<1>1. ASSUME op'.name # "close", \A q \in Rank : Unmarked(q)'
      PROVE  Holding'
    BY <1>0, <1>1 DEF Holding, JobInv, Queued
<1>2. ASSUME UNCHANGED <<pending, queue, finalized, drained>>,
             Scheduled => Scheduled' /\ op' = op
      PROVE  Holding'
    BY <1>2 DEF Clean, Holding
<1>3. CASE Calls(d)
    <2>1. /\ UNCHANGED <<pending, queue, finalized, drained>>
          /\ stage = "idle"
        BY <1>3 DEF Calls, Poll, Wait, Close, SaveAsync, Register, CallerNames, Begin, memory, Clean
    <2> QED BY <1>2, <2>1 DEF Scheduled
<1>4. CASE Writes(r)
    BY <1>2, <1>4 DEF Writes, BackgroundWrite, SyncWrite, SyncCommit, RemoveFile, memory, control, Scheduled
<1>5. CASE FinalizeLocal(r)
    <2>1. PICK s \in SUBSET queue[r] :
            /\ s \subseteq pending[r]
            /\ queue' = [queue EXCEPT ![r] = queue[r] \ s]
            /\ finalized' = [finalized EXCEPT ![r] = finalized[r] \cup Gens(s)]
            /\ stage = "finalize" /\ stage' = stage
        BY <1>5, CleanFinalize DEF Clean, Finalizable
    <2>2. UNCHANGED <<pending, drained, op>> /\ ~ Scheduled /\ ~ Scheduled'
        BY <1>5, <2>1 DEF FinalizeLocal, Scheduled
    <2>3. \A q \in Rank :
            /\ finalized'[q] = IF q = r THEN finalized[r] \cup Gens(s) ELSE finalized[q]
            /\ queue'[q] = IF q = r THEN queue[r] \ s ELSE queue[q]
        BY <1>0, <2>1 DEF Typing, TypeOK
    <2>4. queue[r] \subseteq pending[Leader]
        BY <1>0, <2>1, <2>2 DEF Clean, Holding, JobInv, PendingReplicas
    <2>5. \A x, y \in queue[r] : x.gen = y.gen => x = y
        BY <1>0, <2>4 DEF JobInv, Numbering
    <2>6. Gens(queue[r] \ s) \cap (finalized[r] \cup Gens(s)) = {}
        BY <2>1, <2>5 DEF Clean, Holding, Gens
    <2>7. \A e \in s : e.gen \in Gens(s)
        BY DEF Gens
    <2>8. \A q \in Rank : Unmarked(q)'
        BY <1>0, <2>2, <2>3, <2>7
    <2>9. \A q \in Rank : queue'[q] \subseteq pending'[q] /\ Gens(queue'[q]) \cap finalized'[q] = {}
        BY <2>2, <2>3, <2>6 DEF Clean, Holding
    <2> QED BY <2>8, <2>9 DEF Holding
<1>6. CASE AwaitCapacity(r)
    <2>1. UNCHANGED <<pending, finalized, stage, op>> /\ stage = "capacity"
        BY <1>6 DEF AwaitCapacity
    <2>2. op.name # "close"
        BY <1>0, <2>1 DEF Typing, Control
    <2>3. \A q \in Rank : queue[q] \cup drained[q] \subseteq queue'[q] \cup drained'[q]
        <3>1. CASE UNCHANGED <<queue, drained>>
            BY <3>1
        <3>2. CASE queue[r] # {} /\ drained' = [drained EXCEPT ![r] = queue[r]]
                   /\ queue' = [queue EXCEPT ![r] = {}]
            <4>1. drained[r] = {}
                BY <1>0, <2>1, <2>2, <3>2 DEF JobInv, Queued
            <4> QED BY <1>0, <3>2, <4>1 DEF Typing, TypeOK
        <3>3. Cardinality(queue[r]) >= MaxUnfinalized => queue[r] # {}
            BY FS_EmptySet, BoundsAssumption
        <3> QED BY <1>6, <3>1, <3>2, <3>3 DEF AwaitCapacity
    <2>4. \A q \in Rank : Unmarked(q)'
        BY <1>0, <2>1, <2>3
    <2> QED BY <1>1, <2>1, <2>2, <2>4
<1>7. CASE Schedule
    <2>1. /\ UNCHANGED <<pending, op>> /\ op.name = "save"
          /\ \A q \in Rank :
                /\ queue'[q] = queue[q] \cup {op.agreed}
                /\ finalized'[q] = finalized[q] \cup Gens(drained[q])
        BY <1>0, <1>7 DEF Schedule, MarkDrained, Typing, Control
    <2>2. \A q \in Rank : \A e \in drained[q] : e.gen \in finalized'[q]
        BY <2>1 DEF Gens
    <2>3. \A q \in Rank : Unmarked(q)'
        BY <1>0, <2>1, <2>2
    <2> QED BY <1>1, <2>1, <2>3
<1>8. CASE Enqueue
    <2>1. /\ UNCHANGED <<queue, finalized, drained, op>> /\ Scheduled /\ op.name = "save"
          /\ \A q \in Rank : pending'[q] = pending[q] \cup {op.agreed}
        BY <1>0, <1>8 DEF Enqueue, Scheduled, Typing, Control
    <2>2. \A q \in Rank : op.agreed \in queue[q]
        BY <1>0, <2>1 DEF JobInv, Fifo
    <2>3. \A q \in Rank : Unmarked(q)'
        BY <1>0, <2>1, <2>2
    <2> QED BY <1>1, <2>1, <2>3
<1>9. CASE AgreeEntry \/ RecordEntry \/ RetireDone
    BY <1>2, <1>9 DEF AgreeEntry, RecordEntry, RetireDone, memory, Scheduled
<1>10. CASE ScheduleRefused \/ RecordFails \/ RemoveFails
    BY <1>0, <1>10 DEF ScheduleRefused, RecordFails, RemoveFails, Raised, Running, Stopped
<1>11. CASE GatherReady
    <2>1. UNCHANGED <<pending, queue, finalized, drained>> /\ ~ Scheduled
        BY <1>11 DEF GatherReady, memory, Scheduled
    <2> QED BY <1>2, <2>1
<1>12. CASE Published
    <2>1. UNCHANGED <<pending, queue, finalized, drained, op>> /\ stage = "reload"
        BY <1>12 DEF Published, memory
    <2>2. op.name = "save" /\ op.agreed # NoEntry => stage' \in {"publish", "enqueue"}
        BY <1>12 DEF Published, PublishNext, Continue
    <2> QED BY <1>2, <2>1, <2>2 DEF Scheduled
<1>13. CASE Reload(r)
    <2>1. /\ UNCHANGED <<queue, drained, stage, op, entry>> /\ stage = "reload" /\ r \notin arrived
          /\ \A q \in Rank :
                /\ pending'[q] = IF q = r THEN pending[r] \ {entry} ELSE pending[q]
                /\ finalized'[q] = IF q = r THEN finalized[r] \ {entry.gen} ELSE finalized[q]
        BY <1>0, <1>13 DEF Reload, Typing, TypeOK
    <2>2. \A e \in pending[r] \ {entry} : e.gen # entry.gen
        <3>1. pending[r] \ {entry} \subseteq pending[Leader]
            BY <1>0, <2>1 DEF JobInv, PendingReplicas
        <3> QED BY <1>0, <2>1, <3>1 DEF JobInv, Numbering, Publishing
    <2>3. entry \notin queue[r] \/ (Scheduled /\ entry = op.agreed)
        <3>1. CASE Registering
            BY <1>0, <2>1, <3>1 DEF JobInv, PublicationInv, Publishing, Clean, Holding
        <3>2. CASE ~ Registering
            <4>1. entry.gen \in finalized[r]
                BY <1>0, <2>1, <3>2 DEF JobInv, PublicationInv, Publishing
            <4> QED BY <4>1 DEF Clean, Holding, Gens
        <3> QED BY <3>1, <3>2
    <2>4. Scheduled' <=> Scheduled
        BY <2>1 DEF Scheduled
    <2>5. \A q \in Rank : Unmarked(q)'
        BY <1>0, <2>1, <2>2
    <2>6. \A q \in Rank : /\ queue'[q] \subseteq pending'[q] \cup (IF Scheduled' THEN {op'.agreed} ELSE {})
                          /\ Gens(queue'[q]) \cap finalized'[q] = {}
        BY <2>1, <2>3, <2>4 DEF Clean, Holding
    <2> QED BY <2>5, <2>6 DEF Holding
<1> QED BY <1>3, <1>4, <1>5, <1>6, <1>7, <1>8, <1>9, <1>10, <1>11, <1>12, <1>13
        DEF JobStep, Marking, Agreeing

\* close publishes all that it finalizes, and it finalizes all there is.
LEMMA ClosingKept ==
    ASSUME Faults = {}, IInv, IInv', Running, Running', Clean,
           NEW d \in Dir \cup {NoDir}, NEW r \in Rank, JobStep(d, r)
    PROVE  Closing'
<1> USE RanksAssumption
<1>0. Typing /\ Typing' /\ JobInv /\ stage' # "raised"
    BY NothingRaised DEF IInv
<1>1. ASSUME UNCHANGED <<queue, op, ready>>, stage # "finalize", pending'[Leader] \subseteq pending[Leader],
             Publishing' => Publishing
      PROVE  Closing'
    BY <1>1 DEF Clean, Closing, Gens
<1>2. CASE Calls(d)
    BY <1>2 DEF Calls, Poll, Wait, Close, SaveAsync, Register, CallerNames, Begin, Closing, Publishing
<1>3. CASE Writes(r)
    <2>1. CASE SyncCommit
        BY <1>0, <2>1 DEF SyncCommit, Typing, Control, Closing
    <2>2. CASE ~ SyncCommit
        <3>1. UNCHANGED <<queue, op, ready, stage, arrived, pending>>
            BY <1>3, <2>2 DEF Writes, BackgroundWrite, SyncWrite, RemoveFile, memory, control
        <3> QED BY <3>1 DEF Clean, Closing, Publishing
    <2> QED BY <2>1, <2>2
<1>4. CASE FinalizeLocal(r)
    <2>1. PICK s \in SUBSET queue[r] :
            /\ Blocking => s = queue[r]
            /\ queue' = [queue EXCEPT ![r] = queue[r] \ s]
            /\ arrived' = arrived \cup {r}
            /\ stage = "finalize" /\ stage' = stage
        BY <1>4, CleanFinalize DEF Clean, Finalizable
    <2>2. op' = op
        BY <1>4 DEF FinalizeLocal
    <2>3. \A q \in Rank : queue'[q] = IF q = r THEN queue[r] \ s ELSE queue[q]
        BY <1>0, <2>1 DEF Typing, TypeOK
    <2>4. op.name = "close" => queue'[r] = {}
        BY <2>1, <2>3 DEF Blocking
    <2> QED BY <2>1, <2>2, <2>3, <2>4 DEF Clean, Closing, Publishing
<1>5. CASE AwaitCapacity(r) \/ AgreeEntry \/ ScheduleRefused \/ Enqueue \/ Schedule
    <2>1. op.name # "close"
        BY <1>0, <1>5 DEF AwaitCapacity, AgreeEntry, ScheduleRefused, Enqueue, Schedule, Typing, Control
    <2>2. op'.name = op.name
        BY <1>5 DEF AwaitCapacity, AgreeEntry, ScheduleRefused, Enqueue, Schedule
    <2> QED BY <2>1, <2>2 DEF Closing
<1>6. CASE RecordFails \/ RemoveFails
    BY <1>6 DEF RecordFails, RemoveFails
<1>7. CASE GatherReady
    <2>1. /\ UNCHANGED <<queue, pending, op>> /\ stage = "finalize" /\ arrived = Rank
          /\ ready' = GloballyReady(finalized)
        BY <1>7 DEF GatherReady, PublishNext, memory
    <2> SUFFICES ASSUME op.name = "close", NEW e \in pending[Leader]
                 PROVE  (\A q \in Rank : queue[q] = {}) /\ e.gen \in ready'
        BY <2>1 DEF Clean, Closing, Gens
    <2>2. \A q \in Rank : queue[q] = {} /\ drained[q] = {} /\ pending[q] = pending[Leader]
        BY <1>0, <2>1 DEF Clean, Closing, JobInv, Marks, PendingReplicas
    <2>3. \A q \in Rank : e.gen \in finalized[q]
        BY <2>2 DEF Clean, Holding
    <2> QED BY <2>1, <2>2, <2>3 DEF GloballyReady
<1>8. CASE RecordEntry \/ RetireDone
    BY <1>1, <1>8 DEF RecordEntry, RetireDone, memory, Publishing
<1>9. CASE Reload(r)
    <2>1. UNCHANGED <<queue, op, ready, stage>> /\ stage = "reload"
          /\ pending' = [pending EXCEPT ![r] = @ \ {entry}]
        BY <1>9 DEF Reload
    <2>2. pending'[Leader] \subseteq pending[Leader]
        BY <1>0, <2>1 DEF Typing, TypeOK
    <2> QED BY <1>1, <2>1, <2>2 DEF Publishing
<1>10. CASE Published
    <2>1. /\ UNCHANGED <<queue, pending, op>> /\ stage = "reload" /\ arrived = Rank
          /\ ready' = ready \ {entry.gen} /\ stage' # "finalize"
        BY <1>10 DEF Published, PublishNext, Continue, memory
    <2>2. \A e \in pending[Leader] : e.gen # entry.gen
        BY <1>0, <2>1 DEF JobInv, PendingReplicas, Numbering, Publishing
    <2> QED BY <2>1, <2>2 DEF Clean, Closing, Publishing, Gens
<1> QED BY <1>2, <1>3, <1>4, <1>5, <1>6, <1>7, <1>8, <1>9, <1>10 DEF JobStep, Marking, Agreeing

\* A job that ends has published everything it held.
LEMMA EndsClean ==
    ASSUME Faults = {}, IInv, Running, Clean, Next, stage' = "ended"
    PROVE  NoOrphan'
<1> USE RanksAssumption
<1>0. Typing /\ JobInv
    BY DEF IInv
<1>1. GatherReady \/ Published
    <2>1. ASSUME NEW r \in Rank, RankStep(r) PROVE FALSE
        <3>1. ~ FinalizeLocal(r)
            BY CleanFinalize DEF Clean, Running, Stopped
        <3> QED BY <2>1, <3>1 DEF RankStep, BackgroundWrite, SyncWrite, AwaitCapacity, Reload,
                control, Running, Stopped
    <2>2. ~ ScheduleRefused /\ ~ RecordFails /\ ~ RemoveFails
        BY <1>0 DEF ScheduleRefused, Raised, Typing, Control, RecordFails, RemoveFails
    <2>3. ~ Schedule
        BY <1>0 DEF Schedule, PublishNext, Continue, Typing, Control
    <2> QED BY <2>1, <2>2, <2>3 DEF Next, Collective, Poll, Wait, Close, Abort, SaveAsync, Register,
            Begin, SyncCommit, AgreeEntry, Enqueue, RecordEntry, RemoveFile, RetireDone, Crash,
            Restart, Done, control, vars, Running, Stopped
<1>2. /\ op.name = "close" /\ stage \in {"finalize", "reload"} /\ ready' = {} /\ arrived = Rank
      /\ UNCHANGED <<disk, pending>>
    BY <1>1 DEF GatherReady, Published, PublishNext, Continue, memory
<1>3. pending[Leader] = {}
    <2> SUFFICES ASSUME NEW e \in pending[Leader] PROVE FALSE
        OBVIOUS
    <2>1. CASE GatherReady
        <3>1. \A q \in Rank : queue[q] = {} /\ drained[q] = {} /\ pending[q] = pending[Leader]
            BY <1>0, <1>2, <2>1 DEF GatherReady, Clean, Closing, JobInv, Marks, PendingReplicas
        <3>2. \A q \in Rank : e.gen \in finalized[q]
            BY <3>1 DEF Clean, Holding
        <3> QED BY <1>2, <2>1, <3>2 DEF GatherReady, PublishNext, GloballyReady
    <2>2. CASE Published
        <3>1. e.gen \in ready
            BY <1>2, <2>2 DEF Published, Clean, Closing, Publishing, Gens
        <3>2. ready \ {entry.gen} = {}
            BY <1>2, <2>2 DEF Published, PublishNext
        <3>3. e.gen # entry.gen
            BY <1>0, <2>2 DEF Published, JobInv, PendingReplicas, Numbering, Publishing
        <3> QED BY <3>1, <3>2, <3>3
    <2> QED BY <1>1, <2>1, <2>2
<1>4. removing = {}
    BY <1>0, <1>2 DEF JobInv, Retiring
<1>5. \A d \in Dir : Occupied(d) => d \in Dirs(indexFile)
    BY <1>2, <1>3, <1>4 DEF Clean, Owned, Dirs
<1> QED BY <1>2, <1>5 DEF NoOrphan, Occupied, Dirs, disk

\* The first job keeps its data owned, whatever the interleaving.
LEMMA CleanStep ==
    ASSUME Faults = {}, IInv, IInv', CleanInv, [Next]_vars
    PROVE  CleanInv'
<1> USE RanksAssumption
<1>1. CASE UNCHANGED vars
    <2> USE <1>1 DEF vars, disk, memory, control
    <2>1. CleanInv' = CleanInv
        BY DEF CleanInv, Running, Clean, Stale, Owned, Untouched, Handed, Holding, Closing, NoOrphan,
               Scheduled, Publishing, Occupied
    <2> QED BY <2>1
<1> SUFFICES ASSUME Next, restarts' = 0 PROVE (Running' => Clean') /\ (stage' = "ended" => NoOrphan')
    BY <1>1 DEF CleanInv
<1>2. ~ Restart
    BY DEF Restart, IInv, Typing, TypeOK
<1>3. restarts = 0
    BY <1>2 DEF Next, RankStep, Collective, Poll, Wait, Close, Abort, SaveAsync, Register, CallerNames,
        Begin, BackgroundWrite, SyncWrite, FinalizeLocal, AwaitCapacity, Reload, SyncCommit,
        GatherReady, AgreeEntry, ScheduleRefused, Schedule, Enqueue, RecordEntry, RemoveFile,
        RetireDone, Published, RecordFails, RemoveFails, Crash, Done, vars
<1>4. CASE Running'
    <2>1. PICK d \in Dir \cup {NoDir}, r \in Rank : Running /\ JobStep(d, r)
        BY <1>2, <1>4, JobSteps
    <2>2. Clean
        BY <1>3, <2>1 DEF CleanInv
    <2>3. Clean'
        <3>1. stage' # "raised" /\ ~ Stale'
            BY <1>4, <2>1, <2>2, NothingRaised
        <3>2. Owned' /\ Untouched' /\ Handed'
            BY <1>4, <2>1, <2>2, OwnedKept, UntouchedKept, HandedKept
        <3>3. Holding' /\ Closing'
            BY <1>4, <2>1, <2>2, HoldingKept, ClosingKept
        <3> QED BY <3>1, <3>2, <3>3 DEF Clean
    <2> QED BY <1>4, <2>3 DEF Running, Stopped
<1>5. CASE stage' = "ended" /\ Running
    BY <1>3, <1>5, EndsClean DEF CleanInv, Running, Stopped
<1>6. CASE stage' = "ended" /\ ~ Running
    <2>1. UNCHANGED vars
        BY <1>2, <1>6 DEF Next, RankStep, Collective, Poll, Wait, Close, Abort, SaveAsync, Register,
            CallerNames, Begin, BackgroundWrite, SyncWrite, FinalizeLocal, AwaitCapacity, Reload,
            SyncCommit, GatherReady, AgreeEntry, ScheduleRefused, Schedule, Enqueue, RecordEntry,
            RemoveFile, RetireDone, Published, RecordFails, RemoveFails, Crash, Done, Running, Stopped
    <2>2. UNCHANGED <<shards, indexFile, stage>> /\ NoOrphan
        BY <1>3, <1>6, <2>1 DEF CleanInv, vars, disk, control
    <2> QED BY <1>6, <2>2 DEF NoOrphan, Occupied, Running, Stopped
<1> QED BY <1>4, <1>5, <1>6 DEF Running, Stopped

\* When nothing fails, a job that ends by close leaves no checkpoint data
\* outside the index: nothing is orphaned and nothing finished is forgotten.
THEOREM CleanEnd ==
    ASSUME Faults = {}
    PROVE  Spec => []CleanEndLeavesNoOrphan
<1>1. Init => CleanInv
    BY RanksAssumption DEF Init, CleanInv, Clean, Stale, Owned, Untouched, Handed, Holding, Closing, NoOrphan,
           Scheduled, Publishing, Occupied, OpIdle, Gens
<1>2. IInv /\ IInv' /\ CleanInv /\ [Next]_vars => CleanInv'
    BY CleanStep
<1>3. CleanInv => CleanEndLeavesNoOrphan
    BY DEF CleanInv, NoOrphan, CleanEndLeavesNoOrphan
<1>4. Spec => []IInv
    BY Invariant DEF RemovalSafe
<1> QED BY <1>1, <1>2, <1>3, <1>4, PTL DEF Spec
=============================================================================

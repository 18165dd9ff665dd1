------------------------ MODULE CatalogTrainingProofs ------------------------
(***************************************************************************)
(* Proofs about CatalogTraining for any catalog, policy and number of      *)
(* crashes.  The invariant says that what the loop holds and what every    *)
(* checkpoint restores are in order by the same account, that checkpoints  *)
(* get into the index in the order of the cursor they restore, and how far *)
(* behind the cursor each of them is.                                      *)
(***************************************************************************)
EXTENDS CatalogTraining, FiniteSetTheorems, TLAPS

\* The calls between the first checkpoint of a job and the end of its loop.
Resting == {"register", "head", "save", "saved"}
Trying  == {"attempt", "recover", "quarantine"}
Looping == Resting \cup Trying

Phases == {"start", "register", "head", "attempt", "recover", "quarantine", "save", "saved",
           "waiting", "closing", "done", "failed"}

Typing ==
    /\ phase \in Phases
    /\ state \in State /\ completed \in 0..MaxSteps /\ offset \in 0..Batches
    /\ ledger \in Ledger /\ retries \in Nat /\ events \in SUBSET Batch
    /\ final \in Dir \cup {NoDir}
    /\ DOMAIN content = Dir
    /\ committed \in SUBSET Entry /\ pending \in Seq(Entry)
    /\ crashes \in 0..MaxCrashes /\ async \in Modes /\ strayed \in BOOLEAN

\* The ledger quarantines a batch when its failures reach the limit.
Judged(led) == \A b \in Batch : b \in led.quarantined <=> led.failures[b] = QuarantineAfter

\* The weights hold only batches before the cursor o, unless some job strayed, and all
\* of them but the given up ones when the checkpoints are synchronous.
Trained(s, o, evs) ==
    /\ ~ strayed => s.seen \subseteq 0..(o - 1)
    /\ ~ async => s.seen = 0..(o - 1) \ evs

\* The account between two batches: events and retries are those of the ledger,
\* and nothing at or behind the cursor has failed yet.
Account(s, o, led, ret, evs) ==
    /\ evs = led.quarantined /\ ret = led.retries
    /\ Judged(led)
    /\ \A b \in Batch : b >= o => led.failures[b] = 0
    /\ Trained(s, o, evs)

Holds(snapshot) ==
    /\ snapshot \in Snapshot
    /\ Account(snapshot.state, snapshot.offset, snapshot.ledger, snapshot.retries, snapshot.events)

Saves == \A d \in Dir : Saved(d) => Holds(content[d])

\* The account while the batch at the cursor is tried.
Trial ==
    /\ completed < MaxSteps /\ offset < Batches
    /\ offset \notin events /\ events = ledger.quarantined \ {offset}
    /\ Judged(ledger)
    /\ \A b \in Batch : b > offset => ledger.failures[b] = 0
    /\ Trained(state, offset, events)
    /\ phase = "attempt" => ledger.failures[offset] < QuarantineAfter
    /\ phase = "quarantine" => ledger.failures[offset] = QuarantineAfter
    /\ ledger.retries = retries + IF phase = "recover" /\ RetryAllowed(offset, ledger.failures)
                                  THEN 1 ELSE 0

Books ==
    /\ phase = "start" =>
        /\ state = FreshState /\ completed = 0 /\ offset = 0
        /\ ledger = EmptyLedger /\ retries = 0 /\ events = {}
    /\ phase \in Resting => Account(state, offset, ledger, retries, events)
    /\ phase \in Trying => Trial
    /\ phase \in {"save", "saved"} => completed >= 1
    /\ ~ async /\ phase \in Looping => state.step = completed

\* The checkpoint the loop has just saved or restored is the state it is in.
Current ==
    phase = "register" \/ (~ async /\ phase \in Looping \ {"save"}) =>
        /\ final \in Dir /\ Saved(final)
        /\ content[final].state = state /\ content[final].offset = offset

Entries == committed \cup Queued

Newest(e, entries) == e \in entries /\ \A x \in entries : x.gen =< e.gen

\* No two entries share a directory or a generation, and the queue is in order.
Keys ==
    /\ \A e \in Entries : \A f \in Entries : e.dir = f.dir \/ e.gen = f.gen => e = f
    /\ committed \cap Queued = {}
    /\ \A i \in 1..Len(pending) : \A j \in 1..Len(pending) :
        i < j => pending[i].gen < pending[j].gen
    /\ phase = "register" => \A e \in Entries : e.dir # final

\* What the index names, or will, is on disk.  Unless a job strayed, later entries
\* restore later cursors, none of them beyond the loop's.
Ordered ==
    /\ \A e \in Entries : Saved(e.dir)
    /\ ~ strayed => \A e \in Entries : \A f \in Entries :
        e.gen =< f.gen => content[e.dir].offset =< content[f.dir].offset
    /\ ~ strayed /\ phase \notin {"start", "done", "failed"} =>
        \A e \in Entries : content[e.dir].offset =< offset

\* Only where the index has entries can a job stray from them.
Indexed ==
    /\ committed # {} => \E e \in committed : Newest(e, committed)
    /\ strayed => committed # {}
    /\ ~ async => committed = {} /\ pending = <<>>
    /\ phase = "start" => pending = <<>>

\* How many trained batches lie between an entry and the cursor: no more than the
\* saves made after it that are not published yet, and the one to be made.
Unsaved == IF phase = "save" THEN 1 ELSE 0
Behind(d, n) == Cardinality(Since(d)) =< n + Unsaved
Ages ==
    phase \in Looping =>
        /\ Len(pending) =< MaxUnfinalized
        /\ ~ strayed =>
            /\ \A i \in 1..Len(pending) : Behind(pending[i].dir, Len(pending) - i)
            /\ \A e \in committed : Newest(e, committed) =>
                \A i \in 0..Len(pending) :
                    i = 0 \/ pending[i].gen < e.gen => Behind(e.dir, Len(pending) - i)

\* While the index is empty the loop remembers where to go back to.
Fallback ==
    committed = {} /\ phase \in Looping \ {"register"} =>
        /\ final \in Dir /\ Saved(final) /\ content[final].offset =< offset
        /\ Behind(final, Len(pending))

CInv ==
    /\ Typing /\ Saves /\ Books /\ Current /\ Keys
    /\ Ordered /\ Indexed /\ Ages /\ Fallback

\* The first save of an output is that of the initial state, which stays.
Rooted == phase # "start" \/ (\E d \in Dir : Saved(d)) => Occupied(BaseDir)

-----------------------------------------------------------------------------
(* Facts about the operators of the model.                                 *)

LEMMA DirNames ==
    /\ BaseDir \in Dir /\ NoDir \notin Dir
    /\ \A n \in 1..MaxSteps : StepDir(n) \in Dir
    /\ \A n \in 1..Batches : QuarantineDir(n) \in Dir
BY CountsAssumption DEF Dir, BaseDir, NoDir, StepDir, QuarantineDir

\* What is attached to a checkpoint is a checkpoint.
LEMMA SnapshotNotAbsent ==
    ASSUME NEW x \in Snapshot PROVE x # Absent /\ x # Partial
BY DEF Snapshot, Absent, Partial

LEMMA AttachIsSnapshot ==
    ASSUME NEW s \in State, NEW o \in 0..Batches, NEW evs \in SUBSET Batch,
           ledger \in Ledger, retries \in Nat
    PROVE  Attach(s, o, evs) \in Snapshot
BY DEF Attach, Snapshot

LEMMA LatestIsNewest ==
    ASSUME Indexed, committed # {} PROVE Newest(Latest, committed)
BY DEF Indexed, Latest, Newest

LEMMA EntryTypes ==
    ASSUME Typing
    PROVE  /\ Len(pending) \in Nat /\ DOMAIN pending = 1..Len(pending)
           /\ \A i \in 1..Len(pending) : pending[i] \in Entry /\ pending[i] \in Queued
           /\ \A e \in Entries : e \in Entry /\ e.dir \in Dir /\ e.gen \in Nat
<1>1. /\ Len(pending) \in Nat /\ DOMAIN pending = 1..Len(pending)
      /\ \A i \in 1..Len(pending) : pending[i] \in Entry
  BY DEF Typing
<1>2. \A i \in 1..Len(pending) : pending[i] \in Queued
  BY <1>1 DEF Queued
<1>3. \A e \in Queued : e \in Entry
  BY <1>1 DEF Queued
<1>4. \A e \in Entries : e \in Entry
  BY <1>3 DEF Typing, Entries
<1> QED
  BY <1>1, <1>2, <1>4 DEF Entry, Gen

\* The newest of all entries is the newest committed one or the last pending one.
LEMMA SomeNewest ==
    ASSUME Typing, Keys, Indexed, Entries # {}
    PROVE  \E e \in Entries : Newest(e, Entries)
<1>1. CASE pending = <<>>
  <2>1. Queued = {} /\ Entries = committed
    BY <1>1 DEF Queued, Entries
  <2> QED
    BY <2>1 DEF Indexed
<1>2. CASE pending # <<>>
  <2> DEFINE n == Len(pending)
  <2> DEFINE q == pending[n]
  <2>1. /\ n \in Nat /\ n >= 1 /\ DOMAIN pending = 1..n
        /\ \A i \in 1..n : pending[i] \in Queued /\ pending[i].gen \in Nat
    <3>1. n # 0
      BY <1>2 DEF Typing
    <3> QED
      BY <3>1, EntryTypes DEF Entry, Gen
  <2>2. q \in Queued /\ \A x \in Queued : x.gen =< q.gen
    <3>1. q \in Queued
      BY <2>1
    <3>2. \A i \in 1..n : pending[i].gen =< pending[n].gen
      BY <2>1 DEF Keys
    <3> QED
      BY <2>1, <3>1, <3>2 DEF Queued
  <2>3. \A e \in Entries : e.gen \in Nat
    BY EntryTypes
  <2>4. CASE committed = {}
    BY <2>2, <2>4 DEF Entries, Newest
  <2>5. CASE committed # {}
    <3>1. PICK l \in committed : \A x \in committed : x.gen =< l.gen
      BY <2>5 DEF Indexed, Newest
    <3>2. q \in Entries /\ l \in Entries /\ q.gen \in Nat /\ l.gen \in Nat
      BY <2>2, <2>3, <3>1 DEF Entries
    <3>3. CASE l.gen =< q.gen
      <4>1. \A x \in Entries : x.gen =< q.gen
        BY <2>2, <2>3, <3>1, <3>2, <3>3 DEF Entries
      <4> QED
        BY <3>2, <4>1 DEF Newest
    <3>4. CASE q.gen =< l.gen
      <4>1. \A x \in Entries : x.gen =< l.gen
        BY <2>2, <2>3, <3>1, <3>2, <3>4 DEF Entries
      <4> QED
        BY <3>2, <4>1 DEF Newest
    <3> QED
      BY <3>2, <3>3, <3>4
  <2> QED
    BY <2>4, <2>5
<1> QED
  BY <1>1, <1>2

\* A generation is given once (_next_commit_generation).
LEMMA NextGenIsFresh ==
    ASSUME Typing, Keys, Indexed
    PROVE  NextGen \in Nat /\ \A e \in Entries : e.gen < NextGen
<1>1. \A e \in Entries : e.gen \in Nat
  BY EntryTypes
<1>2. CASE Entries = {}
  BY <1>2 DEF NextGen, Entries
<1>3. CASE Entries # {}
  <2> DEFINE top == CHOOSE e \in Entries : \A x \in Entries : x.gen =< e.gen
  <2>1. top \in Entries /\ \A x \in Entries : x.gen =< top.gen
    BY <1>3, SomeNewest DEF Newest
  <2>2. NextGen = 1 + top.gen
    BY <1>3 DEF NextGen, Entries
  <2> HIDE DEF top
  <2> QED
    BY <1>1, <2>1, <2>2
<1> QED
  BY <1>2, <1>3

LEMMA SinceIsFinite ==
    ASSUME Typing, NEW o \in Nat, NEW evs
    PROVE  IsFiniteSet((o..(offset - 1)) \ evs)
<1>1. IsFiniteSet(o..(offset - 1))
  BY FS_Interval DEF Typing
<1> QED
  BY <1>1, FS_Difference

-----------------------------------------------------------------------------
(* Steps that leave the disk and the queue alone.                          *)

LEMMA SavesKept ==
    ASSUME Saves, UNCHANGED <<content, async>>, strayed => strayed' PROVE Saves'
BY DEF Saves, Saved, Holds, Account, Trained, Judged

LEMMA IndexKept ==
    ASSUME CInv, UNCHANGED <<pending, disk, async, strayed>>,
           offset' \in Nat, offset' >= offset,
           phase \notin {"start", "done", "failed"}, phase' \notin {"start", "register"},
           phase' \in Looping => phase \in Looping \ {"register"}
    PROVE  Saves' /\ Keys' /\ Ordered' /\ Indexed'
<1>1. Entries' = Entries /\ Queued' = Queued
  BY DEF Entries, Queued, disk
<1>2. Saves'
  BY SavesKept DEF CInv, disk
<1>3. Keys'
  BY <1>1 DEF CInv, Keys, disk
<1>4. Ordered'
  <2>1. /\ \A e \in Entries : Saved(e.dir)' <=> Saved(e.dir)
        /\ content' = content
    BY DEF Saved, disk
  <2>2. \A e \in Entries : content[e.dir].offset \in Nat
    BY EntryTypes DEF CInv, Ordered, Saves, Holds, Snapshot
  <2> QED
    BY <1>1, <2>1, <2>2 DEF CInv, Ordered, Typing
<1>5. Indexed'
  BY DEF CInv, Indexed, Newest, disk
<1> QED
  BY <1>2, <1>3, <1>4, <1>5

LEMMA AgesKept ==
    ASSUME CInv, UNCHANGED <<pending, disk, offset, events, strayed>>,
           phase' \in Looping => phase \in Looping, phase' = "save" <=> phase = "save"
    PROVE  Ages'
<1> SUFFICES ASSUME phase' \in Looping PROVE Ages'
  BY DEF Ages
<1>1. \A d, n : Behind(d, n)' <=> Behind(d, n)
  BY DEF Behind, Since, Unsaved, disk
<1> QED
  BY <1>1 DEF CInv, Ages, Newest, disk

LEMMA FallbackKept ==
    ASSUME CInv, UNCHANGED <<pending, disk, offset, events>>,
           committed = {} => final' = final,
           phase' \in Looping \ {"register"} => phase \in Looping \ {"register"},
           phase' = "save" <=> phase = "save"
    PROVE  Fallback'
<1> SUFFICES ASSUME committed = {}, phase' \in Looping \ {"register"} PROVE Fallback'
  BY DEF Fallback, disk
<1>1. \A d, n : Behind(d, n)' <=> Behind(d, n)
  BY DEF Behind, Since, Unsaved, disk
<1> QED
  BY <1>1 DEF CInv, Fallback, Saved, disk

-----------------------------------------------------------------------------
(* The loop.                                                               *)

LEMMA LoopHeadKeeps == ASSUME CInv, LoopHead PROVE CInv'
<1>1. /\ phase = "head" /\ phase' \in {"waiting", "closing", "attempt"}
      /\ phase' = "attempt" => completed # MaxSteps /\ offset # Batches
      /\ UNCHANGED <<state, completed, offset, ledger, retries, events, final, pending, disk,
                     content, committed, crashes, async, strayed>>
  BY DEF LoopHead, job, disk
<1>2. Typing'
  BY <1>1 DEF CInv, Typing, Phases
<1>3. Books'
  <2>1. Account(state, offset, ledger, retries, events)
    BY <1>1 DEF CInv, Books, Resting
  <2>2. ASSUME phase' = "attempt" PROVE Trial'
    <3>1. offset \in Batch /\ completed < MaxSteps /\ offset < Batches /\ QuarantineAfter > 0
      BY <1>1, <2>2, CountsAssumption, PolicyAssumption DEF CInv, Typing, Batch
    <3>2. ledger.failures[offset] = 0 /\ offset \notin ledger.quarantined
      <4>1. \A b \in Batch : b >= offset => ledger.failures[b] = 0
        BY <2>1 DEF Account
      <4>2. offset >= offset
        BY DEF CInv, Typing
      <4>3. ledger.failures[offset] = 0 /\ QuarantineAfter # 0
        BY <3>1, <4>1, <4>2
      <4> QED
        BY <2>1, <3>1, <4>3 DEF Account, Judged
    <3>3. \A b \in Batch : b > offset => ledger.failures[b] = 0
      BY <2>1 DEF Account, CInv, Typing, Batch
    <3> QED
      BY <1>1, <2>1, <2>2, <3>1, <3>2, <3>3 DEF Trial, Account, Trained, Judged, CInv, Typing, Ledger
  <2> QED
    BY <1>1, <2>2 DEF CInv, Books, Resting, Trying, Looping
<1>4. Current'
  BY <1>1 DEF CInv, Current, Looping, Resting, Trying, Saved
<1>5. Saves' /\ Keys' /\ Ordered' /\ Indexed'
  BY <1>1, IndexKept DEF CInv, Typing, Looping, Resting, Trying
<1>6. Ages'
  BY <1>1, AgesKept DEF Looping, Resting, Trying
<1>7. Fallback'
  BY <1>1, FallbackKept DEF LastGood, Looping, Resting, Trying
<1> QED
  BY <1>2, <1>3, <1>4, <1>5, <1>6, <1>7 DEF CInv

LEMMA StepDoneKeeps == ASSUME CInv, StepDone PROVE CInv'
<1>1. /\ phase = "saved" /\ phase' = "head" /\ final' = LastGood
      /\ UNCHANGED <<state, completed, offset, ledger, retries, events, pending, disk,
                     content, committed, crashes, async, strayed>>
  BY DEF StepDone, disk
<1>2. Typing'
  <2>1. LastGood \in Dir \cup {NoDir}
    BY LatestIsNewest DEF CInv, LastGood, Typing, Newest, Entry
  <2> QED
    BY <1>1, <2>1 DEF CInv, Typing, Phases
<1>3. Books'
  BY <1>1 DEF CInv, Books, Resting, Trying, Looping, Account, Judged, Trained
<1>4. Current'
  BY <1>1 DEF CInv, Current, Looping, Resting, Trying, Saved, LastGood, Indexed
<1>5. Saves' /\ Keys' /\ Ordered' /\ Indexed'
  BY <1>1, IndexKept DEF CInv, Typing, Looping, Resting, Trying
<1>6. Ages'
  BY <1>1, AgesKept DEF Looping, Resting, Trying
<1>7. Fallback'
  BY <1>1, FallbackKept DEF LastGood, Looping, Resting, Trying
<1> QED
  BY <1>2, <1>3, <1>4, <1>5, <1>6, <1>7 DEF CInv
LEMMA StableKeeps == ASSUME CInv, Stable PROVE CInv'
<1>1. /\ phase = "attempt" /\ phase' = "save"
      /\ offset' = offset + 1 /\ completed' = completed + 1
      /\ state' = [step |-> completed + 1, seen |-> state.seen \cup {offset}]
      /\ UNCHANGED <<ledger, retries, events, final, pending, disk, content, committed,
                     crashes, async, strayed>>
  BY DEF Stable, disk
<1>2. Trial
  BY <1>1 DEF CInv, Books, Trying
<1>3. /\ offset \in Nat /\ offset < Batches /\ offset \in Batch /\ offset' \in 0..Batches
      /\ completed \in Nat /\ completed < MaxSteps /\ completed' \in 1..MaxSteps
  BY <1>1, <1>2, CountsAssumption DEF Trial, CInv, Typing, Batch
<1>4. Typing'
  <2>1. state' \in State
    BY <1>1, <1>3 DEF CInv, Typing, State
  <2> QED
    BY <1>1, <1>3, <2>1 DEF CInv, Typing, Phases
<1>5. Books'
  <2>1. offset \notin ledger.quarantined /\ events = ledger.quarantined
    <3>1. ledger.failures[offset] \in 0..QuarantineAfter /\ ledger.failures[offset] < QuarantineAfter
      BY <1>1, <1>2, <1>3 DEF Trial, CInv, Typing, Ledger
    <3>2. ledger.failures[offset] # QuarantineAfter
      BY <3>1, PolicyAssumption
    <3> QED
      BY <1>2, <1>3, <3>2 DEF Trial, Judged
  <2>2. ledger.retries = retries
    BY <1>1, <1>2 DEF Trial, CInv, Typing
  <2>3. \A b \in Batch : b >= offset + 1 => ledger.failures[b] = 0
    BY <1>2, <1>3 DEF Trial, Batch
  <2>4. Trained(state, offset, events)'
    <3>1. state'.seen = state.seen \cup {offset}
      BY <1>1
    <3>2. 0..(offset' - 1) = 0..(offset - 1) \cup {offset}
      BY <1>1, <1>3
    <3>3. Trained(state, offset, events)
      BY <1>2 DEF Trial
    <3>4. offset \notin events
      BY <1>2 DEF Trial
    <3> QED
      BY <1>1, <3>1, <3>2, <3>3, <3>4 DEF Trained
  <2>5. Account(state, offset, ledger, retries, events)'
    BY <1>1, <1>2, <2>1, <2>2, <2>3, <2>4 DEF Account, Trial, Judged
  <2> QED
    BY <1>1, <1>3, <2>5 DEF CInv, Books, Resting, Trying, Looping
<1>6. Current'
  BY <1>1 DEF Current, Looping, Resting, Trying
<1>7. Saves' /\ Keys' /\ Ordered' /\ Indexed'
  BY <1>1, <1>3, IndexKept DEF CInv, Typing, Looping, Resting, Trying
<1>8. Ages' /\ Fallback'
  <2>1. \A d \in Dir : \A n \in Int : Saved(d) /\ Behind(d, n) => Behind(d, n)'
    <3> SUFFICES ASSUME NEW d \in Dir, NEW n \in Int, Saved(d), Behind(d, n)
                 PROVE  Behind(d, n)'
      OBVIOUS
    <3>1. content[d].offset \in Nat
      BY DEF CInv, Saves, Holds, Snapshot
    <3>2. IsFiniteSet(Since(d)) /\ Cardinality(Since(d)) \in Nat
      BY <3>1, SinceIsFinite, FS_CardinalityType DEF CInv, Since
    <3>3. Since(d)' \subseteq Since(d) \cup {offset}
      BY <1>1, <1>3, <3>1 DEF Since
    <3>4. /\ IsFiniteSet(Since(d) \cup {offset})
          /\ Cardinality(Since(d) \cup {offset}) =< Cardinality(Since(d)) + 1
          /\ Cardinality(Since(d) \cup {offset}) \in Nat
      <4>1. /\ IsFiniteSet(Since(d) \cup {offset})
            /\ Cardinality(Since(d) \cup {offset})
                = IF offset \in Since(d) THEN Cardinality(Since(d)) ELSE Cardinality(Since(d)) + 1
        BY <3>2, FS_AddElement
      <4> QED
        BY <3>2, <4>1
    <3>5. Cardinality(Since(d)') =< Cardinality(Since(d) \cup {offset}) /\ Cardinality(Since(d)') \in Nat
      BY <3>3, <3>4, FS_Subset, FS_CardinalityType
    <3>6. Cardinality(Since(d)') =< n + 1
      BY <1>1, <3>2, <3>4, <3>5 DEF Behind, Unsaved
    <3> QED
      BY <1>1, <3>6 DEF Behind, Unsaved
  <2>2. \A e \in Entries : e.dir \in Dir /\ Saved(e.dir)
    BY EntryTypes DEF CInv, Ordered
  <2>3. Len(pending) \in Nat
    BY EntryTypes DEF CInv
  <2>4. Ages
    BY DEF CInv
  <2>5. ~ strayed => \A i \in 1..Len(pending) : Behind(pending[i].dir, Len(pending) - i)'
    BY <1>1, <2>1, <2>2, <2>3, <2>4, EntryTypes DEF CInv, Ages, Looping, Trying, Entries
  <2>6. ASSUME ~ strayed, NEW e \in committed, Newest(e, committed), NEW i \in 0..Len(pending),
               i = 0 \/ pending[i].gen < e.gen
        PROVE  Behind(e.dir, Len(pending) - i)'
    <3>1. Behind(e.dir, Len(pending) - i)
      BY <1>1, <2>4, <2>6 DEF Ages, Looping, Trying
    <3>2. e.dir \in Dir /\ Saved(e.dir) /\ Len(pending) - i \in Int
      BY <2>2, <2>3 DEF Entries
    <3> QED
      BY <1>1, <2>1, <3>1, <3>2
  <2>7. Ages'
    BY <1>1, <2>4, <2>5, <2>6 DEF Ages, Newest, Looping, Trying
  <2>8. Fallback'
    <3> SUFFICES ASSUME committed = {} PROVE Fallback'
      BY <1>1 DEF Fallback
    <3>1. /\ final \in Dir /\ Saved(final) /\ content[final].offset =< offset
          /\ Behind(final, Len(pending))
      BY <1>1 DEF CInv, Fallback, Looping, Trying
    <3>2. content[final].offset \in Nat /\ content[final].offset =< offset + 1
      BY <1>3, <3>1 DEF CInv, Saves, Holds, Snapshot
    <3> QED
      BY <1>1, <2>1, <2>3, <3>1, <3>2 DEF Fallback, Saved
  <2> QED
    BY <2>7, <2>8
<1> QED
  BY <1>4, <1>5, <1>6, <1>7, <1>8 DEF CInv
LEMMA UnstableKeeps == ASSUME CInv, Unstable PROVE CInv'
<1>1. /\ phase = "attempt" /\ phase' = "recover" /\ ledger' = Decided(offset)
      /\ UNCHANGED <<state, completed, offset, retries, events, final, pending, disk, content,
                     committed, crashes, async, strayed>>
  BY DEF Unstable, disk
<1>2. Trial
  BY <1>1 DEF CInv, Books, Trying
<1> DEFINE failed == [ledger.failures EXCEPT ![offset] = @ + 1]
<1>3. /\ offset \in Batch /\ ledger.failures \in [Batch -> 0..QuarantineAfter]
      /\ ledger.failures[offset] < QuarantineAfter /\ ledger.retries = retries /\ retries \in Nat
      /\ QuarantineAfter \in Nat
  BY <1>1, <1>2, CountsAssumption, PolicyAssumption DEF Trial, CInv, Typing, Batch, Ledger
<1>4. /\ failed \in [Batch -> 0..QuarantineAfter]
      /\ failed[offset] = ledger.failures[offset] + 1
      /\ \A b \in Batch \ {offset} : failed[b] = ledger.failures[b]
  BY <1>3
<1>5. /\ ledger'.failures = failed
      /\ ledger'.quarantined = ledger.quarantined \cup {x \in {offset} : Quarantined(x, failed)}
      /\ ledger'.retries = ledger.retries + IF RetryAllowed(offset, failed) THEN 1 ELSE 0
      /\ DOMAIN ledger' = {"failures", "quarantined", "retries"}
      /\ ledger' = [failures |-> ledger'.failures, quarantined |-> ledger'.quarantined,
                    retries |-> ledger'.retries]
  BY <1>1 DEF Decided
<1> HIDE DEF failed
<1>6. Typing'
  <2>1. ledger' \in Ledger
    BY <1>3, <1>4, <1>5 DEF Ledger, CInv, Typing
  <2> QED
    BY <1>1, <2>1 DEF CInv, Typing, Phases
<1>7. Books'
  <2>1. Judged(ledger)'
    <3>1. offset \in ledger'.quarantined <=> failed[offset] = QuarantineAfter
      <4>1. offset \notin ledger.quarantined
        BY <1>2, <1>3 DEF Trial, Judged
      <4> QED
        BY <1>3, <1>4, <1>5, <4>1 DEF Quarantined
    <3>2. \A b \in Batch \ {offset} : b \in ledger'.quarantined <=> b \in ledger.quarantined
      BY <1>5
    <3>3. \A b \in Batch \ {offset} : b \in ledger.quarantined <=> failed[b] = QuarantineAfter
      BY <1>2, <1>4 DEF Trial, Judged
    <3> QED
      BY <1>5, <3>1, <3>2, <3>3 DEF Judged
  <2>2. events = ledger'.quarantined \ {offset}
    BY <1>2, <1>5 DEF Trial
  <2>3. \A b \in Batch : b > offset => ledger'.failures[b] = 0
    BY <1>2, <1>3, <1>4, <1>5 DEF Trial, Batch
  <2>4. ledger'.retries = retries + IF RetryAllowed(offset, ledger'.failures) THEN 1 ELSE 0
    BY <1>3, <1>5
  <2>5. Trial'
    BY <1>1, <1>2, <2>1, <2>2, <2>3, <2>4 DEF Trial, Trained
  <2> QED
    BY <1>1, <2>5 DEF CInv, Books, Resting, Trying, Looping
<1>8. Current'
  BY <1>1 DEF CInv, Current, Looping, Resting, Trying, Saved
<1>9. Saves' /\ Keys' /\ Ordered' /\ Indexed'
  BY <1>1, IndexKept DEF CInv, Typing, Looping, Resting, Trying
<1>10. Ages'
  BY <1>1, AgesKept DEF Looping, Resting, Trying
<1>11. Fallback'
  BY <1>1, FallbackKept DEF LastGood, Looping, Resting, Trying
<1> QED
  BY <1>6, <1>7, <1>8, <1>9, <1>10, <1>11 DEF CInv

\* Where a rollback goes to.
LEMMA RestorePoint ==
    ASSUME CInv, phase = "recover"
    PROVE  /\ LastGood \in Dir /\ Saved(LastGood) /\ Holds(content[LastGood])
           /\ ~ strayed => content[LastGood].offset =< offset
           /\ ~ async => LastGood = final /\ content[LastGood].state = state
           /\ ~ strayed => Cardinality(Since(LastGood)) =< IF async THEN MaxUnfinalized ELSE 0
<1>1. Len(pending) \in Nat /\ MaxUnfinalized \in Nat /\ Len(pending) =< MaxUnfinalized
  BY EntryTypes, CountsAssumption DEF CInv, Ages, Looping, Trying
<1>2. ASSUME NEW d \in Dir, Saved(d), Behind(d, Len(pending))
      PROVE  Cardinality(Since(d)) =< MaxUnfinalized
  <2>1. content[d].offset \in Nat
    BY <1>2 DEF CInv, Saves, Holds, Snapshot
  <2>2. Cardinality(Since(d)) \in Nat
    BY <2>1, SinceIsFinite, FS_CardinalityType DEF CInv, Since
  <2> QED
    BY <1>1, <1>2, <2>2 DEF Behind, Unsaved
<1>3. CASE async /\ committed # {}
  <2>1. LastGood = Latest.dir /\ Newest(Latest, committed) /\ Latest \in Entries
    BY <1>3, LatestIsNewest DEF CInv, Newest, Entries, LastGood
  <2>2. Latest.dir \in Dir /\ Saved(Latest.dir)
    BY <2>1, EntryTypes DEF CInv, Ordered
  <2>3. ~ strayed => content[Latest.dir].offset =< offset
    BY <2>1 DEF CInv, Ordered
  <2>4. ~ strayed => Behind(Latest.dir, Len(pending))
    <3>1. Len(pending) - 0 = Len(pending) /\ 0 \in 0..Len(pending)
      BY <1>1
    <3>2. ~ strayed => Behind(Latest.dir, Len(pending) - 0)
      BY <2>1, <3>1 DEF CInv, Ages, Newest, Looping, Trying
    <3> QED
      BY <3>1, <3>2
  <2> QED
    BY <1>2, <1>3, <2>1, <2>2, <2>3, <2>4 DEF CInv, Saves
<1>4. CASE async /\ committed = {}
  <2>1. /\ LastGood = final /\ final \in Dir /\ Saved(final)
        /\ content[final].offset =< offset /\ Behind(final, Len(pending))
    BY <1>4 DEF CInv, Fallback, LastGood, Looping, Trying
  <2> QED
    BY <1>2, <1>4, <2>1 DEF CInv, Saves
<1>5. CASE ~ async
  <2>1. LastGood = final /\ final \in Dir /\ Saved(final)
        /\ content[final].state = state /\ content[final].offset = offset
    BY <1>5 DEF CInv, Indexed, LastGood, Current, Looping, Trying
  <2>2. Since(final) = {} /\ offset \in Nat
    BY <2>1 DEF Since, CInv, Typing
  <2> QED
    BY <1>5, <2>1, <2>2, FS_EmptySet DEF CInv, Saves
<1> QED
  BY <1>3, <1>4, <1>5

LEMMA RollbackKeeps == ASSUME CInv, Rollback PROVE CInv'
<1>1. /\ phase = "recover" /\ final' = LastGood /\ state' = content[LastGood].state
      /\ UNCHANGED <<completed, offset, ledger, events, pending, disk, content, committed,
                     crashes, async, strayed>>
  BY DEF Rollback, disk
<1>2. \/ /\ RetryAllowed(offset, ledger.failures)
         /\ phase' = "attempt" /\ retries' = ledger.retries
      \/ /\ ~ RetryAllowed(offset, ledger.failures) /\ retries' = retries
         /\ phase' \in {"quarantine", "closing"}
         /\ phase' = "quarantine" => offset \in ledger.quarantined
  BY DEF Rollback
<1>3. Trial
  BY <1>1 DEF CInv, Books, Trying
<1>4. /\ LastGood \in Dir /\ Saved(LastGood) /\ Holds(content[LastGood])
      /\ ~ strayed => content[LastGood].offset =< offset
      /\ ~ async => LastGood = final /\ content[LastGood].state = state
  BY <1>1, RestorePoint
<1>5. state' \in State
  BY <1>1, <1>4 DEF Holds, Snapshot
<1>6. Typing'
  BY <1>1, <1>2, <1>4, <1>5 DEF CInv, Typing, Phases, Ledger
<1>7. Books'
  <2>1. Trained(state, offset, events)'
    <3>1. ~ strayed => state'.seen \subseteq 0..(content[LastGood].offset - 1)
      BY <1>1, <1>4 DEF Holds, Account, Trained
    <3>2. content[LastGood].offset \in Nat /\ offset \in Nat
      BY <1>4 DEF Holds, Snapshot, CInv, Typing
    <3>3. ~ strayed => state'.seen \subseteq 0..(offset - 1)
      BY <1>4, <3>1, <3>2
    <3>4. ~ async => state' = state
      BY <1>1, <1>4
    <3> QED
      BY <1>1, <1>3, <3>3, <3>4 DEF Trained, Trial
  <2>2. phase' = "attempt" => ledger.failures[offset] < QuarantineAfter
    <3>1. offset \in Batch
      BY <1>3, CountsAssumption DEF Trial, Batch, CInv, Typing
    <3>2. ledger.failures[offset] \in Nat /\ QuarantineAfter \in Nat
      BY <3>1, PolicyAssumption DEF CInv, Typing, Ledger
    <3> QED
      BY <1>2, <3>2 DEF RetryAllowed, Quarantined
  <2>3. phase' = "quarantine" => ledger.failures[offset] = QuarantineAfter
    BY <1>2, <1>3, CountsAssumption DEF Trial, Judged, Batch, CInv, Typing
  <2>4. ledger.retries = retries' + 0
    BY <1>1, <1>2, <1>3 DEF Trial, CInv, Typing, Ledger
  <2>5. phase' # "closing" => Trial'
    BY <1>1, <1>2, <1>3, <2>1, <2>2, <2>3, <2>4 DEF Trial, Judged
  <2>6. ~ async => state'.step = completed
    BY <1>1, <1>4 DEF CInv, Books, Looping, Trying
  <2> QED
    BY <1>1, <1>2, <2>5, <2>6 DEF Books, Resting, Trying
<1>8. Current'
  BY <1>1, <1>2, <1>4 DEF CInv, Current, Looping, Resting, Trying, Saved
<1>9. Saves' /\ Keys' /\ Ordered' /\ Indexed'
  BY <1>1, <1>2, IndexKept DEF CInv, Typing, Looping, Resting, Trying
<1>10. Ages'
  BY <1>1, <1>2, AgesKept DEF Looping, Resting, Trying
<1>11. Fallback'
  BY <1>1, <1>2, FallbackKept DEF LastGood, Looping, Resting, Trying
<1> QED
  BY <1>6, <1>7, <1>8, <1>9, <1>10, <1>11 DEF CInv
LEMMA EndKeeps == ASSUME CInv, Finish \/ Fail PROVE CInv'
<1>1. /\ phase \in {"waiting", "closing"} /\ phase' \in {"done", "failed"}
      /\ final' \in {final, LastGood}
      /\ UNCHANGED <<state, completed, offset, ledger, retries, events, pending, disk, content,
                     committed, crashes, async, strayed>>
  BY DEF Finish, Fail, disk, job
<1>2. Typing'
  <2>1. LastGood \in Dir \cup {NoDir}
    BY LatestIsNewest DEF CInv, LastGood, Typing, Newest, Entry
  <2> QED
    BY <1>1, <2>1 DEF CInv, Typing, Phases
<1>3. Books' /\ Current' /\ Ages' /\ Fallback'
  BY <1>1 DEF Books, Current, Ages, Fallback, Looping, Resting, Trying
<1>4. Saves' /\ Keys' /\ Ordered' /\ Indexed'
  BY <1>1, IndexKept DEF CInv, Typing, Looping, Resting, Trying
<1> QED
  BY <1>2, <1>3, <1>4 DEF CInv

-----------------------------------------------------------------------------
(* The checkpoints.                                                        *)

LEMMA RegisteredKeeps == ASSUME CInv, Registered PROVE CInv'
<1>1. /\ phase = "register" /\ phase' = "head"
      /\ UNCHANGED <<state, completed, offset, ledger, retries, events, final, pending, content,
                     crashes, async, strayed>>
  BY DEF Registered, job
<1> DEFINE new == [dir |-> final, gen |-> NextGen]
<1>2. committed' = IF async THEN committed \cup {new} ELSE committed
  BY DEF Registered
<1>3. /\ final \in Dir /\ Saved(final) /\ content[final].offset = offset /\ offset \in Nat
      /\ \A e \in Entries : e.dir # final
  BY <1>1 DEF CInv, Current, Keys, Typing
<1>4. NextGen \in Nat /\ \A e \in Entries : e.gen < NextGen
  BY NextGenIsFresh DEF CInv
<1>5. /\ new \in Entry /\ new.dir = final /\ new.gen = NextGen
      /\ new \notin Entries
  BY <1>3, <1>4 DEF Entry, Gen
<1>6. /\ async => Entries' = Entries \cup {new} /\ committed' = committed \cup {new}
      /\ ~ async => Entries' = Entries /\ committed' = committed
      /\ Queued' = Queued
  BY <1>1, <1>2 DEF Entries, Queued
<1>7. \A e \in Entries : e.gen \in Nat /\ e.dir \in Dir
  BY EntryTypes DEF CInv
<1> HIDE DEF new
<1>8. Typing'
  BY <1>1, <1>5, <1>6 DEF CInv, Typing, Phases
<1>9. Saves'
  BY <1>1, SavesKept DEF CInv
<1>10. Books'
  BY <1>1 DEF CInv, Books, Looping, Resting, Trying, Account, Judged, Trained
<1>11. Current'
  BY <1>1 DEF CInv, Current, Looping, Resting, Trying, Saved
<1>12. Keys'
  <2>1. \A e \in Entries' : \A f \in Entries' : e.dir = f.dir \/ e.gen = f.gen => e = f
    BY <1>3, <1>4, <1>5, <1>6, <1>7 DEF CInv, Keys
  <2>2. committed' \cap Queued' = {}
    BY <1>5, <1>6 DEF CInv, Keys, Entries
  <2> QED
    BY <1>1, <2>1, <2>2 DEF CInv, Keys
<1>13. Ordered'
  <2>1. \A e \in Entries : Saved(e.dir) /\ (~ strayed => content[e.dir].offset =< offset)
    BY <1>1 DEF CInv, Ordered
  <2>2. \A e \in Entries' : Saved(e.dir)' /\ (~ strayed => content[e.dir].offset =< offset)'
    BY <1>1, <1>3, <1>5, <1>6, <2>1 DEF Saved
  <2>3. ~ strayed => \A e \in Entries : \A f \in Entries :
            e.gen =< f.gen => content[e.dir].offset =< content[f.dir].offset
    BY DEF CInv, Ordered
  <2>4. ~ strayed => \A e \in Entries' : \A f \in Entries' :
            e.gen =< f.gen => content[e.dir].offset =< content[f.dir].offset
    BY <1>3, <1>4, <1>5, <1>6, <1>7, <2>1, <2>3
  <2> QED
    BY <1>1, <2>2, <2>4 DEF Ordered
<1>14. Indexed'
  <2>1. async => Newest(new, committed')
    <3>1. \A x \in committed : x.gen =< NextGen
      BY <1>4, <1>7 DEF Entries
    <3> QED
      BY <1>4, <1>5, <1>6, <3>1 DEF Newest
  <2>2. async => committed' # {}
    BY <1>6
  <2> QED
    BY <1>1, <1>6, <2>1, <2>2 DEF CInv, Indexed, Newest
<1>15. Ages'
  <2>1. \A d, n : Behind(d, n)' <=> Behind(d, n)
    BY <1>1 DEF Behind, Since, Unsaved
  <2>2. Ages /\ Len(pending) \in Nat
    BY EntryTypes DEF CInv
  <2>3. CASE async
    <3>1. \A n \in Nat : Behind(final, n)
      <4>1. Since(final) = {}
        BY <1>3 DEF Since
      <4> QED
        BY <4>1, FS_EmptySet DEF Behind, Unsaved
    <3>2. \A e \in committed' : Newest(e, committed') => e = new
      BY <1>4, <1>5, <1>6, <1>7, <2>3 DEF Newest, Entries
    <3>3. \A i \in 0..Len(pending) : Behind(new.dir, Len(pending) - i)
      BY <1>5, <2>2, <3>1
    <3> QED
      BY <1>1, <2>1, <2>2, <3>2, <3>3 DEF Ages, Looping, Resting
  <2>4. CASE ~ async
    BY <1>1, <1>6, <2>1, <2>2, <2>4 DEF Ages, Newest, Looping, Resting
  <2> QED
    BY <2>3, <2>4
<1>16. Fallback'
  <2> SUFFICES ASSUME committed' = {} PROVE Fallback'
    BY DEF Fallback
  <2>1. ~ async /\ Len(pending) = 0
    BY <1>6 DEF CInv, Indexed
  <2>2. Since(final)' = {}
    BY <1>1, <1>3 DEF Since
  <2> QED
    BY <1>1, <1>3, <2>1, <2>2, FS_EmptySet DEF Fallback, Saved, Behind, Unsaved
<1> QED
  BY <1>16, <1>8, <1>9, <1>10, <1>11, <1>12, <1>13, <1>14, <1>15 DEF CInv

\* The queue that saves are appended to.
LEMMA AppendFacts ==
    ASSUME Typing, NEW e \in Entry, pending' = Append(pending, e)
    PROVE  /\ pending' \in Seq(Entry) /\ Len(pending') = Len(pending) + 1
           /\ \A i \in 1..Len(pending) : pending'[i] = pending[i]
           /\ pending'[Len(pending) + 1] = e
           /\ Queued' = Queued \cup {e}
<1>1. /\ Len(pending) \in Nat /\ DOMAIN pending = 1..Len(pending)
  BY EntryTypes
<1>2. /\ pending' \in Seq(Entry) /\ Len(pending') = Len(pending) + 1
      /\ \A i \in 1..Len(pending) : pending'[i] = pending[i]
      /\ pending'[Len(pending) + 1] = e
      /\ DOMAIN pending' = 1..(Len(pending) + 1)
  BY <1>1 DEF Typing
<1>3. Queued' = Queued \cup {e}
  <2>1. \A x : x \in Queued' <=> \E i \in 1..(Len(pending) + 1) : x = pending'[i]
    BY <1>2 DEF Queued
  <2>2. \A x : x \in Queued <=> \E i \in 1..Len(pending) : x = pending[i]
    BY <1>1 DEF Queued
  <2> QED
    BY <1>1, <1>2, <2>1, <2>2
<1> QED
  BY <1>2, <1>3

LEMMA TailFacts ==
    ASSUME Typing, pending # <<>>, pending' = Tail(pending)
    PROVE  /\ pending' \in Seq(Entry) /\ Len(pending) >= 1 /\ Len(pending') = Len(pending) - 1
           /\ \A i \in 1..Len(pending') : pending'[i] = pending[i + 1]
           /\ Head(pending) = pending[1]
           /\ Queued' = {pending[i] : i \in 2..Len(pending)}
<1>1. /\ Len(pending) \in Nat /\ DOMAIN pending = 1..Len(pending)
  BY EntryTypes
<1>2. /\ pending' \in Seq(Entry) /\ Len(pending) >= 1 /\ Len(pending') = Len(pending) - 1
      /\ \A i \in 1..Len(pending') : pending'[i] = pending[i + 1]
      /\ Head(pending) = pending[1]
      /\ DOMAIN pending' = 1..(Len(pending) - 1)
  BY <1>1 DEF Typing
<1>3. Queued' = {pending[i] : i \in 2..Len(pending)}
  <2>1. \A x : x \in Queued' <=> \E i \in 1..(Len(pending) - 1) : x = pending'[i]
    BY <1>2 DEF Queued
  <2>2. ASSUME NEW i \in 1..(Len(pending) - 1)
        PROVE  i + 1 \in 2..Len(pending) /\ pending'[i] = pending[i + 1]
    BY <1>1, <1>2
  <2>3. ASSUME NEW i \in 2..Len(pending)
        PROVE  i - 1 \in 1..(Len(pending) - 1) /\ pending'[i - 1] = pending[i]
    BY <1>1, <1>2
  <2>4. \A x : (\E i \in 1..(Len(pending) - 1) : x = pending'[i])
                <=> \E i \in 2..Len(pending) : x = pending[i]
    BY <2>2, <2>3
  <2> QED
    BY <2>1, <2>4
<1> QED
  BY <1>2, <1>3
\* A complete checkpoint x is written to a directory that did not exist.
LEMMA SaveFacts ==
    ASSUME CInv, NEW d \in Dir, NEW x, Holds(x), ~ Occupied(d),
           content' = [content EXCEPT ![d] = x], async' = async, strayed' = strayed
    PROVE  /\ DOMAIN content' = Dir /\ content'[d] = x /\ Saved(d)' /\ Saves'
           /\ \A y \in Dir \ {d} : content'[y] = content[y] /\ (Saved(y)' <=> Saved(y))
           /\ \A e \in Entries : e.dir \in Dir \ {d} /\ Saved(e.dir) /\ e.gen \in Nat
<1>1. /\ DOMAIN content' = Dir /\ content'[d] = x
      /\ \A y \in Dir \ {d} : content'[y] = content[y]
  BY DEF CInv, Typing
<1>2. x \notin {Absent, Partial}
  BY SnapshotNotAbsent DEF Holds
<1>3. Saved(d)' /\ \A y \in Dir \ {d} : Saved(y)' <=> Saved(y)
  BY <1>1, <1>2 DEF Saved
<1>4. \A y : Holds(y)' <=> Holds(y)
  BY DEF Holds, Account, Trained, Judged
<1>5. Saves'
  BY <1>1, <1>3, <1>4 DEF CInv, Saves
<1>6. ~ Saved(d)
  BY DEF Occupied, Saved
<1> QED
  BY <1>1, <1>3, <1>5, <1>6, EntryTypes DEF CInv, Ordered

LEMMA SaveStepKeeps == ASSUME CInv, SaveStep PROVE CInv'
<1>1. PICK d : d = StepDir(completed)
  OBVIOUS
<1>2. PICK x : x = Attach(state, offset, events)
  OBVIOUS
<1>3. PICK new : new = [dir |-> d, gen |-> NextGen]
  OBVIOUS
<1>4. /\ phase = "save" /\ phase' = "saved" /\ ~ Occupied(d) /\ ~ AtCapacity
      /\ content' = [content EXCEPT ![d] = x]
      /\ UNCHANGED <<state, completed, offset, ledger, retries, events, committed, crashes, async, strayed>>
      /\ IF async THEN pending' = Append(pending, new) /\ final' = final
                  ELSE final' = d /\ pending' = pending
  BY <1>1, <1>2, <1>3 DEF SaveStep
<1>5. d \in Dir
  BY <1>1, <1>4, DirNames, CountsAssumption DEF CInv, Books, Typing
<1>6. /\ Account(state, offset, ledger, retries, events) /\ Holds(x)
      /\ x.state = state /\ x.offset = offset /\ offset \in Nat
  <2>1. x \in Snapshot /\ Account(state, offset, ledger, retries, events)
    BY <1>2, <1>4, AttachIsSnapshot DEF CInv, Typing, Books, Resting
  <2> QED
    BY <1>2, <2>1 DEF Attach, Holds, CInv, Typing
<1>7. /\ DOMAIN content' = Dir /\ content'[d] = x /\ Saved(d)' /\ Saves'
      /\ \A y \in Dir \ {d} : content'[y] = content[y] /\ (Saved(y)' <=> Saved(y))
      /\ \A e \in Entries : e.dir \in Dir \ {d} /\ Saved(e.dir) /\ e.gen \in Nat
  BY <1>4, <1>5, <1>6, SaveFacts
<1>8. Books'
  BY <1>4, <1>6 DEF CInv, Books, Looping, Resting, Trying, Account, Judged, Trained
<1>9. NextGen \in Nat /\ \A e \in Entries : e.gen < NextGen
  BY NextGenIsFresh DEF CInv
<1>10. new \in Entry /\ new.dir = d /\ new.gen = NextGen /\ new \notin Entries
  BY <1>3, <1>5, <1>7, <1>9 DEF Entry, Gen
<1>11. CASE async
  <2>1. /\ pending' \in Seq(Entry) /\ Len(pending') = Len(pending) + 1
        /\ \A i \in 1..Len(pending) : pending'[i] = pending[i]
        /\ pending'[Len(pending) + 1] = new
        /\ Queued' = Queued \cup {new}
    BY <1>4, <1>10, <1>11, AppendFacts DEF CInv
  <2>2. Entries' = Entries \cup {new}
    BY <1>4, <2>1 DEF Entries
  <2>3. /\ Len(pending) \in Nat /\ \A i \in 1..Len(pending) : pending[i] \in Entries
    BY EntryTypes DEF CInv, Entries
  <2>4. Typing'
    BY <1>4, <1>7, <1>11, <2>1 DEF CInv, Typing, Phases
  <2>5. Current'
    BY <1>4, <1>11 DEF Current
  <2>6. Keys'
    <3>1. \A e \in Entries' : \A f \in Entries' : e.dir = f.dir \/ e.gen = f.gen => e = f
      BY <1>7, <1>9, <1>10, <2>2 DEF CInv, Keys
    <3>2. committed' \cap Queued' = {}
      BY <1>4, <1>10, <2>1 DEF CInv, Keys, Entries
    <3>3. ASSUME NEW i \in 1..Len(pending'), NEW j \in 1..Len(pending'), i < j
          PROVE  pending'[i].gen < pending'[j].gen
      <4>1. i \in 1..Len(pending)
        BY <2>1, <2>3, <3>3
      <4>2. CASE j \in 1..Len(pending)
        BY <2>1, <3>3, <4>1, <4>2 DEF CInv, Keys
      <4>3. CASE j = Len(pending) + 1
        BY <1>9, <1>10, <2>1, <2>3, <4>1, <4>3
      <4> QED
        BY <2>1, <2>3, <4>2, <4>3
    <3> QED
      BY <1>4, <3>1, <3>2, <3>3 DEF Keys
  <2>7. Ordered'
    <3>1. ~ strayed => \A e \in Entries : content[e.dir].offset =< offset
      BY <1>4 DEF CInv, Ordered
    <3>2. /\ \A e \in Entries : Saved(e.dir)' /\ content'[e.dir] = content[e.dir]
          /\ Saved(new.dir)' /\ content'[new.dir].offset = offset
      BY <1>6, <1>7, <1>10
    <3>3. offset \in Nat
      BY DEF CInv, Typing
    <3>4. ~ strayed => \A e \in Entries' : \A f \in Entries' :
              e.gen =< f.gen => content'[e.dir].offset =< content'[f.dir].offset
      BY <1>7, <1>9, <1>10, <2>2, <3>1, <3>2, <3>3 DEF CInv, Ordered
    <3>5. \A e \in Entries' : Saved(e.dir)' /\ (~ strayed => content'[e.dir].offset =< offset)
      BY <2>2, <3>1, <3>2, <3>3
    <3> QED
      BY <1>4, <3>4, <3>5 DEF Ordered
  <2>8. Indexed'
    BY <1>4, <1>11 DEF CInv, Indexed, Newest, Looping, Resting, Trying
  <2>9. Ages'
    <3>1. Ages /\ MaxUnfinalized \in Nat
      BY CountsAssumption DEF CInv
    <3>2. ASSUME NEW e \in Entries, NEW n \in Int, Behind(e.dir, n)
          PROVE  Behind(e.dir, n + 1)'
      <4>1. Since(e.dir)' = Since(e.dir)
        BY <1>4, <1>7 DEF Since
      <4> QED
        BY <1>4, <3>2, <4>1 DEF Behind, Unsaved
    <3>3. Behind(new.dir, 0)'
      <4>1. Since(new.dir)' = {}
        BY <1>4, <1>6, <1>7, <1>10 DEF Since
      <4> QED
        BY <1>4, <4>1, FS_EmptySet DEF Behind, Unsaved
    <3>4. Len(pending') =< MaxUnfinalized
      BY <1>4, <1>11, <2>1, <2>3, <3>1 DEF AtCapacity
    <3>5. ASSUME ~ strayed, NEW i \in 1..Len(pending')
          PROVE  Behind(pending[i].dir, Len(pending) - i)'
      <4>1. CASE i \in 1..Len(pending)
        <5>1. PICK e : e = pending[i]
          OBVIOUS
        <5>2. PICK n : n = Len(pending) - i
          OBVIOUS
        <5>3. e \in Entries /\ n \in Int /\ Behind(e.dir, n)
          BY <1>4, <2>3, <3>1, <3>5, <4>1, <5>1, <5>2 DEF Ages, Looping, Resting
        <5>4. pending'[i] = e /\ Len(pending') - i = n + 1
          BY <2>1, <2>3, <4>1, <5>1, <5>2
        <5> QED
          BY <3>2, <5>3, <5>4
      <4>2. CASE i = Len(pending) + 1
        <5>1. pending'[i] = new /\ Len(pending') - i = 0
          BY <2>1, <2>3, <4>2
        <5> QED
          BY <3>3, <5>1
      <4> QED
        BY <2>1, <2>3, <4>1, <4>2
    <3>6. ASSUME ~ strayed, NEW e \in committed, Newest(e, committed), NEW i \in 0..Len(pending'),
                 i = 0 \/ pending'[i].gen < e.gen
          PROVE  Behind(e.dir, Len(pending) - i)'
      <4>1. i \in 0..Len(pending)
        <5>1. i = Len(pending) + 1 => pending'[i].gen = NextGen
          BY <1>10, <2>1
        <5>2. e.gen \in Nat /\ e.gen < NextGen /\ NextGen \in Nat
          BY <1>7, <1>9 DEF Entries
        <5>3. i # Len(pending) + 1
          BY <2>3, <3>6, <5>1, <5>2
        <5> QED
          BY <2>1, <2>3, <5>3
      <4>2. i = 0 \/ pending[i].gen < e.gen
        BY <2>1, <3>6, <4>1
      <4>3. PICK n : n = Len(pending) - i
        OBVIOUS
      <4>4. e \in Entries /\ n \in Int /\ Behind(e.dir, n)
        BY <1>4, <2>3, <3>1, <3>6, <4>1, <4>2, <4>3 DEF Ages, Looping, Resting, Entries
      <4>5. Len(pending') - i = n + 1
        BY <2>1, <2>3, <4>1, <4>3
      <4> QED
        BY <3>2, <4>4, <4>5
    <3> QED
      BY <1>4, <3>4, <3>5, <3>6 DEF Ages, Newest
  <2>10. Fallback'
    <3> SUFFICES ASSUME committed = {} PROVE Fallback'
      BY <1>4 DEF Fallback
    <3>1. /\ final \in Dir /\ Saved(final) /\ content[final].offset =< offset
          /\ Behind(final, Len(pending))
      BY <1>4 DEF CInv, Fallback, Looping, Resting
    <3>2. final # d
      BY <1>4, <3>1 DEF Saved, Occupied
    <3>3. /\ final' = final /\ content'[final] = content[final] /\ Saved(final)'
          /\ Since(final)' = Since(final)
      BY <1>4, <1>7, <1>11, <3>1, <3>2 DEF Since
    <3> QED
      BY <1>4, <2>1, <2>3, <3>1, <3>3 DEF Fallback, Behind, Unsaved
  <2> QED
    BY <1>7, <1>8, <2>4, <2>5, <2>6, <2>7, <2>8, <2>9, <2>10 DEF CInv
<1>12. CASE ~ async
  <2>1. committed = {} /\ pending = <<>> /\ committed' = {} /\ pending' = <<>>
    BY <1>4, <1>12 DEF CInv, Indexed
  <2>2. Entries' = {}
    BY <2>1 DEF Entries, Queued
  <2>3. Typing'
    BY <1>4, <1>5, <1>7, <1>12, <2>1 DEF CInv, Typing, Phases
  <2>4. Current'
    BY <1>4, <1>5, <1>6, <1>7, <1>12 DEF Current
  <2>5. Keys' /\ Ordered' /\ Indexed'
    BY <1>4, <1>12, <2>1, <2>2 DEF CInv, Keys, Ordered, Indexed
  <2>6. Ages'
    BY <2>1, CountsAssumption DEF Ages
  <2>7. Fallback'
    <3>1. final' = d /\ content'[d].offset = offset /\ Since(final)' = {} /\ Len(pending') = 0
      BY <1>4, <1>6, <1>7, <1>12, <2>1 DEF Since
    <3> QED
      BY <1>4, <1>5, <1>6, <1>7, <3>1, FS_EmptySet DEF Fallback, Behind, Unsaved
  <2> QED
    BY <1>7, <1>8, <2>3, <2>4, <2>5, <2>6, <2>7 DEF CInv
<1> QED
  BY <1>11, <1>12
LEMMA QuarantineKeeps == ASSUME CInv, Quarantine PROVE CInv'
<1>1. PICK d : d = QuarantineDir(offset + 1)
  OBVIOUS
<1>2. PICK x : x = Attach(state, offset + 1, events \cup {offset})
  OBVIOUS
<1>3. /\ phase = "quarantine"
      /\ UNCHANGED <<state, completed, ledger, retries, pending, committed, crashes, async, strayed>>
      /\ IF Occupied(d) THEN phase' = "closing" /\ UNCHANGED <<content, events, offset, final>>
         ELSE /\ content' = [content EXCEPT ![d] = x] /\ events' = events \cup {offset}
              /\ offset' = offset + 1 /\ final' = d /\ phase' = "register"
  BY <1>1, <1>2 DEF Quarantine
<1>4. Trial
  BY <1>3 DEF CInv, Books, Trying
<1>5. /\ offset \in Nat /\ offset < Batches /\ offset \in Batch /\ offset + 1 \in 1..Batches
      /\ Batches \in Nat /\ completed \in 0..MaxSteps
  BY <1>4, CountsAssumption DEF Trial, CInv, Typing, Batch
<1>6. d \in Dir
  BY <1>1, <1>5, DirNames
<1>7. CASE Occupied(d)
  <2>1. phase' = "closing" /\ UNCHANGED <<content, events, offset, final>>
    BY <1>3, <1>7
  <2>2. Typing'
    BY <1>3, <2>1 DEF CInv, Typing, Phases
  <2>3. Books' /\ Current' /\ Ages' /\ Fallback'
    BY <2>1 DEF Books, Current, Ages, Fallback, Looping, Resting, Trying
  <2>4. Saves' /\ Keys' /\ Ordered' /\ Indexed'
    BY <1>3, <2>1, IndexKept DEF CInv, Typing, Looping, Resting, Trying, disk
  <2> QED
    BY <2>2, <2>3, <2>4 DEF CInv
<1>8. CASE ~ Occupied(d)
  <2>1. /\ content' = [content EXCEPT ![d] = x] /\ events' = events \cup {offset}
        /\ offset' = offset + 1 /\ final' = d /\ phase' = "register"
    BY <1>3, <1>8
  <2>2. Account(state, offset', ledger, retries, events')
    <3>1. events' = ledger.quarantined
      <4>1. offset \in ledger.quarantined
        BY <1>3, <1>4, <1>5 DEF Trial, Judged
      <4> QED
        BY <1>4, <2>1, <4>1 DEF Trial
    <3>2. retries = ledger.retries
      BY <1>3, <1>4 DEF Trial, CInv, Typing
    <3>3. \A b \in Batch : b >= offset' => ledger.failures[b] = 0
      BY <1>4, <1>5, <2>1 DEF Trial, Batch
    <3>4. Trained(state, offset', events')
      <4>1. 0..(offset' - 1) = 0..(offset - 1) \cup {offset}
        BY <1>5, <2>1
      <4>2. 0..(offset' - 1) \ events' = 0..(offset - 1) \ events
        <5>1. offset \notin 0..(offset - 1)
          BY <1>5
        <5> QED
          BY <2>1, <4>1, <5>1
      <4> QED
        BY <1>4, <4>1, <4>2 DEF Trial, Trained
    <3> QED
      BY <1>4, <3>1, <3>2, <3>3, <3>4 DEF Account, Trial
  <2>3. events' \in SUBSET Batch /\ offset' \in 0..Batches
    BY <1>5, <2>1 DEF CInv, Typing
  <2>4. Holds(x) /\ x.state = state /\ x.offset = offset'
    <3>1. x \in Snapshot
      BY <1>2, <2>1, <2>3, AttachIsSnapshot DEF CInv, Typing
    <3> QED
      BY <1>2, <2>1, <2>2, <3>1 DEF Attach, Holds
  <2>5. /\ DOMAIN content' = Dir /\ content'[d] = x /\ Saved(d)' /\ Saves'
        /\ \A y \in Dir \ {d} : content'[y] = content[y] /\ (Saved(y)' <=> Saved(y))
        /\ \A e \in Entries : e.dir \in Dir \ {d} /\ Saved(e.dir) /\ e.gen \in Nat
    BY <1>3, <1>6, <1>8, <2>1, <2>4, SaveFacts
  <2>6. Entries' = Entries /\ Queued' = Queued
    BY <1>3 DEF Entries, Queued
  <2>7. Typing'
    BY <1>3, <1>6, <2>1, <2>3, <2>5 DEF CInv, Typing, Phases
  <2>8. Books'
    BY <1>3, <2>1, <2>2 DEF CInv, Books, Looping, Resting, Trying, Account, Judged, Trained
  <2>9. Current'
    BY <1>3, <1>6, <2>1, <2>4, <2>5 DEF Current
  <2>10. Keys'
    BY <1>3, <2>1, <2>5, <2>6 DEF CInv, Keys
  <2>11. Ordered'
    <3>1. \A e \in Entries :
            (~ strayed => content[e.dir].offset =< offset) /\ content[e.dir].offset \in Nat
      BY <1>3, <2>5 DEF CInv, Ordered, Saves, Holds, Snapshot
    <3>2. /\ \A e \in Entries : Saved(e.dir)' /\ content'[e.dir] = content[e.dir]
          /\ strayed' = strayed /\ offset' = offset + 1
      BY <1>3, <2>1, <2>5
    <3>3. ~ strayed => \A e \in Entries : \A f \in Entries :
            e.gen =< f.gen => content[e.dir].offset =< content[f.dir].offset
      BY DEF CInv, Ordered
    <3>4. ASSUME ~ strayed, NEW e \in Entries PROVE content[e.dir].offset =< offset + 1
      BY <1>5, <3>1, <3>4
    <3> QED
      BY <2>6, <3>2, <3>3, <3>4 DEF Ordered
  <2>12. Indexed'
    BY <1>3, <2>1 DEF CInv, Indexed, Newest, Looping
  <2>13. Ages'
    <3>1. ASSUME NEW e \in Entries, NEW n PROVE Behind(e.dir, n)' <=> Behind(e.dir, n)
      <4>1. content'[e.dir] = content[e.dir] /\ content[e.dir].offset \in Nat
        BY <2>5 DEF CInv, Saves, Holds, Snapshot
      <4>2. Since(e.dir)' = Since(e.dir)
        BY <1>5, <2>1, <4>1 DEF Since
      <4> QED
        BY <1>3, <2>1, <4>2 DEF Behind, Unsaved
    <3>2. /\ \A i \in 1..Len(pending) : pending[i] \in Entries
          /\ \A e \in committed : e \in Entries
      BY EntryTypes DEF CInv, Entries
    <3>3. Ages /\ phase \in Looping
      BY <1>3 DEF CInv, Looping, Trying
    <3>4. ~ strayed => \A i \in 1..Len(pending) : Behind(pending[i].dir, Len(pending) - i)'
      BY <1>3, <3>1, <3>2, <3>3 DEF Ages
    <3> QED
      BY <1>3, <3>1, <3>2, <3>3, <3>4 DEF Ages, Newest
  <2>14. Fallback'
    BY <2>1 DEF Fallback
  <2> QED
    BY <2>14, <2>5, <2>7, <2>8, <2>9, <2>10, <2>11, <2>12, <2>13 DEF CInv
<1> QED
  BY <1>7, <1>8

\* An exception on the way into the queue.
LEMMA SaveRefusedKeeps == ASSUME CInv, SaveRefused PROVE CInv'
<1>1. /\ phase = "save" /\ phase' = "closing" /\ pending' \in {pending, <<>>}
      /\ UNCHANGED <<state, completed, offset, ledger, retries, events, final, content, committed,
                     crashes, async, strayed>>
  BY DEF SaveRefused, job, disk
<1>2. Typing'
  <2>1. pending' \in Seq(Entry)
    <3>1. <<>> \in Seq(Entry)
      OBVIOUS
    <3> QED
      BY <1>1, <3>1 DEF CInv, Typing
  <2> QED
    BY <1>1, <2>1 DEF CInv, Typing, Phases
<1>3. Books' /\ Current' /\ Ages' /\ Fallback'
  BY <1>1 DEF Books, Current, Ages, Fallback, Looping, Resting, Trying
<1>4. CASE pending' = pending
  <2>1. Saves' /\ Keys' /\ Ordered' /\ Indexed'
    BY <1>1, <1>4, IndexKept DEF CInv, Typing, Looping, Resting, Trying, disk
  <2> QED
    BY <1>2, <1>3, <2>1 DEF CInv
<1>5. CASE pending' = <<>>
  <2>1. Queued' = {} /\ Entries' = committed
    BY <1>1, <1>5 DEF Queued, Entries
  <2>2. Entries' \subseteq Entries
    BY <2>1 DEF Entries
  <2>3. Saves'
    BY <1>1, SavesKept DEF CInv
  <2>4. Keys'
    BY <1>1, <1>5, <2>1, <2>2 DEF CInv, Keys
  <2>5. Ordered'
    BY <1>1, <2>2 DEF CInv, Ordered, Saved
  <2>6. Indexed'
    BY <1>1, <1>5 DEF CInv, Indexed, Newest, Looping, Resting, Trying
  <2> QED
    BY <1>2, <1>3, <2>3, <2>4, <2>5, <2>6 DEF CInv
<1> QED
  BY <1>1, <1>4, <1>5
LEMMA PublishKeeps == ASSUME CInv, Publish PROVE CInv'
<1>1. /\ phase \in {"register", "recover", "save", "saved", "waiting", "closing"}
      /\ pending # <<>> /\ pending' = Tail(pending)
      /\ UNCHANGED <<phase, state, completed, offset, ledger, retries, events, final, crashes, async, strayed>>
  BY DEF Publish, job
<1>2. PICK e : e = Head(pending)
  OBVIOUS
<1>3. PICK retired \in SUBSET (committed \cup {e}) :
        /\ Store!MayRetire(e, retired)
        /\ committed' = (committed \cup {e}) \ retired
        /\ content' = [d \in Dir |-> IF d \in Store!Named(retired) THEN Absent ELSE content[d]]
  BY <1>2 DEF Publish
<1>4. /\ pending' \in Seq(Entry) /\ Len(pending) >= 1 /\ Len(pending') = Len(pending) - 1
      /\ \A i \in 1..Len(pending') : pending'[i] = pending[i + 1]
      /\ Len(pending) \in Nat /\ DOMAIN pending = 1..Len(pending)
      /\ e = pending[1]
      /\ Queued' = {pending[i] : i \in 2..Len(pending)}
  BY <1>1, <1>2, TailFacts, EntryTypes DEF CInv
<1>5. async /\ \A x \in Entries : x \in Entry /\ x.dir \in Dir /\ x.gen \in Nat /\ Saved(x.dir)
  BY <1>1, EntryTypes DEF CInv, Indexed, Ordered
<1>6. /\ e \in Queued /\ e \in Entries /\ e \notin committed
      /\ \A i \in 1..Len(pending) : pending[i] \in Queued
  BY <1>4, EntryTypes DEF CInv, Keys, Entries
<1>7. \A q \in Queued' : q \in Queued /\ q.gen > e.gen /\ q # e /\ q \notin committed
  <2>1. ASSUME NEW i \in 2..Len(pending)
        PROVE  pending[i] \in Queued /\ pending[i].gen > e.gen
    <3>1. 1 \in 1..Len(pending) /\ i \in 1..Len(pending) /\ 1 < i
      BY <1>4
    <3>2. pending[1].gen < pending[i].gen
      BY <3>1 DEF CInv, Keys
    <3>3. pending[i] \in Queued /\ pending[i].gen \in Nat /\ pending[1].gen \in Nat
      BY <1>4, <1>5, <1>6, <3>1 DEF Entries
    <3> QED
      BY <1>4, <3>2, <3>3
  <2>2. \A q \in Queued' : q \in Queued /\ q.gen > e.gen
    BY <1>4, <2>1
  <2>3. e.gen \in Nat
    BY <1>5, <1>6
  <2> QED
    BY <2>2, <2>3 DEF CInv, Keys
<1>8. Entries' = Entries \ retired /\ retired \subseteq Entries
  <2>1. Entries = committed \cup {e} \cup Queued'
    <3>1. \A q \in Queued : q = e \/ q \in Queued'
      <4>1. ASSUME NEW i \in 1..Len(pending) PROVE pending[i] = e \/ pending[i] \in Queued'
        BY <1>4
      <4> QED
        BY <1>4, <4>1 DEF Queued
    <3> QED
      BY <1>6, <1>7, <3>1 DEF Entries
  <2>2. \A q \in Queued' : q \notin retired
    BY <1>3, <1>7
  <2> QED
    BY <1>3, <2>1, <2>2 DEF Entries
<1>9. /\ \A x \in Entries' : content'[x.dir] = content[x.dir] /\ Saved(x.dir)'
      /\ phase = "register" => content'[final] = content[final]
  <2>1. ASSUME NEW x \in Entries' PROVE x.dir \notin Store!Named(retired)
    BY <1>8, <2>1 DEF Store!Named, CInv, Keys
  <2>2. \A x \in Entries' : content'[x.dir] = content[x.dir]
    BY <1>3, <1>5, <1>8, <2>1
  <2>3. phase = "register" => final \in Dir /\ final \notin Store!Named(retired)
    BY <1>8 DEF CInv, Keys, Current, Store!Named
  <2> QED
    BY <1>3, <1>5, <1>8, <2>2, <2>3 DEF Saved
<1>10. Typing'
  <2>1. committed' \in SUBSET Entry
    BY <1>3, <1>5, <1>6 DEF CInv, Typing
  <2> QED
    BY <1>1, <1>3, <1>4, <2>1 DEF CInv, Typing
<1>11. Saves'
  <2>1. ASSUME NEW d \in Dir, Saved(d)' PROVE Holds(content[d])'
    <3>1. content'[d] = content[d] /\ Saved(d)
      BY <1>3, <2>1 DEF Saved
    <3> QED
      BY <1>1, <3>1 DEF CInv, Saves, Holds, Account, Trained, Judged
  <2> QED
    BY <2>1 DEF Saves
<1>12. Books'
  BY <1>1 DEF CInv, Books, Trial, Account, Judged, Trained
<1>13. Current'
  BY <1>1, <1>5, <1>9 DEF CInv, Current, Saved
<1>14. Keys'
  <2>1. committed' \cap Queued' = {}
    BY <1>3, <1>7
  <2>2. ASSUME NEW i \in 1..Len(pending'), NEW j \in 1..Len(pending'), i < j
        PROVE  pending'[i].gen < pending'[j].gen
    <3>1. /\ i + 1 \in 1..Len(pending) /\ j + 1 \in 1..Len(pending) /\ i + 1 < j + 1
          /\ pending'[i] = pending[i + 1] /\ pending'[j] = pending[j + 1]
      BY <1>4, <2>2
    <3> QED
      BY <3>1 DEF CInv, Keys
  <2> QED
    BY <1>1, <1>8, <2>1, <2>2 DEF CInv, Keys
<1>15. Ordered'
  BY <1>1, <1>8, <1>9 DEF CInv, Ordered
<1>16. committed' # {} /\ \E t \in committed' : Newest(t, committed \cup {e})
  <2>1. \E t \in committed \cup {e} : Newest(t, committed \cup {e})
    <3>1. CASE committed = {}
      BY <1>5, <1>6, <3>1 DEF Newest
    <3>2. CASE committed # {}
      <4>1. PICK l \in committed : \A x \in committed : x.gen =< l.gen
        BY <3>2 DEF CInv, Indexed, Newest
      <4>2. l.gen \in Nat /\ e.gen \in Nat /\ \A x \in committed : x.gen \in Nat
        BY <1>5, <1>6 DEF Entries
      <4>3. CASE l.gen =< e.gen
        BY <4>1, <4>2, <4>3 DEF Newest
      <4>4. CASE e.gen =< l.gen
        BY <4>1, <4>2, <4>4 DEF Newest
      <4> QED
        BY <4>2, <4>3, <4>4
    <3> QED
      BY <3>1, <3>2
  <2>2. PICK t \in committed \cup {e} : Newest(t, committed \cup {e})
    BY <2>1
  <2>3. t \notin retired
    <3>1. SUFFICES ASSUME t \in retired PROVE FALSE
      OBVIOUS
    <3>2. PICK y \in (committed \cup {e}) \ retired : y.gen > t.gen
      BY <1>3, <3>1 DEF Store!MayRetire
    <3>3. y.gen =< t.gen /\ y.gen \in Nat /\ t.gen \in Nat
      BY <1>5, <1>6, <2>2, <3>2 DEF Newest, Entries
    <3> QED
      BY <3>2, <3>3
  <2> QED
    BY <1>3, <2>2, <2>3
<1>17. Indexed'
  BY <1>1, <1>3, <1>5, <1>16 DEF Indexed, Newest
<1>18. Ages'
  <2> SUFFICES ASSUME phase \in Looping PROVE Ages'
    BY <1>1 DEF Ages
  <2>1. ASSUME NEW x \in Entries', NEW n PROVE Behind(x.dir, n)' <=> Behind(x.dir, n)
    BY <1>1, <1>9 DEF Behind, Since, Unsaved
  <2>2. Ages
    BY DEF CInv
  <2>3. ASSUME ~ strayed, NEW i \in 1..Len(pending')
        PROVE  Behind(pending[i].dir, Len(pending) - i)'
    <3>1. i + 1 \in 1..Len(pending) /\ pending'[i] = pending[i + 1]
      BY <1>4
    <3>2. pending[i + 1] \in Entries'
      <4>1. i + 1 \in 2..Len(pending)
        BY <1>4, <3>1
      <4> QED
        BY <1>4, <4>1 DEF Entries
    <3>3. Behind(pending[i + 1].dir, Len(pending) - (i + 1))
      BY <2>2, <2>3, <3>1 DEF Ages
    <3>4. Len(pending') - i = Len(pending) - (i + 1)
      BY <1>4
    <3>5. PICK x : x = pending[i + 1]
      OBVIOUS
    <3>6. PICK n : n = Len(pending) - (i + 1)
      OBVIOUS
    <3> QED
      BY <2>1, <3>1, <3>2, <3>3, <3>4, <3>5, <3>6
  <2>4. ASSUME ~ strayed, NEW t \in committed', Newest(t, committed'), NEW i \in 0..Len(pending'),
               i = 0 \/ pending'[i].gen < t.gen
        PROVE  Behind(t.dir, Len(pending) - i)'
    <3>1. Newest(t, committed \cup {e}) /\ t \in Entries'
      <4>1. PICK u \in committed' : Newest(u, committed \cup {e})
        BY <1>16
      <4>2. u.gen =< t.gen
        BY <2>4, <4>1 DEF Newest
      <4>3. \A x \in committed \cup {e} : x.gen =< u.gen /\ x.gen \in Nat
        BY <1>5, <1>6, <4>1 DEF Newest, Entries
      <4>4. u \in committed \cup {e} /\ t \in committed \cup {e}
        BY <1>3, <4>1
      <4>5. \A x \in committed \cup {e} : x.gen =< t.gen
        BY <4>2, <4>3, <4>4
      <4> QED
        BY <4>4, <4>5 DEF Newest, Entries
    <3>2. Behind(t.dir, Len(pending) - (i + 1))
      <4>1. CASE t = e
        <5>1. i = 0
          <6>1. SUFFICES ASSUME i # 0 PROVE FALSE
            OBVIOUS
          <6>2. i \in 1..Len(pending') /\ i + 1 \in 2..Len(pending) /\ pending'[i] = pending[i + 1]
            BY <1>4, <6>1
          <6>3. pending'[i] \in Queued'
            BY <1>4, <6>2
          <6>4. pending'[i].gen > e.gen /\ pending'[i].gen \in Nat /\ e.gen \in Nat
            BY <1>5, <1>6, <1>7, <6>3 DEF Entries
          <6> QED
            BY <2>4, <4>1, <6>1, <6>4
        <5> QED
          BY <1>4, <2>2, <2>4, <4>1, <5>1 DEF Ages
      <4>2. CASE t # e
        <5>1. t \in committed /\ Newest(t, committed)
          BY <1>3, <3>1, <4>2 DEF Newest
        <5>2. pending[i + 1].gen < t.gen /\ i + 1 \in 0..Len(pending)
          <6>1. CASE i = 0
            <7>1. e.gen =< t.gen /\ e.gen # t.gen /\ e.gen \in Nat /\ t.gen \in Nat
              BY <1>5, <1>6, <3>1, <4>2, <5>1 DEF Newest, CInv, Keys, Entries
            <7> QED
              BY <1>4, <6>1, <7>1
          <6>2. CASE i # 0
            BY <1>4, <2>4, <6>2
          <6> QED
            BY <6>1, <6>2
        <5> QED
          BY <2>2, <2>4, <5>1, <5>2 DEF Ages
      <4> QED
        BY <4>1, <4>2
    <3>3. PICK n : n = Len(pending) - (i + 1)
      OBVIOUS
    <3>4. Len(pending') - i = n
      BY <1>4, <3>3
    <3> QED
      BY <2>1, <3>1, <3>2, <3>3, <3>4
  <2>5. Len(pending') =< MaxUnfinalized
    BY <1>4, <2>2, CountsAssumption DEF Ages
  <2> QED
    BY <1>1, <2>3, <2>4, <2>5 DEF Ages
<1>19. Fallback'
  BY <1>16 DEF Fallback
<1> QED
  BY <1>19, <1>10, <1>11, <1>12, <1>13, <1>14, <1>15, <1>17, <1>18 DEF CInv
-----------------------------------------------------------------------------
(* Starting and restarting a job.                                          *)

\* Before the first update the account is empty.
LEMMA FreshAccount == Account(FreshState, 0, EmptyLedger, 0, {})
BY PolicyAssumption DEF Account, Judged, Trained, FreshState, EmptyLedger

LEMMA FreshTypes ==
    /\ FreshState \in State /\ EmptyLedger \in Ledger /\ 0 \in 0..Batches /\ 0 \in 0..MaxSteps
    /\ 0 \in Nat
BY CountsAssumption, PolicyAssumption DEF FreshState, EmptyLedger, State, Ledger

LEMMA StartFreshKeeps == ASSUME CInv, Rooted, StartFresh PROVE CInv'
<1>1. PICK x : x = Attach(state, 0, events)
  OBVIOUS
<1>2. PICK d : d = BaseDir
  OBVIOUS
<1>3. /\ phase = "start"
      /\ UNCHANGED <<state, completed, offset, ledger, retries, events, pending, committed,
                     crashes, async, strayed>>
      /\ IF Occupied(d) THEN phase' = "failed" /\ UNCHANGED <<content, final>>
         ELSE content' = [content EXCEPT ![d] = x] /\ final' = d /\ phase' = "register"
  BY <1>1, <1>2 DEF StartFresh
<1>4. /\ state = FreshState /\ completed = 0 /\ offset = 0
      /\ ledger = EmptyLedger /\ retries = 0 /\ events = {} /\ pending = <<>>
  BY <1>3 DEF CInv, Books, Indexed
<1>5. Queued = {} /\ Queued' = {} /\ Entries = committed /\ Entries' = committed
  BY <1>3, <1>4 DEF Entries, Queued
<1>7. d \in Dir
  BY <1>2, DirNames
<1>8. CASE Occupied(d)
  <2>1. phase' = "failed" /\ UNCHANGED <<content, final>>
    BY <1>3, <1>8
  <2>2. Typing'
    BY <1>3, <2>1 DEF CInv, Typing, Phases
  <2>3. Books' /\ Current'
    BY <2>1 DEF Books, Current, Looping, Resting, Trying
  <2>4. Saves'
    BY <1>3, <2>1, SavesKept DEF CInv
  <2>5. Keys' /\ Ordered' /\ Indexed' /\ Ages' /\ Fallback'
    BY <1>3, <1>5, <2>1
       DEF CInv, Keys, Ordered, Saved, Indexed, Newest, Ages, Fallback, Looping, Resting, Trying
  <2> QED
    BY <2>2, <2>3, <2>4, <2>5 DEF CInv
<1>9. CASE ~ Occupied(d)
  <2>1. content' = [content EXCEPT ![d] = x] /\ final' = d /\ phase' = "register"
    BY <1>3, <1>9
  <2>2. Account(state, 0, ledger, retries, events)
    BY <1>4, FreshAccount
  <2>8. committed = {} /\ Entries' = {}
    <3>1. \A e \in committed : e.dir \in Dir /\ Saved(e.dir)
      BY <1>5, EntryTypes DEF CInv, Ordered
    <3> QED
      BY <1>2, <1>5, <1>9, <3>1 DEF Rooted
  <2>3. Holds(x) /\ x.state = state /\ x.offset = 0
    <3>1. x \in Snapshot
      BY <1>1, FreshTypes, AttachIsSnapshot DEF CInv, Typing
    <3> QED
      BY <1>1, <2>2, <3>1 DEF Attach, Holds
  <2>4. DOMAIN content' = Dir /\ content'[d] = x /\ Saved(d)' /\ Saves'
    BY <1>3, <1>7, <1>9, <2>1, <2>3, SaveFacts
  <2>5. Typing'
    BY <1>3, <1>7, <2>1, <2>4 DEF CInv, Typing, Phases
  <2>6. Books'
    BY <1>3, <1>4, <2>1, <2>2
       DEF Books, Looping, Resting, Trying, Account, Judged, Trained, FreshState
  <2>7. Current'
    BY <1>3, <1>4, <1>7, <2>1, <2>3, <2>4 DEF Current
  <2>9. Keys' /\ Ordered' /\ Indexed' /\ Ages' /\ Fallback'
    BY <1>3, <1>4, <1>5, <2>1, <2>8, CountsAssumption
       DEF CInv, Keys, Ordered, Indexed, Ages, Fallback, Looping, Resting, Trying
  <2> QED
    BY <2>4, <2>5, <2>6, <2>7, <2>9 DEF CInv
<1> QED
  BY <1>8, <1>9

LEMMA ResumeKeeps == ASSUME CInv, NEW d \in Dir, Resume(d) PROVE CInv'
<1>1. PICK x : x = content[d]
  OBVIOUS
<1>2. /\ phase = "start" /\ Saved(d)
      /\ state' = x.state /\ completed' = x.state.step /\ offset' = x.offset
      /\ ledger' = x.ledger /\ retries' = x.retries /\ events' = x.events
      /\ phase' = IF x.state.step >= MaxSteps THEN "failed" ELSE "head"
      /\ final' = d
      /\ strayed' = (strayed \/ (committed # {} /\ d # Latest.dir))
      /\ UNCHANGED <<pending, content, committed, crashes, async>>
  BY <1>1 DEF Resume, disk
<1>3. Holds(x) /\ x \in Snapshot
  BY <1>1, <1>2 DEF CInv, Saves, Holds
<1>4. /\ x.state \in State /\ x.state.step \in 0..MaxSteps /\ x.offset \in 0..Batches
      /\ x.ledger \in Ledger /\ x.retries \in Nat /\ x.events \in SUBSET Batch
  BY <1>3 DEF Snapshot, State
<1>5. Entries' = Entries /\ Queued' = Queued /\ pending = <<>> /\ Entries = committed
  BY <1>2 DEF Entries, Queued, CInv, Indexed
<1>6. Typing'
  BY <1>2, <1>4 DEF CInv, Typing, Phases
<1>7. Saves'
  BY <1>2, SavesKept DEF CInv
<1>8. Books'
  BY <1>2, <1>3 DEF Books, Looping, Resting, Trying, Holds, Account, Judged, Trained
<1>9. Current'
  BY <1>1, <1>2 DEF Current, Saved
<1>10. Keys'
  BY <1>2, <1>5 DEF CInv, Keys
<1>11. committed # {} /\ ~ strayed' =>
        ~ strayed /\ Newest(Latest, committed) /\ Latest.dir = d
  BY <1>2, LatestIsNewest DEF CInv
<1>12. ~ strayed' => \A e \in Entries : content[e.dir].offset =< x.offset
  <2>1. committed = {} => Entries = {}
    BY <1>5
  <2>2. committed # {} /\ ~ strayed' =>
          \A e \in Entries : content[e.dir].offset =< content[Latest.dir].offset
    BY <1>5, <1>11 DEF CInv, Ordered, Newest
  <2> QED
    BY <1>1, <1>11, <2>1, <2>2
<1>13. Ordered'
  BY <1>2, <1>5, <1>12 DEF CInv, Ordered, Saved
<1>14. Indexed'
  BY <1>2 DEF CInv, Indexed, Newest
<1>15. Ages'
  <2> SUFFICES ASSUME phase' \in Looping PROVE Ages'
    BY DEF Ages
  <2>1. Len(pending') = 0 /\ 0 =< MaxUnfinalized
    BY <1>2, <1>5, CountsAssumption
  <2>2. ASSUME ~ strayed', NEW e \in committed, Newest(e, committed) PROVE Behind(e.dir, 0)'
    <3>1. e = Latest
      <4>1. e.gen =< Latest.gen /\ Latest.gen =< e.gen /\ Latest \in Entries /\ e \in Entries
        BY <1>5, <1>11, <2>2 DEF Newest
      <4>2. e.gen = Latest.gen
        BY <4>1, EntryTypes DEF CInv
      <4> QED
        BY <4>1, <4>2 DEF CInv, Keys
    <3>2. Since(e.dir)' = {}
      BY <1>1, <1>2, <1>4, <1>11, <2>2, <3>1 DEF Since
    <3> QED
      BY <1>2, <3>2, FS_EmptySet DEF Behind, Unsaved
  <2> QED
    BY <1>2, <2>1, <2>2 DEF Ages
<1>16. Fallback'
  <2>1. content'[d].offset = offset' /\ offset' \in Nat /\ Since(final)' = {} /\ Len(pending') = 0
    BY <1>1, <1>2, <1>4, <1>5 DEF Since
  <2> QED
    BY <1>2, <2>1, FS_EmptySet DEF Fallback, Behind, Unsaved, Saved
<1> QED
  BY <1>16, <1>6, <1>7, <1>8, <1>9, <1>10, <1>13, <1>14, <1>15 DEF CInv

\* A crash tears only what was being written, never what the index names.
LEMMA RestartKeeps == ASSUME CInv, Restart PROVE CInv'
<1>1. PICK torn \in SUBSET InFlight :
        content' = [d \in Dir |-> IF d \in torn THEN Partial ELSE content[d]]
  BY DEF Restart
<1>2. /\ phase' = "start" /\ pending' = <<>> /\ final' = NoDir
      /\ state' = FreshState /\ completed' = 0 /\ offset' = 0
      /\ ledger' = EmptyLedger /\ retries' = 0 /\ events' = {}
      /\ crashes' = crashes + 1 /\ crashes < MaxCrashes /\ UNCHANGED <<committed, async, strayed>>
  BY DEF Restart
<1>3. Queued' = {} /\ Entries' = committed
  BY <1>2 DEF Entries, Queued
<1>4. ASSUME NEW e \in committed
      PROVE  e \in Entries /\ e.dir \in Dir /\ Saved(e.dir)' /\ content'[e.dir] = content[e.dir]
  <2>1. e \in Entries /\ e.dir \in Dir /\ Saved(e.dir)
    BY EntryTypes DEF CInv, Ordered, Entries
  <2>2. e.dir \notin InFlight
    <3>1. \A f \in Queued : f.dir # e.dir
      BY <2>1 DEF CInv, Keys, Entries
    <3>2. Occupied(e.dir)
      BY <2>1 DEF Saved, Occupied
    <3> QED
      BY <3>1, <3>2 DEF InFlight
  <2> QED
    BY <1>1, <2>1, <2>2 DEF Saved
<1>5. Typing'
  <2>1. <<>> \in Seq(Entry)
    OBVIOUS
  <2>2. crashes + 1 \in 0..MaxCrashes
    BY <1>2, CountsAssumption DEF CInv, Typing
  <2> QED
    BY <1>1, <1>2, <2>1, <2>2, FreshTypes DEF CInv, Typing, Phases
<1>6. Saves'
  <2>1. ASSUME NEW d \in Dir, Saved(d)' PROVE Holds(content[d])'
    <3>1. content'[d] = content[d] /\ Saved(d)
      BY <1>1, <2>1 DEF Saved
    <3> QED
      BY <1>2, <3>1 DEF CInv, Saves, Holds, Account, Trained, Judged
  <2> QED
    BY <2>1 DEF Saves
<1>7. Books' /\ Current' /\ Ages' /\ Fallback'
  BY <1>2 DEF Books, Current, Ages, Fallback, Looping, Resting, Trying
<1>8. Keys'
  BY <1>2, <1>3, <1>4 DEF CInv, Keys
<1>9. Ordered'
  BY <1>2, <1>3, <1>4 DEF CInv, Ordered
<1>10. Indexed'
  BY <1>2 DEF CInv, Indexed, Newest, Looping, Resting, Trying
<1> QED
  BY <1>5, <1>6, <1>7, <1>8, <1>9, <1>10 DEF CInv

-----------------------------------------------------------------------------
(* The theorems.                                                           *)

LEMMA InitInv == Init => CInv /\ Rooted
<1> SUFFICES ASSUME Init PROVE CInv /\ Rooted
  OBVIOUS
<1>1. /\ phase = "start" /\ state = FreshState /\ completed = 0 /\ offset = 0
      /\ ledger = EmptyLedger /\ retries = 0 /\ events = {} /\ final = NoDir
      /\ pending = <<>> /\ committed = {} /\ content = [d \in Dir |-> Absent]
      /\ crashes = 0 /\ async \in Modes /\ strayed = FALSE
  BY DEF Init
<1>2. Typing
  <2>1. <<>> \in Seq(Entry)
    OBVIOUS
  <2>2. DOMAIN content = Dir /\ crashes \in 0..MaxCrashes
    BY <1>1, CountsAssumption
  <2>3. /\ state \in State /\ completed \in 0..MaxSteps /\ offset \in 0..Batches
        /\ ledger \in Ledger /\ retries \in Nat /\ events \in SUBSET Batch
    BY <1>1, FreshTypes
  <2>4. phase \in Phases /\ final \in Dir \cup {NoDir} /\ strayed \in BOOLEAN
    BY <1>1 DEF Phases
  <2> QED
    BY <1>1, <2>1, <2>2, <2>3, <2>4 DEF Typing
<1>3. Saves
  BY <1>1 DEF Saves, Saved
<1>4. Entries = {}
  BY <1>1 DEF Entries, Queued
<1>5. Books /\ Current /\ Keys /\ Ordered /\ Indexed /\ Ages /\ Fallback
  BY <1>1, <1>4 DEF Books, Current, Keys, Ordered, Indexed, Ages, Fallback, Looping, Resting, Trying
<1>6. Rooted
  BY <1>1 DEF Rooted, Saved
<1> QED
  BY <1>2, <1>3, <1>5, <1>6 DEF CInv

LEMMA NextInv == CInv /\ Rooted /\ [Next]_vars => CInv'
<1> SUFFICES ASSUME CInv, Rooted, [Next]_vars PROVE CInv'
  OBVIOUS
<1>1. ASSUME NEW d \in Dir, Resume(d) PROVE CInv'
  BY <1>1, ResumeKeeps
<1>2. CASE UNCHANGED vars
  <2>1. UNCHANGED <<phase, state, completed, offset, ledger, retries, events, final, pending,
                    content, committed, crashes, async, strayed>>
    BY <1>2 DEF vars, job, disk
  <2>2. Entries' = Entries /\ Queued' = Queued
    BY <2>1 DEF Entries, Queued
  <2>3. Typing' /\ Books' /\ Current'
    BY <2>1 DEF CInv, Typing, Books, Trial, Account, Judged, Trained, Current, Saved
  <2>4. Saves'
    BY <2>1, SavesKept DEF CInv
  <2>5. Keys' /\ Ordered' /\ Indexed'
    BY <2>1, <2>2 DEF CInv, Keys, Ordered, Saved, Indexed, Newest
  <2>6. Ages' /\ Fallback'
    BY <2>1, AgesKept, FallbackKept DEF disk
  <2> QED
    BY <2>3, <2>4, <2>5, <2>6 DEF CInv
<1> QED
  BY <1>1, <1>2, StartFreshKeeps, PublishKeeps, RegisteredKeeps, LoopHeadKeeps, StableKeeps,
     SaveStepKeeps, SaveRefusedKeeps, StepDoneKeeps, UnstableKeeps, RollbackKeeps,
     QuarantineKeeps, EndKeeps, RestartKeeps DEF Next, Step

\* The directory of the initial state is durable: no publication retires it.
LEMMA RootedKeeps == CInv /\ Rooted /\ [Next]_vars => Rooted'
<1> SUFFICES ASSUME CInv, Rooted, [Next]_vars PROVE Rooted'
  OBVIOUS
<1>1. BaseDir \in Dir /\ DOMAIN content = Dir
  BY DirNames DEF CInv, Typing
<1>2. ASSUME UNCHANGED content, phase' # "start" => phase # "start" \/ Occupied(BaseDir)
      PROVE  Rooted'
  BY <1>2 DEF Rooted, Saved, Occupied
<1>3. ASSUME NEW d \in Dir, NEW s \in Snapshot, content' = [content EXCEPT ![d] = s],
             phase # "start" \/ d = BaseDir
      PROVE  Rooted'
  BY <1>1, <1>3, SnapshotNotAbsent DEF Rooted, Occupied
<1>4. CASE StartFresh
  <2>1. CASE Occupied(BaseDir)
    BY <1>2, <1>4, <2>1 DEF StartFresh
  <2>2. CASE ~ Occupied(BaseDir)
    <3>1. Attach(state, 0, events) \in Snapshot
      BY AttachIsSnapshot, CountsAssumption DEF CInv, Typing
    <3>2. content' = [content EXCEPT ![BaseDir] = Attach(state, 0, events)]
      BY <1>4, <2>2 DEF StartFresh
    <3> QED
      BY <1>1, <1>3, <3>1, <3>2
  <2> QED
    BY <2>1, <2>2
<1>5. ASSUME NEW d \in Dir, Resume(d) PROVE Rooted'
  <2>1. Occupied(BaseDir)
    BY <1>5 DEF Resume, Rooted
  <2> QED
    BY <1>2, <1>5, <2>1 DEF Resume, disk
<1>6. CASE SaveStep
  <2>1. phase = "save" /\ StepDir(completed) \in Dir
    <3>1. completed \in 1..MaxSteps
      BY <1>6, CountsAssumption DEF SaveStep, CInv, Typing, Books
    <3> QED
      BY <1>6, <3>1, DirNames DEF SaveStep
  <2>2. Attach(state, offset, events) \in Snapshot
    BY AttachIsSnapshot DEF CInv, Typing
  <2> QED
    BY <1>3, <1>6, <2>1, <2>2 DEF SaveStep
<1>7. CASE Quarantine
  <2>1. /\ phase = "quarantine" /\ QuarantineDir(offset + 1) \in Dir
        /\ offset + 1 \in 0..Batches /\ events \cup {offset} \in SUBSET Batch
    <3>1. phase = "quarantine" /\ offset < Batches /\ offset \in 0..Batches
      BY <1>7 DEF Quarantine, CInv, Books, Trying, Trial, Typing
    <3>2. offset + 1 \in 1..Batches /\ offset + 1 \in 0..Batches /\ offset \in Batch
      BY <3>1, CountsAssumption DEF Batch
    <3> QED
      BY <3>1, <3>2, DirNames DEF CInv, Typing
  <2>2. Attach(state, offset + 1, events \cup {offset}) \in Snapshot
    BY <2>1, AttachIsSnapshot DEF CInv, Typing
  <2>3. CASE Occupied(QuarantineDir(offset + 1))
    BY <1>2, <1>7, <2>1, <2>3 DEF Quarantine
  <2>4. CASE ~ Occupied(QuarantineDir(offset + 1))
    <3>1. content' = [content EXCEPT
                        ![QuarantineDir(offset + 1)] = Attach(state, offset + 1, events \cup {offset})]
      BY <1>7, <2>4 DEF Quarantine
    <3> QED
      BY <1>3, <2>1, <2>2, <3>1
  <2> QED
    BY <2>3, <2>4
<1>8. CASE Publish
  <2>1. PICK retired \in SUBSET (committed \cup {Head(pending)}) :
          /\ Store!MayRetire(Head(pending), retired)
          /\ content' = [d \in Dir |-> IF d \in Store!Named(retired) THEN Absent ELSE content[d]]
    BY <1>8 DEF Publish
  <2>2. BaseDir \in DurableDir
    BY <1>1 DEF DurableDir, BaseDir, StepDir
  <2>3. BaseDir \notin Store!Named(retired)
    BY <2>1, <2>2 DEF Store!MayRetire, Store!Named
  <2>4. phase # "start" /\ content'[BaseDir] = content[BaseDir]
    BY <1>1, <1>8, <2>1, <2>3 DEF Publish
  <2> QED
    BY <2>4 DEF Rooted, Occupied
<1>9. CASE Restart
  <2>1. PICK torn \in SUBSET InFlight :
          content' = [d \in Dir |-> IF d \in torn THEN Partial ELSE content[d]]
    BY <1>9 DEF Restart
  <2>2. (\E d \in Dir : Saved(d)') => Occupied(BaseDir)
    BY <1>1, <2>1 DEF Rooted, Saved
  <2>3. Occupied(BaseDir) => Occupied(BaseDir)'
    BY <1>1, <2>1 DEF Occupied, Absent, Partial
  <2>4. phase' = "start"
    BY <1>9 DEF Restart
  <2> QED
    BY <2>2, <2>3, <2>4 DEF Rooted
<1>10. CASE Registered
  BY <1>2, <1>10 DEF Registered
<1>11. CASE LoopHead \/ Stable \/ SaveRefused \/ StepDone \/ Unstable \/ Rollback \/ Finish \/ Fail
  BY <1>2, <1>11 DEF LoopHead, Stable, SaveRefused, StepDone, Unstable, Rollback, Finish, Fail, disk
<1>12. CASE UNCHANGED vars
  BY <1>2, <1>12 DEF vars, disk
<1> QED
  BY <1>4, <1>5, <1>6, <1>7, <1>8, <1>9, <1>10, <1>11, <1>12 DEF Next, Step

LEMMA Invariance == Spec => [](CInv /\ Rooted)
BY InitInv, NextInv, RootedKeeps, PTL DEF Spec

\* The loop, the ledger and every checkpoint keep the same account of what was tried,
\* for any catalog, policy and number of crashes and in both checkpoint modes.
THEOREM TrainingTypeCorrect == Spec => []TypeOK
<1>1. CInv => TypeOK
  <2> SUFFICES ASSUME CInv PROVE TypeOK
    OBVIOUS
  <2>1. Queued \in SUBSET Entry
    BY EntryTypes DEF CInv, Entries
  <2>2. \A d \in Dir : Saved(d) => content[d] \in Snapshot
    BY DEF CInv, Saves, Holds
  <2>3. phase = "head" => events = ledger.quarantined /\ offset \notin events
    <3> SUFFICES ASSUME phase = "head" PROVE events = ledger.quarantined /\ offset \notin events
      OBVIOUS
    <3>1. Account(state, offset, ledger, retries, events)
      BY DEF CInv, Books, Resting
    <3>2. ASSUME offset \in Batch PROVE offset \notin ledger.quarantined
      <4>1. offset >= offset /\ QuarantineAfter # 0
        BY PolicyAssumption DEF CInv, Typing
      <4>2. ledger.failures[offset] = 0
        BY <3>1, <3>2, <4>1 DEF Account
      <4> QED
        BY <3>1, <3>2, <4>1, <4>2 DEF Account, Judged
    <3> QED
      BY <3>1, <3>2 DEF Account, CInv, Typing, Ledger
  <2>4. phase \in {"save", "quarantine"} => retries = ledger.retries
    BY DEF CInv, Books, Trial, Account, Resting, Trying, Typing
  <2> QED
    BY <2>1, <2>2, <2>3, <2>4 DEF CInv, Typing, TypeOK, Phases
<1> QED
  BY <1>1, Invariance, PTL

\* No update is applied twice, however often the job is rolled back and restarted, as
\* long as it is resumed from the newest entry of the index whenever there is one; with
\* synchronous checkpoints none is applied twice or lost whatever it is resumed from.
THEOREM NothingTrainedTwice == Spec => []NoBatchTrainedTwice
<1>1. CInv => NoBatchTrainedTwice
  <2> SUFFICES ASSUME CInv, phase = "attempt"
               PROVE  /\ ~ strayed => offset \notin state.seen
                      /\ ~ async => state = [step |-> completed, seen |-> 0..(offset - 1) \ events]
    BY DEF NoBatchTrainedTwice
  <2>1. Trained(state, offset, events)
    BY DEF CInv, Books, Trying, Trial
  <2>2. ~ strayed => offset \notin state.seen
    BY <2>1 DEF Trained, CInv, Typing
  <2>3. ~ async => state.step = completed /\ state.seen = 0..(offset - 1) \ events
    BY <2>1 DEF Trained, CInv, Books, Looping, Trying
  <2> QED
    BY <2>2, <2>3 DEF CInv, Typing, State
<1> QED
  BY <1>1, Invariance, PTL

\* A rollback finds a complete checkpoint whatever the job was resumed from; if that was
\* always the newest entry of the index, it is at most as many updates old as may be
\* unfinalized, for any limits, retention and order of rollbacks and publications.
THEOREM RollbackBounded == Spec => RollbackIsRecent
<1>1. CInv /\ phase = "recover" =>
        /\ Saved(LastGood)
        /\ ~ strayed => Cardinality(Since(LastGood)) =< IF async THEN MaxUnfinalized ELSE 0
  BY RestorePoint
<1> QED
  BY <1>1, Invariance, PTL DEF RollbackIsRecent
=============================================================================

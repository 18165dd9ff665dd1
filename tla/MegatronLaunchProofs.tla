------------------------ MODULE MegatronLaunchProofs ------------------------
(***************************************************************************)
(* What holds of the launch for any number of jobs and nodes: its types,   *)
(* the one contract of those that train, the candidate that was trained,   *)
(* that the launch is the barrier of NodeBarrier, and that no job is stuck.*)
(***************************************************************************)
EXTENDS MegatronLaunch, TLAPS

LeaderOf(p) == <<p[1], Leader>>

\* A session belongs to one job.
Sessions == \A p, q \in Proc : env[p].session = env[q].session <=> p[1] = q[1]

\* All nodes of the job of p have posted the same plan.
AllPosted(p) == \A r \in Rank : <<p[1], r>> \in posted /\ env[<<p[1], r>>] = env[p]

\* Every node of the session has trained and written its part.
AllTrained(session) ==
    \A p \in Proc : env[p].session = session => p \in entered /\ p[2] \in parts[session]

\* Where only node 0 comes; where nobody has trained yet, and where all have; where
\* the output is bound to the run; where the launch has been announced.
Leading   == {"create", "bind", "rebind", "announce", "opening", "completing", "failing",
              "lapsing"}
Before    == {"start", "create", "bind", "rebind", "announce", "joining", "plan", "receipt",
              "waiting", "opening"}
Trained   == {"training", "saved", "completing", "done"}
Saved     == {"saved", "completing", "done"}
Bound     == {"announce", "plan", "receipt", "waiting", "opening", "training", "saved",
              "completing", "failing", "lapsing", "done"}
Announced == {"plan", "receipt", "waiting"}

\* What p may rely on where it is.
At(p, place) ==
    /\ place \in Leading => IsLeader(p)
    /\ place = "joining" => ~IsLeader(p)
    /\ place \in Before => p \notin entered
    /\ place \in Trained => p \in entered
    /\ place \in Saved => p[2] \in parts[env[p].session]
    /\ place \in Bound => owner = env[p].identity
    /\ place \in Announced => launch # None
    /\ place = "opening" => AllPosted(p)
    /\ place = "completing" => AllTrained(env[p].session)
Places == \A p \in Proc : At(p, phase[p])

\* Nobody but the process that has created the directory binds it.
OneCreator ==
    \A p, q \in Proc :
        phase[p] = "bind" => owner = NoIdentity /\ (phase[q] = "bind" => p = q)

\* A receipt of a session of these jobs is that of the node it is named after.
OwnReceipts ==
    \A p \in Proc : ReceiptOf(p, p[2]) # None => ReceiptOf(p, p[2]) = env[p] /\ p \in posted

\* Who trains does so after node 0, after all have posted, and in its own output.
BarrierShut ==
    \A p \in entered : LeaderOf(p) \in entered /\ AllPosted(p) /\ owner = env[p].identity

\* A launch state of these jobs says what its node 0 knew, and so do its copies.
Told ==
    /\ launch # None =>
        /\ launch.state = "ready" =>
            \A p \in Proc : env[p].session = launch.session => LeaderOf(p) \in entered
        /\ launch.state = "completed" => AllTrained(launch.session)
    /\ sealing # None => AllTrained(sealing.session)
    /\ candidate # None => AllTrained(candidate.launch.session)

LInv ==
    /\ TypeOK /\ Sessions /\ Places /\ OneCreator
    /\ OwnReceipts /\ BarrierShut /\ Told

-----------------------------------------------------------------------------
(* Facts about processes and sessions.                                      *)

\* A process is its job and its rank, and node 0 of its job is one, too.
LEMMA ProcFacts ==
    ASSUME NEW p \in Proc
    PROVE  /\ p = <<p[1], p[2]>> /\ p[1] \in Job /\ p[2] \in Rank
           /\ \A r \in Rank : <<p[1], r>> \in Proc
           /\ Leader \in Rank /\ LeaderOf(p) \in Proc
           /\ IsLeader(p) => LeaderOf(p) = p
BY NodesAssumption DEF Proc, Rank, Leader, LeaderOf, IsLeader

\* The parts of TypeOK that the steps of the proofs use.
LEMMA TypeFacts ==
    ASSUME TypeOK, NEW p \in Proc
    PROVE  /\ env[p] \in Receipts /\ env[p].session \in Session
           /\ env[p].identity \in Identity /\ env[p].endpoint \in Endpoint
           /\ env[p] # None
           /\ owner \in Identity \cup {NoIdentity, Absent}
           /\ launch \in LaunchStates \cup {None}
           /\ receipts \in [Session \X Rank -> Receipts \cup {None}]
           /\ parts \in [Session -> SUBSET Rank]
           /\ phase \in [Proc -> Phases]
           /\ phase[p] \in Phases
<1>1. env[p] \in Receipts
  BY DEF TypeOK
<1>2. env[p] # None
  BY <1>1, ValuesAssumption
<1>3. [owner |-> owner, launch |-> launch, receipts |-> receipts, parts |-> parts] \in Outputs
  BY DEF TypeOK
<1>4. /\ owner \in Identity \cup {NoIdentity, Absent}
      /\ launch \in LaunchStates \cup {None}
      /\ receipts \in [Session \X Rank -> Receipts \cup {None}]
      /\ parts \in [Session -> SUBSET Rank]
  BY <1>3 DEF Outputs
<1>5. phase \in [Proc -> Phases] /\ phase[p] \in Phases
  BY DEF TypeOK
<1>6. /\ env[p].session \in Session /\ env[p].identity \in Identity
      /\ env[p].endpoint \in Endpoint
  BY <1>1 DEF Receipts
<1> QED
  BY <1>1, <1>2, <1>4, <1>5, <1>6

\* A launch state that a process writes is a launch state, and is there.
LEMMA LaunchStateFacts ==
    ASSUME TypeOK, NEW p \in Proc, NEW state \in States
    PROVE  /\ LaunchState(p, state) \in LaunchStates /\ LaunchState(p, state) # None
           /\ LaunchState(p, state).session = env[p].session
           /\ LaunchState(p, state).identity = env[p].identity
           /\ LaunchState(p, state).state = state
<1>1. LaunchState(p, state) \in LaunchStates
  BY TypeFacts DEF LaunchState, LaunchStates
<1> QED
  BY <1>1, ValuesAssumption DEF LaunchState

\* Processes with one session are nodes of one job.
LEMMA OneJob ==
    ASSUME Sessions, NEW p \in Proc, NEW q \in Proc
    PROVE  /\ env[p].session = env[q].session <=> p[1] = q[1]
           /\ p[1] = q[1] => /\ LeaderOf(p) = LeaderOf(q)
                             /\ q = <<p[1], q[2]>>
                             /\ p[2] = q[2] => p = q
<1>1. env[p].session = env[q].session <=> p[1] = q[1]
  BY DEF Sessions
<1>2. p = <<p[1], p[2]>> /\ q = <<q[1], q[2]>>
  BY ProcFacts
<1> QED
  BY <1>1, <1>2 DEF LeaderOf

-----------------------------------------------------------------------------
(* The invariant.                                                           *)

\* Every deployment starts in a state that satisfies the invariant.
LEMMA InitInv ==
    ASSUME Init
    PROVE  LInv
<1>1. PICK d \in Deployments :
        /\ env = d.env /\ owner = d.before.owner /\ launch = d.before.launch
        /\ receipts = d.before.receipts /\ parts = d.before.parts
        /\ phase = [p \in Proc |-> "start"]
        /\ sealing = None /\ candidate = None /\ posted = {} /\ entered = {}
  BY DEF Init
<1>2. /\ d.before \in Outputs /\ d.env \in [Proc -> Receipts]
      /\ d.before.launch # None => d.before.launch.identity = d.before.owner
      /\ \A p, q \in Proc : d.env[p].session = d.env[q].session <=> p[1] = q[1]
      /\ \A p \in Proc, r \in Rank : d.before.receipts[<<d.env[p].session, r>>] = None
      /\ d.before.launch # None =>
            \A p \in Proc : d.before.launch.session # d.env[p].session
  BY DeploymentsAssumption
<1>3. TypeOK
  <2>1. [owner |-> owner, launch |-> launch, receipts |-> receipts, parts |-> parts]
            \in Outputs
    BY <1>1, <1>2 DEF Outputs
  <2>2. phase \in [Proc -> Phases]
    BY <1>1 DEF Phases
  <2> QED
    BY <1>1, <1>2, <2>1, <2>2 DEF TypeOK
<1>4. Sessions
  BY <1>1, <1>2 DEF Sessions
<1>5. Places
  BY <1>1 DEF Places, At, Leading, Before, Trained, Saved, Bound, Announced
<1>6. OneCreator /\ BarrierShut
  BY <1>1 DEF OneCreator, BarrierShut
<1>7. OwnReceipts
  BY <1>1, <1>2, ProcFacts DEF OwnReceipts, ReceiptOf
<1>8. Told
  BY <1>1, <1>2 DEF Told, AllTrained
<1> QED
  BY <1>3, <1>4, <1>5, <1>6, <1>7, <1>8 DEF LInv

\* A step that only moves a process keeps the invariant if the process may rely on
\* what it finds where it goes.
LEMMA Moves ==
    ASSUME LInv, NEW p \in Proc, NEW to \in Phases, At(p, to), to # "bind",
           phase' = [phase EXCEPT ![p] = to],
           UNCHANGED <<env, files, sealing, candidate, posted, entered>>
    PROVE  LInv'
<1>1. TypeOK'
  BY DEF LInv, TypeOK, files
<1>2. Sessions' /\ OwnReceipts'
  BY DEF LInv, Sessions, OwnReceipts, ReceiptOf, files
<1>3. Places'
  <2> SUFFICES ASSUME NEW q \in Proc
               PROVE  At(q, phase[q])'
    BY DEF Places
  <2>1. phase'[q] = IF q = p THEN to ELSE phase[q]
    BY TypeFacts DEF LInv
  <2>2. At(q, phase'[q])
    BY <2>1 DEF LInv, Places
  <2> QED
    BY <2>2 DEF At, AllPosted, AllTrained, files
<1>4. OneCreator'
  BY TypeFacts DEF LInv, OneCreator, files
<1>5. BarrierShut' /\ Told'
  BY DEF LInv, BarrierShut, AllPosted, Told, AllTrained, files
<1> QED
  BY <1>1, <1>2, <1>3, <1>4, <1>5 DEF LInv

\* The steps that only move a process take it where it may rely on what it finds.
LEMMA MovingSteps ==
    ASSUME LInv, NEW p \in Proc,
           \/ Begin(p) \/ Rebind(p) \/ Join(p) \/ Plan(p) \/ Scan(p)
           \/ TrainingEnds(p) \/ Lapse(p)
    PROVE  LInv'
<1> USE DEF Leading, Before, Trained, Saved, Bound, Announced, Phases, Ended
<1>1. /\ At(p, phase[p]) /\ TypeOK /\ phase \in [Proc -> Phases]
      /\ p = <<p[1], p[2]>>
  BY TypeFacts, ProcFacts DEF LInv, Places
<1>2. \A to \in Phases \ {"bind"} :
        /\ At(p, to)
        /\ phase' = [phase EXCEPT ![p] = to]
        /\ UNCHANGED <<env, files, sealing, candidate, posted, entered>>
        => LInv'
  BY <1>1, Moves
<1>3. CASE Begin(p)
  BY <1>1, <1>2, <1>3 DEF Begin, Goes, At
<1>4. CASE Rebind(p)
  BY <1>1, <1>2, <1>4 DEF Rebind, Goes, At, ValidBinding
<1>5. CASE Join(p)
  <2>1. p \notin entered
    BY <1>1, <1>5 DEF Join, At
  <2> QED
    BY <1>1, <1>2, <1>5, <2>1 DEF Join, Goes, At
<1>6. CASE Plan(p)
  BY <1>1, <1>2, <1>6 DEF Plan, Goes, At
<1>7. CASE Scan(p)
  <2>1. CASE \E r \in Rank : ReceiptOf(p, r) \notin {None, Expected(p)}
    BY <1>1, <1>2, <1>7, <2>1 DEF Scan, Goes, At
  <2>2. CASE \A r \in Rank : ReceiptOf(p, r) = Expected(p)
    <3>1. AllPosted(p)
      <4> SUFFICES ASSUME NEW r \in Rank
                   PROVE  <<p[1], r>> \in posted /\ env[<<p[1], r>>] = env[p]
        BY DEF AllPosted
      <4> DEFINE q == <<p[1], r>>
      <4>1. q \in Proc /\ q[1] = p[1] /\ q[2] = r
        BY ProcFacts
      <4>2. env[q].session = env[p].session
        BY <4>1, OneJob DEF LInv
      <4>3. ReceiptOf(q, q[2]) = env[p]
        BY <4>1, <4>2, <2>2 DEF ReceiptOf, Expected
      <4>4. env[p] # None
        BY <1>1, TypeFacts
      <4> QED
        BY <4>1, <4>3, <4>4 DEF LInv, OwnReceipts
    <3> QED
      BY <1>1, <1>2, <1>7, <2>2, <3>1 DEF Scan, Goes, At
  <2> QED
    BY <1>7, <2>1, <2>2 DEF Scan
<1>8. CASE TrainingEnds(p)
  <2>1. AllTrained(env[p].session)
    <3> SUFFICES ASSUME NEW q \in Proc, env[q].session = env[p].session
                 PROVE  q \in entered /\ q[2] \in parts[env[q].session]
      BY DEF AllTrained
    <3>1. q = <<p[1], q[2]>> /\ q[2] \in Rank
      BY OneJob, ProcFacts DEF LInv
    <3>2. phase[q] \in Saved
      BY <3>1, <1>8 DEF TrainingEnds
    <3> QED
      BY <3>2 DEF LInv, Places, At
  <2> QED
    BY <1>1, <1>2, <1>8, <2>1 DEF TrainingEnds, Goes, At
<1>9. CASE Lapse(p)
  <2>1. \A stages : LapsesIn(p, stages) /\ stages \subseteq Bound \cup {"joining"} => LInv'
    BY <1>1, <1>2 DEF LapsesIn, At
  <2>2. CASE Dies(p)
    BY <1>1, <1>2, <2>2 DEF Dies, At
  <2> QED
    BY <1>9, <2>1, <2>2 DEF Lapse, TimesOut, PlanBlocked, SubprocessFails
<1> QED
  BY <1>3, <1>4, <1>5, <1>6, <1>7, <1>8, <1>9

\* Node 0 takes a directory for itself only when there was none, or binds the one
\* it took: nobody relies on it yet, and there is no launch state in it.
LEMMA CreatingSteps ==
    ASSUME LInv, NEW p \in Proc, Create(p) \/ Bind(p)
    PROVE  LInv'
<1>1. /\ At(p, phase[p]) /\ TypeOK /\ phase \in [Proc -> Phases]
      /\ env[p].identity \in Identity
  BY TypeFacts DEF LInv, Places
<1>2. CASE Create(p) /\ owner # Absent
  BY <1>1, <1>2, Moves
     DEF Create, Goes, At, files, Phases, Ended,
         Leading, Before, Trained, Saved, Bound, Announced
<1>3. CASE (Create(p) /\ owner = Absent) \/ Bind(p)
  <2> DEFINE to == IF phase[p] = "create" THEN "bind" ELSE "announce"
  <2>1. /\ owner \notin Identity /\ phase[p] \in {"create", "bind"}
        /\ owner' = IF phase[p] = "create" THEN NoIdentity ELSE env[p].identity
        /\ phase' = [phase EXCEPT ![p] = to]
        /\ UNCHANGED <<env, launch, receipts, parts, sealing, candidate, posted, entered>>
    BY <1>3, ValuesAssumption DEF Create, Bind, Goes, LInv, OneCreator
  <2>2. \A q \in Proc : owner # env[q].identity
    BY <2>1, <1>1, TypeFacts
  <2>3. launch = None
    BY <2>1, <1>1, TypeFacts DEF TypeOK, LaunchStates
  <2>4. \A q \in Proc : q # p => phase[q] # "bind"
    BY <1>3, ValuesAssumption DEF Create, Bind, Goes, LInv, OneCreator
  <2>5. entered = {}
    BY <2>2, <1>1 DEF LInv, BarrierShut, TypeOK
  <2>6. TypeOK'
    <3>1. [owner |-> owner, launch |-> launch, receipts |-> receipts, parts |-> parts]'
            \in Outputs
      BY <1>1, <2>1, TypeFacts DEF Outputs
    <3>2. phase' \in [Proc -> Phases]
      BY <1>1, <2>1 DEF Phases
    <3> QED
      BY <1>1, <2>1, <2>3, <3>1, <3>2 DEF TypeOK
  <2>7. Places'
    <3> SUFFICES ASSUME NEW q \in Proc
                 PROVE  At(q, phase[q])'
      BY DEF Places
    <3>1. phase'[q] = IF q = p THEN to ELSE phase[q]
      BY <1>1, <2>1
    <3>2. At(q, phase[q]) /\ owner # env[q].identity
      BY <2>2 DEF LInv, Places
    <3>3. CASE q = p
      BY <1>1, <2>1, <2>5, <3>1, <3>3
         DEF At, Leading, Before, Trained, Saved, Bound, Announced
    <3>4. CASE q # p
      BY <2>1, <3>1, <3>2, <3>4 DEF At, AllPosted, AllTrained
    <3> QED
      BY <3>3, <3>4
  <2>8. OneCreator'
    BY <1>1, <2>1, <2>4 DEF OneCreator
  <2>9. Sessions' /\ OwnReceipts' /\ BarrierShut' /\ Told'
    BY <2>1, <2>3, <2>5
       DEF LInv, Sessions, OwnReceipts, ReceiptOf, BarrierShut, Told, AllTrained
  <2> QED
    BY <2>6, <2>7, <2>8, <2>9 DEF LInv
<1> QED
  BY <1>2, <1>3

\* Node 0 announces, completes or fails in a directory that is its own.
LEMMA ReportingSteps ==
    ASSUME LInv, NEW p \in Proc, Announce(p) \/ Complete(p) \/ ReportFailure(p)
    PROVE  LInv'
<1>1. /\ At(p, phase[p]) /\ TypeOK /\ phase \in [Proc -> Phases]
  BY TypeFacts DEF LInv, Places
<1>2. PICK state \in {"launching", "completed", "failed"},
           to \in {"plan", "done", "raised", "lapsed"} :
        /\ phase[p] \in Bound \ {"opening"} /\ phase[p] # "bind"
        /\ phase' = [phase EXCEPT ![p] = to]
        /\ to = "plan" => phase[p] = "announce"
        /\ to = "done" <=> state = "completed"
        /\ state = "completed" => phase[p] = "completing"
        /\ launch' = LaunchState(p, state)
        /\ UNCHANGED <<env, owner, receipts, parts, sealing, candidate, posted, entered>>
  BY DEF Announce, Complete, ReportFailure, Goes, Bound
<1>3. /\ launch' \in LaunchStates /\ launch' # None /\ launch'.state = state
      /\ launch'.session = env[p].session /\ launch'.identity = env[p].identity
  BY <1>1, <1>2, LaunchStateFacts DEF States
<1>4. owner = env[p].identity
  BY <1>1, <1>2 DEF At
<1>5. TypeOK'
  <2>1. [owner |-> owner, launch |-> launch, receipts |-> receipts, parts |-> parts]'
            \in Outputs
    BY <1>1, <1>2, <1>3, TypeFacts DEF Outputs
  <2>2. phase' \in [Proc -> Phases]
    BY <1>1, <1>2 DEF Phases, Ended
  <2> QED
    BY <1>1, <1>2, <1>3, <1>4, <2>1, <2>2 DEF TypeOK
<1>6. Places'
  <2> SUFFICES ASSUME NEW q \in Proc
               PROVE  At(q, phase[q])'
    BY DEF Places
  <2>1. phase'[q] = IF q = p THEN to ELSE phase[q]
    BY <1>1, <1>2
  <2>2. At(q, phase'[q]) \/ (phase'[q] = "plan" /\ owner = env[q].identity /\ q \notin entered)
    <3>1. CASE q = p
      BY <1>1, <1>2, <1>4, <2>1, <3>1
         DEF At, Leading, Before, Trained, Saved, Bound, Announced
    <3>2. CASE q # p
      BY <2>1, <3>2 DEF LInv, Places
    <3> QED
      BY <3>1, <3>2
  <2> QED
    BY <1>2, <1>3, <2>2
       DEF At, AllPosted, AllTrained, Leading, Before, Trained, Saved, Bound, Announced
<1>7. OneCreator'
  BY <1>1, <1>2 DEF LInv, OneCreator
<1>8. Sessions' /\ OwnReceipts' /\ BarrierShut'
  BY <1>2 DEF LInv, Sessions, OwnReceipts, ReceiptOf, BarrierShut, AllPosted
<1>9. Told'
  <2>1. state = "completed" => AllTrained(env[p].session)
    BY <1>1, <1>2 DEF At
  <2> QED
    BY <1>2, <1>3, <2>1 DEF LInv, Told, AllTrained
<1> QED
  BY <1>5, <1>6, <1>7, <1>8, <1>9 DEF LInv

\* A receipt lands where only its own node writes.
LEMMA ReceiptStep ==
    ASSUME LInv, NEW p \in Proc, PostReceipt(p)
    PROVE  LInv'
<1>1. /\ At(p, phase[p]) /\ TypeOK /\ phase \in [Proc -> Phases]
      /\ receipts \in [Session \X Rank -> Receipts \cup {None}]
      /\ env[p] \in Receipts /\ env[p].session \in Session /\ p[2] \in Rank
  BY TypeFacts, ProcFacts DEF LInv, Places
<1>2. /\ phase[p] = "receipt" /\ phase' = [phase EXCEPT ![p] = "waiting"]
      /\ receipts' = [receipts EXCEPT ![<<env[p].session, p[2]>>] = env[p]]
      /\ posted' = posted \cup {p}
      /\ UNCHANGED <<env, owner, launch, parts, sealing, candidate, entered>>
  BY DEF PostReceipt, Goes, Expected
<1>3. TypeOK'
  <2>1. receipts' \in [Session \X Rank -> Receipts \cup {None}]
    BY <1>1, <1>2
  <2>2. [owner |-> owner, launch |-> launch, receipts |-> receipts, parts |-> parts]'
            \in Outputs
    BY <1>1, <1>2, <2>1, TypeFacts DEF Outputs
  <2>3. phase' \in [Proc -> Phases]
    BY <1>1, <1>2 DEF Phases
  <2> QED
    BY <1>1, <1>2, <2>2, <2>3 DEF TypeOK
<1>4. Places'
  <2> SUFFICES ASSUME NEW q \in Proc
               PROVE  At(q, phase[q])'
    BY DEF Places
  <2>1. phase'[q] = IF q = p THEN "waiting" ELSE phase[q]
    BY <1>1, <1>2
  <2>2. At(q, phase'[q])
    <3>1. CASE q = p
      BY <1>1, <1>2, <2>1, <3>1
         DEF At, Leading, Before, Trained, Saved, Bound, Announced
    <3>2. CASE q # p
      BY <2>1, <3>2 DEF LInv, Places
    <3> QED
      BY <3>1, <3>2
  <2> QED
    BY <1>2, <2>2 DEF At, AllPosted, AllTrained
<1>5. OwnReceipts'
  <2> SUFFICES ASSUME NEW q \in Proc
               PROVE  ReceiptOf(q, q[2])' # None =>
                        ReceiptOf(q, q[2])' = env[q] /\ q \in posted'
    BY <1>2 DEF OwnReceipts
  <2>1. CASE q = p
    BY <1>1, <1>2, <2>1 DEF ReceiptOf
  <2>2. CASE q # p
    <3>1. <<env[q].session, q[2]>> # <<env[p].session, p[2]>>
      BY <2>2, OneJob DEF LInv
    <3>2. ReceiptOf(q, q[2])' = ReceiptOf(q, q[2])
      BY <1>1, <1>2, <3>1, TypeFacts, ProcFacts DEF ReceiptOf
    <3> QED
      BY <1>2, <3>2 DEF LInv, OwnReceipts
  <2> QED
    BY <2>1, <2>2
<1>6. OneCreator'
  BY <1>1, <1>2 DEF LInv, OneCreator
<1>7. Sessions' /\ BarrierShut' /\ Told'
  BY <1>2 DEF LInv, Sessions, BarrierShut, AllPosted, Told, AllTrained
<1> QED
  BY <1>3, <1>4, <1>5, <1>6, <1>7 DEF LInv

\* Whoever goes in finds that all have posted: node 0 has read their receipts, and
\* the others find its word for it.
LEMMA GoingIn ==
    ASSUME LInv, NEW p \in Proc, OpenBarrier(p) \/ (Await(p) /\ phase'[p] = "training")
    PROVE  /\ AllPosted(p) /\ owner = env[p].identity /\ p \in posted
           /\ entered' = entered \cup {p} /\ LeaderOf(p) \in entered'
           /\ phase' = [phase EXCEPT ![p] = "training"]
           /\ phase[p] \in {"opening", "waiting"}
           /\ UNCHANGED <<env, owner, receipts, parts, sealing, candidate, posted>>
<1>1. /\ At(p, phase[p]) /\ TypeOK /\ phase \in [Proc -> Phases]
      /\ p = <<p[1], p[2]>> /\ p[2] \in Rank
  BY TypeFacts, ProcFacts DEF LInv, Places
<1>2. CASE OpenBarrier(p)
  <2>1. IsLeader(p) /\ AllPosted(p) /\ owner = env[p].identity
    BY <1>1, <1>2 DEF OpenBarrier, Goes, At, Leading, Bound
  <2> QED
    BY <1>1, <1>2, <2>1, ProcFacts DEF OpenBarrier, Goes, AllPosted
<1>3. CASE Await(p) /\ phase'[p] = "training"
  <2>1. /\ launch # None /\ launch.state = "ready" /\ launch.session = env[p].session
        /\ owner = env[p].identity
        /\ phase' = [phase EXCEPT ![p] = "training"] /\ phase[p] = "waiting"
        /\ entered' = entered \cup {p}
        /\ UNCHANGED <<env, files, sealing, candidate, posted>>
    BY <1>1, <1>3 DEF Await, Goes, SameSession, At, Announced, Bound
  <2>2. LeaderOf(p) \in entered
    BY <2>1 DEF LInv, Told
  <2>3. AllPosted(LeaderOf(p)) /\ LeaderOf(p)[1] = p[1]
    BY <2>2 DEF LInv, BarrierShut, LeaderOf
  <2>4. AllPosted(p)
    BY <1>1, <2>3 DEF AllPosted
  <2> QED
    BY <1>1, <2>1, <2>2, <2>4 DEF AllPosted, files
<1> QED
  BY <1>2, <1>3

\* A node goes into the training, or a worker that is rejected does not.
LEMMA EnteringSteps ==
    ASSUME LInv, NEW p \in Proc, OpenBarrier(p) \/ Await(p)
    PROVE  LInv'
<1>1. /\ At(p, phase[p]) /\ TypeOK /\ phase \in [Proc -> Phases]
  BY TypeFacts DEF LInv, Places
<1>2. CASE Await(p) /\ phase'[p] # "training"
  <2>1. /\ phase' = [phase EXCEPT ![p] = "raised"]
        /\ UNCHANGED <<env, files, sealing, candidate, posted, entered>>
    BY <1>1, <1>2 DEF Await, Goes
  <2>2. At(p, "raised") /\ "raised" \in Phases
    BY DEF At, Leading, Before, Trained, Saved, Bound, Announced, Phases, Ended
  <2> QED
    BY <2>1, <2>2, Moves
<1>3. CASE OpenBarrier(p) \/ (Await(p) /\ phase'[p] = "training")
  <2>1. /\ AllPosted(p) /\ owner = env[p].identity /\ p \in posted
        /\ entered' = entered \cup {p} /\ LeaderOf(p) \in entered'
        /\ phase' = [phase EXCEPT ![p] = "training"]
        /\ phase[p] \in {"opening", "waiting"}
        /\ UNCHANGED <<env, owner, receipts, parts, sealing, candidate, posted>>
    BY <1>3, GoingIn
  <2>2. /\ launch' \in LaunchStates \cup {None}
        /\ launch # None => launch' # None
        /\ launch' # None => launch'.identity = owner
        /\ launch' = launch \/ (/\ launch'.state = "ready" /\ launch'.session = env[p].session
                                /\ LeaderOf(p) = p)
    <3>1. CASE OpenBarrier(p)
      <4>1. launch' = LaunchState(p, "ready") /\ IsLeader(p)
        BY <1>1, <3>1 DEF OpenBarrier, Goes, At, Leading
      <4> QED
        BY <1>1, <2>1, <4>1, LaunchStateFacts, ProcFacts DEF States
    <3>2. CASE Await(p)
      BY <1>1, <3>2, TypeFacts DEF Await, files, TypeOK
    <3> QED
      BY <1>3, <3>1, <3>2
  <2>3. TypeOK'
    <3>1. [owner |-> owner, launch |-> launch, receipts |-> receipts, parts |-> parts]'
            \in Outputs
      BY <1>1, <2>1, <2>2, TypeFacts DEF Outputs
    <3>2. phase' \in [Proc -> Phases]
      BY <1>1, <2>1 DEF Phases
    <3> QED
      BY <1>1, <2>1, <2>2, <3>1, <3>2 DEF TypeOK
  <2>4. Places'
    <3> SUFFICES ASSUME NEW q \in Proc
                 PROVE  At(q, phase[q])'
      BY DEF Places
    <3>1. phase'[q] = IF q = p THEN "training" ELSE phase[q]
      BY <1>1, <2>1
    <3>2. CASE q = p
      BY <2>1, <3>1, <3>2 DEF At, Leading, Before, Trained, Saved, Bound, Announced
    <3>3. CASE q # p
      <4>1. At(q, phase'[q])
        BY <3>1, <3>3 DEF LInv, Places
      <4> QED
        BY <2>1, <2>2, <3>3, <4>1 DEF At, AllPosted, AllTrained
    <3> QED
      BY <3>2, <3>3
  <2>5. OneCreator'
    BY <1>1, <2>1 DEF LInv, OneCreator
  <2>6. BarrierShut'
    BY <2>1 DEF LInv, BarrierShut, AllPosted
  <2>7. Sessions' /\ OwnReceipts'
    BY <2>1 DEF LInv, Sessions, OwnReceipts, ReceiptOf
  <2>8. Told'
    <3>1. CASE launch' = launch
      BY <2>1, <3>1 DEF LInv, Told, AllTrained
    <3>2. CASE launch'.state = "ready" /\ launch'.session = env[p].session /\ LeaderOf(p) = p
      <4>1. \A q \in Proc : env[q].session = launch'.session => LeaderOf(q) \in entered'
        BY <2>1, <3>2, OneJob DEF LInv
      <4> QED
        BY <2>1, <3>2, <4>1 DEF LInv, Told, AllTrained
    <3> QED
      BY <2>2, <3>1, <3>2
  <2> QED
    BY <2>3, <2>4, <2>5, <2>6, <2>7, <2>8 DEF LInv
<1> QED
  BY <1>2, <1>3

\* A part that is written makes the checkpoint of its session larger.
LEMMA SaveStep ==
    ASSUME LInv, NEW p \in Proc, Save(p)
    PROVE  LInv'
<1>1. /\ At(p, phase[p]) /\ TypeOK /\ phase \in [Proc -> Phases]
      /\ parts \in [Session -> SUBSET Rank] /\ env[p].session \in Session /\ p[2] \in Rank
  BY TypeFacts, ProcFacts DEF LInv, Places
<1>2. /\ phase[p] = "training" /\ phase' = [phase EXCEPT ![p] = "saved"]
      /\ parts' = [parts EXCEPT ![env[p].session] = @ \cup {p[2]}]
      /\ UNCHANGED <<env, owner, launch, receipts, sealing, candidate, posted, entered>>
  BY DEF Save, Goes
<1>3. parts' \in [Session -> SUBSET Rank]
  BY <1>1, <1>2
<1>4. p[2] \in parts'[env[p].session]
  BY <1>1, <1>2
<1>5. \A s \in Session : parts[s] \subseteq parts'[s]
  BY <1>1, <1>2
<1>6. \A s : AllTrained(s) => AllTrained(s)'
  BY <1>2, <1>5, TypeFacts DEF AllTrained, LInv
<1>7. TypeOK'
  <2>1. [owner |-> owner, launch |-> launch, receipts |-> receipts, parts |-> parts]'
            \in Outputs
    BY <1>1, <1>2, <1>3, TypeFacts DEF Outputs
  <2>2. phase' \in [Proc -> Phases]
    BY <1>1, <1>2 DEF Phases
  <2> QED
    BY <1>1, <1>2, <2>1, <2>2 DEF TypeOK
<1>8. Places'
  <2> SUFFICES ASSUME NEW q \in Proc
               PROVE  At(q, phase[q])'
    BY DEF Places
  <2>1. phase'[q] = IF q = p THEN "saved" ELSE phase[q]
    BY <1>1, <1>2
  <2>2. At(q, phase[q]) /\ env[q].session \in Session
    BY TypeFacts DEF LInv, Places
  <2>3. CASE q = p
    BY <1>2, <1>4, <2>1, <2>2, <2>3
       DEF At, Leading, Before, Trained, Saved, Bound, Announced
  <2>4. CASE q # p
    BY <1>2, <1>5, <1>6, <2>1, <2>2, <2>4 DEF At, AllPosted
  <2> QED
    BY <2>3, <2>4
<1>9. OneCreator'
  BY <1>1, <1>2 DEF LInv, OneCreator
<1>10. Sessions' /\ OwnReceipts' /\ BarrierShut'
  BY <1>2 DEF LInv, Sessions, OwnReceipts, ReceiptOf, BarrierShut, AllPosted
<1>11. Told'
  BY <1>2, <1>6 DEF LInv, Told
<1> QED
  BY <1>7, <1>8, <1>9, <1>10, <1>11 DEF LInv

\* The build of a candidate quotes a launch state whose nodes have all trained.
LEMMA SealingSteps ==
    ASSUME LInv, SealRead \/ Seal \/ SealRaises
    PROVE  LInv'
<1>1. /\ sealing' \in {launch, None}
      /\ sealing' # None => launch.state = "completed"
      /\ candidate' # None => \/ candidate' = candidate
                              \/ sealing # None /\ candidate'.launch = sealing
      /\ UNCHANGED <<env, files, phase, posted, entered>>
  BY DEF SealRead, Seal, SealRaises
<1>2. launch \in LaunchStates \cup {None}
  BY DEF LInv, TypeOK, Outputs
<1>3. TypeOK'
  BY <1>1, <1>2 DEF LInv, TypeOK, files
<1>4. Sessions' /\ Places' /\ OneCreator' /\ OwnReceipts' /\ BarrierShut'
  BY <1>1 DEF LInv, Sessions, Places, At, AllPosted, AllTrained, OneCreator, OwnReceipts,
              ReceiptOf, BarrierShut, files
<1>5. Told'
  BY <1>1 DEF LInv, Told, AllTrained, files
<1> QED
  BY <1>3, <1>4, <1>5 DEF LInv

\* Every step keeps the invariant.
LEMMA StepInv ==
    ASSUME LInv, [Next]_vars
    PROVE  LInv'
<1>1. ASSUME NEW p \in Proc, Step(p) \/ Lapse(p)
      PROVE  LInv'
  BY <1>1, MovingSteps, CreatingSteps, ReportingSteps, ReceiptStep, EnteringSteps, SaveStep
     DEF Step
<1>2. CASE SealRead \/ Seal \/ SealRaises
  BY <1>2, SealingSteps
<1>3. CASE UNCHANGED vars
  BY <1>3 DEF vars, files, LInv, TypeOK, Sessions, Places, At, AllPosted, AllTrained,
              OneCreator, OwnReceipts, ReceiptOf, BarrierShut, Told
<1> QED
  BY <1>1, <1>2, <1>3 DEF Next

\* The invariant holds in every state of every behaviour.
LEMMA Invariance == Spec => []LInv
<1>1. Init => LInv
  BY InitInv
<1>2. LInv /\ [Next]_vars => LInv'
  BY StepInv
<1> QED
  BY <1>1, <1>2, PTL DEF Spec

-----------------------------------------------------------------------------
(* Theorems.                                                                *)

\* The files keep their forms whatever the jobs do, and the launch state always
\* belongs to the run that owns the directory (_coordinate_launch).
THEOREM LaunchTypeCorrect == Spec => []TypeOK
<1>1. LInv => TypeOK
  BY DEF LInv
<1> QED
  BY <1>1, Invariance, PTL

\* For any number of jobs and nodes, all that ever train in an output do so under the
\* identity it is bound to, and the nodes of a job under one plan.
THEOREM OneContractHolds == Spec => []OneContract
<1>1. LInv => OneContract
  <2> SUFFICES ASSUME LInv, NEW p \in entered
               PROVE  /\ env[p].identity = owner
                      /\ \A q \in entered : q[1] = p[1] => env[q] = env[p]
    BY DEF OneContract
  <2>1. AllPosted(p) /\ env[p].identity = owner
    BY DEF LInv, BarrierShut
  <2>2. ASSUME NEW q \in entered, q[1] = p[1]
        PROVE  env[q] = env[p]
    <3>1. q \in Proc
      BY DEF LInv, TypeOK
    <3>2. q = <<p[1], q[2]>> /\ q[2] \in Rank
      BY <2>2, <3>1, ProcFacts
    <3> QED
      BY <2>1, <3>2 DEF AllPosted
  <2> QED
    BY <2>1, <2>2
<1> QED
  BY <1>1, Invariance, PTL

\* The launch state a candidate quotes (_load_completed_launch_state) is that of a
\* training in which every node of the job took part and wrote its part.
THEOREM CandidateTrained == Spec => []CandidateWasTrained
<1>1. LInv => CandidateWasTrained
  BY DEF LInv, Told, AllTrained, CandidateWasTrained
<1> QED
  BY <1>1, Invariance, PTL

\* Job -> the ranks of its processes in a set; a process more is a rank more.
RanksIn(X) == [j \in Job |-> {r \in Rank : <<j, r>> \in X}]

LEMMA OneMore ==
    ASSUME NEW X, NEW Y, NEW p \in Proc, Y = X \cup {p}
    PROVE  RanksIn(Y) = [RanksIn(X) EXCEPT ![p[1]] = @ \cup {p[2]}]
<1> DEFINE f == [j \in Job |-> {r \in Rank : <<j, r>> \in X}]
           g == [j \in Job |-> {r \in Rank : <<j, r>> \in Y}]
<1>1. p = <<p[1], p[2]>> /\ p[1] \in Job /\ p[2] \in Rank
  BY ProcFacts
<1>2. \A j \in Job, r \in Rank : <<j, r>> \in Y <=> <<j, r>> \in X \/ (j = p[1] /\ r = p[2])
  BY <1>1
<1>3. ASSUME NEW j \in Job
      PROVE  g[j] = IF j = p[1] THEN f[j] \cup {p[2]} ELSE f[j]
  BY <1>1, <1>2
<1>4. g = [j \in Job |-> IF j = p[1] THEN f[j] \cup {p[2]} ELSE f[j]]
  BY <1>3
<1> QED
  BY <1>4 DEF RanksIn

\* The launch of any number of jobs over one directory is the barrier of NodeBarrier:
\* a receipt that is posted is an arrival, "ready" opens the barrier of its job, a
\* worker that finds it follows, and no other step touches the barrier.
THEOREM LaunchIsBarrier == Spec => ImplementsBarrier
<1> DEFINE arrived == RanksIn(posted)
           inside  == RanksIn(entered)
<1>1. Init => Barrier!Init
  BY DEF Init, Barrier!Init
<1>2. ASSUME LInv, [Next]_vars
      PROVE  [Barrier!Next]_(Barrier!vars)
  <2>1. ASSUME NEW p \in Proc, PostReceipt(p)
        PROVE  Barrier!Arrive(p[1], p[2])
    <3>1. posted' = posted \cup {p}
      BY <2>1 DEF PostReceipt
    <3>2. arrived' = [arrived EXCEPT ![p[1]] = @ \cup {p[2]}]
      BY <3>1, OneMore
    <3>3. inside' = inside
      BY <2>1 DEF PostReceipt
    <3> QED
      BY <3>2, <3>3 DEF Barrier!Arrive, RanksIn
  <2>2. ASSUME NEW p \in Proc, OpenBarrier(p) \/ (Await(p) /\ phase'[p] = "training")
        PROVE  Barrier!Open(p[1]) \/ Barrier!Follow(p[1], p[2])
    <3>1. AllPosted(p) /\ posted' = posted /\ LeaderOf(p) \in entered'
      BY <1>2, <2>2, GoingIn
    <3>2. entered' = entered \cup {p}
      BY <1>2, <2>2, GoingIn
    <3>3. p = <<p[1], p[2]>> /\ p[1] \in Job /\ p[2] \in Rank /\ Leader \in Rank
      BY ProcFacts
    <3>4. inside' = [inside EXCEPT ![p[1]] = @ \cup {p[2]}]
      BY <3>2, OneMore
    <3>5. arrived' = arrived
      BY <3>1
    <3>6. CASE LeaderOf(p) \in entered
      <4>1. Leader \in inside[p[1]]
        BY <3>3, <3>6 DEF LeaderOf, RanksIn
      <4> QED
        BY <3>4, <3>5, <4>1 DEF Barrier!Follow, RanksIn
    <3>7. CASE LeaderOf(p) \notin entered
      <4>1. p[2] = Leader
        BY <3>2, <3>1, <3>3, <3>7 DEF LeaderOf
      <4>2. arrived[p[1]] = Rank
        BY <3>1, <3>3 DEF AllPosted, RanksIn
      <4>3. inside[p[1]] = {}
        <5>1. ASSUME NEW r \in Rank, <<p[1], r>> \in entered
              PROVE  LeaderOf(p) \in entered
          BY <1>2, <5>1 DEF LInv, BarrierShut, LeaderOf
        <5> QED
          BY <3>3, <3>7, <5>1 DEF RanksIn
      <4> QED
        BY <3>3, <3>4, <3>5, <4>1, <4>2, <4>3 DEF Barrier!Open, RanksIn
    <3> QED
      BY <3>6, <3>7
  <2>3. CASE UNCHANGED <<posted, entered>>
    BY <2>3 DEF Barrier!vars
  <2>4. CASE UNCHANGED vars
    BY <2>3, <2>4 DEF vars
  <2>5. CASE Next
    <3>1. \A p \in Proc : p[1] \in Job /\ p[2] \in Rank
      BY ProcFacts
    <3>2. ASSUME NEW p \in Proc, Step(p) \/ Lapse(p)
          PROVE  [Barrier!Next]_(Barrier!vars)
      <4>1. CASE PostReceipt(p)
        BY <2>1, <3>1, <4>1 DEF Barrier!Next
      <4>2. CASE OpenBarrier(p) \/ (Await(p) /\ phase'[p] = "training")
        BY <2>2, <3>1, <4>2 DEF Barrier!Next
      <4>3. CASE Await(p) /\ phase'[p] # "training"
        BY <1>2, <2>3, <4>3, TypeFacts DEF Await, Goes, LInv
      <4>4. CASE ~PostReceipt(p) /\ ~OpenBarrier(p) /\ ~Await(p)
        BY <2>3, <3>2, <4>4
           DEF Step, Lapse, Begin, Create, Bind, Rebind, Announce, Join, Plan, Scan, Save,
               TrainingEnds, Complete, ReportFailure, TimesOut, PlanBlocked,
               SubprocessFails, LapsesIn, Dies
      <4> QED
        BY <4>1, <4>2, <4>3, <4>4
    <3>3. CASE SealRead \/ Seal \/ SealRaises
      BY <2>3, <3>3 DEF SealRead, Seal, SealRaises
    <3> QED
      BY <2>5, <3>2, <3>3 DEF Next
  <2> QED
    BY <1>2, <2>4, <2>5
<1> QED
  BY <1>1, <1>2, Invariance, PTL DEF Spec, ImplementsBarrier, Barrier!Spec

-----------------------------------------------------------------------------
(* No job is stuck.                                                         *)

NodeZero(j) == <<j, Leader>>
Workers(j)  == NodesOf(j) \ {NodeZero(j)}

\* Where a process has not posted; where a node 0 writes nothing of the output; where
\* one has announced its job and was not turned away.
Silent  == {"start", "create", "rebind", "bind", "announce", "joining", "plan", "receipt"}
Quiet   == {"start", "create", "rebind", "raised", "lapsed"}
Forward == {"plan", "receipt", "waiting", "opening", "training", "saved", "completing", "done"}

\* Receipts are there as soon as they are posted; only a job that resumes rebinds.
Roles ==
    \A p \in Proc :
        /\ p \in posted => ReceiptOf(p, p[2]) = env[p]
        /\ phase[p] \in Silent => p \notin posted
        /\ phase[p] = "waiting" => p \in posted
        /\ phase[p] = "rebind" => Resumes(p)

\* What the worker that joins and the node 0 that takes over both look at.
Takes(p) == ValidBinding(p) /\ (launch # None => SameRun(p))

\* Before node 0 of j has announced it: a worker that has been turned away was so for
\* a reason that turns node 0 away as well.
Early(j) ==
    LET n == NodeZero(j)
        turned == \E p \in Workers(j) : phase[p] = "raised"
    IN  /\ launch # None => launch.session # env[n].session
        /\ \A p \in Workers(j) : phase[p] \in {"start", "joining", "raised"}
        /\ phase[n] \in {"bind", "announce"} => ~turned
        /\ Resumes(n) =>
            /\ phase[n] \in {"start", "rebind", "announce", "raised"}
            /\ phase[n] = "announce" => Takes(n)
            /\ turned => ~Takes(n)
        /\ ~Resumes(n) =>
            /\ phase[n] \in {"start", "create", "bind", "announce", "raised"}
            /\ phase[n] \in {"bind", "announce"} => launch = None
            /\ turned => owner # Absent

\* What the launch state says while node 0 goes on.
Says(place) == IF place \in {"plan", "receipt", "waiting", "opening"} THEN "launching"
               ELSE IF place = "done" THEN "completed" ELSE "ready"

\* After that: the launch state is that of j, and nobody is turned away.
Late(j) ==
    LET n == NodeZero(j)
    IN  /\ phase[n] \in Forward
        /\ launch = LaunchState(n, Says(phase[n]))
        /\ Resumes(n) => ValidBinding(n)
        /\ \A p \in Workers(j) :
            phase[p] \in {"start", "joining", "plan", "receipt", "waiting", "training",
                          "saved", "done"}
        /\ (\E p \in NodesOf(j) : phase[p] \in {"completing", "done"}) =>
            \A p \in NodesOf(j) : phase[p] \in Saved

\* The other jobs do not write while node 0 of j is at work on the output.
Alone(j) ==
    phase[NodeZero(j)] \in {"bind", "announce"} \cup Forward =>
        \A k \in Job \ {j} : phase[NodeZero(k)] \in Quiet

InOrder == \A j \in Job : Calm(j) => Alone(j) /\ (Early(j) \/ Late(j))

\* The nodes of a job are processes; their node 0 is the one of rank 0.
LEMMA NodeFacts ==
    ASSUME NEW j \in Job
    PROVE  /\ NodeZero(j) \in NodesOf(j) /\ NodesOf(j) \subseteq Proc
           /\ NodeZero(j)[1] = j /\ IsLeader(NodeZero(j))
           /\ \A p \in Proc : p \in NodesOf(j) <=> p[1] = j
           /\ \A p \in NodesOf(j) : p[1] = j /\ LeaderOf(p) = NodeZero(j)
           /\ \A p \in Workers(j) : p \in NodesOf(j) /\ ~IsLeader(p) /\ p # NodeZero(j)
           /\ NodesOf(j) = Workers(j) \cup {NodeZero(j)}
           /\ \A r \in Rank : <<j, r>> \in NodesOf(j)
           /\ \A p \in NodesOf(j) : p = <<j, p[2]>> /\ p[2] \in Rank
BY NodesAssumption DEF NodeZero, NodesOf, Workers, Proc, Rank, Leader, IsLeader, LeaderOf

\* A step of p moves p, and where it cannot go.
LEMMA StepMoves ==
    ASSUME phase \in [Proc -> Phases], NEW p \in Proc, Step(p) \/ Lapse(p)
    PROVE  /\ env' = env /\ phase[p] \notin Ended
           /\ \E to \in Phases \ {"start"} :
                /\ phase' = [phase EXCEPT ![p] = to]
                /\ to \in {"create", "rebind"} => phase[p] = "start"
                /\ phase[p] = "lapsing" => to = "lapsed"
<1> USE DEF Phases, Ended, Goes
<1>1. CASE Begin(p)
  BY <1>1 DEF Begin
<1>2. CASE Create(p) \/ Bind(p) \/ Rebind(p) \/ Announce(p)
  BY <1>2 DEF Create, Bind, Rebind, Announce
<1>3. CASE Join(p)
  BY <1>3 DEF Join
<1>4. CASE Plan(p) \/ PostReceipt(p)
  BY <1>4 DEF Plan, PostReceipt
<1>5. CASE Scan(p)
  BY <1>5 DEF Scan
<1>6. CASE OpenBarrier(p) \/ Await(p)
  BY <1>6 DEF OpenBarrier, Await
<1>7. CASE Save(p) \/ TrainingEnds(p) \/ Complete(p) \/ ReportFailure(p)
  BY <1>7 DEF Save, TrainingEnds, Complete, ReportFailure
<1>8. CASE Lapse(p)
  BY <1>8 DEF Lapse, TimesOut, PlanBlocked, SubprocessFails, LapsesIn, Dies
<1> QED BY <1>1, <1>2, <1>3, <1>4, <1>5, <1>6, <1>7, <1>8 DEF Step

\* Who writes the identity, the launch state and the checkpoints.
LEMMA WhoWrites ==
    ASSUME LInv, NEW p \in Proc, Step(p) \/ Lapse(p)
    PROVE  /\ \/ UNCHANGED <<owner, launch>>
              \/ /\ IsLeader(p) /\ phase[p] = "create" /\ phase'[p] = "bind"
                 /\ owner = Absent /\ owner' = NoIdentity /\ launch' = launch
              \/ /\ IsLeader(p) /\ phase[p] = "bind"
                 /\ owner' = env[p].identity /\ launch' = launch
              \/ /\ IsLeader(p) /\ owner' = owner
                 /\ phase[p] \in {"announce", "opening", "completing", "failing", "lapsing"}
                 /\ \E state \in States : launch' = LaunchState(p, state)
           /\ parts' = parts \/ (phase[p] = "training" /\ Save(p))
<1>1. At(p, phase[p]) /\ phase \in [Proc -> Phases]
  BY TypeFacts DEF LInv, Places
<1> USE <1>1 DEF At, Leading, Goes, States, files
<1>2. CASE Begin(p) \/ Rebind(p) \/ Join(p) \/ Plan(p) \/ PostReceipt(p) \/ Scan(p)
  BY <1>2 DEF Begin, Rebind, Join, Plan, PostReceipt, Scan
<1>3. CASE Create(p) \/ Bind(p) \/ Announce(p)
  BY <1>3 DEF Create, Bind, Announce
<1>4. CASE OpenBarrier(p) \/ Complete(p) \/ ReportFailure(p)
  BY <1>4 DEF OpenBarrier, Complete, ReportFailure
<1>5. CASE Await(p) \/ Save(p) \/ TrainingEnds(p)
  BY <1>5 DEF Await, Save, TrainingEnds
<1>6. CASE Lapse(p)
  BY <1>6 DEF Lapse, TimesOut, PlanBlocked, SubprocessFails, LapsesIn, Dies
<1> QED BY <1>2, <1>3, <1>4, <1>5, <1>6 DEF Step

\* Every step keeps the roles.
LEMMA RolesKept ==
    ASSUME LInv, Roles, NEW p \in Proc, Step(p) \/ Lapse(p)
    PROVE  Roles'
<1>1. /\ phase \in [Proc -> Phases] /\ env' = env
      /\ receipts \in [Session \X Rank -> Receipts \cup {None}]
  BY TypeFacts, StepMoves DEF LInv
<1>2. PICK to \in Phases \ {"start"} : phase' = [phase EXCEPT ![p] = to]
  BY <1>1, StepMoves
<1>3. CASE PostReceipt(p)
  <2>1. /\ receipts' = [receipts EXCEPT ![<<env[p].session, p[2]>>] = env[p]]
        /\ posted' = posted \cup {p} /\ phase' = [phase EXCEPT ![p] = "waiting"]
    BY <1>3 DEF PostReceipt, Goes, Expected
  <2> SUFFICES ASSUME NEW q \in Proc
               PROVE  /\ q \in posted' => ReceiptOf(q, q[2])' = env[q]
                      /\ phase'[q] \in Silent => q \notin posted'
                      /\ phase'[q] = "waiting" => q \in posted'
                      /\ phase'[q] = "rebind" => Resumes(q)'
    BY <1>1 DEF Roles
  <2>2. <<env[p].session, p[2]>> \in Session \X Rank
        /\ <<env[q].session, q[2]>> \in Session \X Rank
    BY TypeFacts, ProcFacts DEF LInv
  <2>3. CASE q = p
    BY <1>1, <2>1, <2>2, <2>3 DEF ReceiptOf, Silent
  <2>4. CASE q # p
    <3>1. <<env[p].session, p[2]>> # <<env[q].session, q[2]>>
      BY <2>4, OneJob DEF LInv
    <3>2. ReceiptOf(q, q[2])' = ReceiptOf(q, q[2])
      BY <1>1, <2>1, <2>2, <3>1 DEF ReceiptOf
    <3>3. phase'[q] = phase[q]
      BY <1>1, <2>1, <2>4
    <3> QED BY <1>1, <2>1, <2>4, <3>2, <3>3 DEF Roles, Resumes
  <2> QED BY <2>3, <2>4
<1>4. CASE ~PostReceipt(p)
  <2>1. UNCHANGED <<receipts, posted>>
    BY <1>4 DEF Step, Lapse, Begin, Create, Bind, Rebind, Announce, Join, Plan, Scan,
        OpenBarrier, Await, Save, TrainingEnds, Complete, ReportFailure, TimesOut,
        PlanBlocked, SubprocessFails, LapsesIn, Dies, files
  <2>2. /\ to # "waiting"
        /\ to \in Silent => phase[p] \in Silent
        /\ to = "rebind" => Resumes(p)
    <3> USE <1>1, <1>2 DEF Silent, Goes
    <3>1. CASE Begin(p) \/ Create(p) \/ Bind(p) \/ Rebind(p)
      BY <3>1 DEF Begin, Create, Bind, Rebind
    <3>2. CASE Announce(p) \/ Join(p) \/ Plan(p)
      BY <3>2 DEF Announce, Join, Plan
    <3>3. CASE Scan(p) \/ OpenBarrier(p) \/ Await(p)
      BY <3>3 DEF Scan, OpenBarrier, Await
    <3>4. CASE Save(p) \/ TrainingEnds(p) \/ Complete(p) \/ ReportFailure(p)
      BY <3>4 DEF Save, TrainingEnds, Complete, ReportFailure
    <3>5. CASE Lapse(p)
      BY <3>5 DEF Lapse, TimesOut, PlanBlocked, SubprocessFails, LapsesIn, Dies
    <3> QED BY <1>4, <3>1, <3>2, <3>3, <3>4, <3>5 DEF Step
  <2>3. \A q \in Proc : phase'[q] = IF q = p THEN to ELSE phase[q]
    BY <1>1, <1>2
  <2> QED BY <1>1, <2>1, <2>2, <2>3 DEF Roles, ReceiptOf, Resumes
<1> QED BY <1>3, <1>4

\* A job that is calm was calm before.
LEMMA CalmBefore ==
    ASSUME LInv, NEW p \in Proc, Step(p) \/ Lapse(p), NEW j \in Job, Calm(j)'
    PROVE  Calm(j)
<1>1. phase \in [Proc -> Phases] /\ env' = env /\ phase[p] \notin Ended
  BY TypeFacts, StepMoves DEF LInv
<1>2. PICK to \in Phases \ {"start"} :
        /\ phase' = [phase EXCEPT ![p] = to]
        /\ to \in {"create", "rebind"} => phase[p] = "start"
        /\ phase[p] = "lapsing" => to = "lapsed"
  BY <1>1, StepMoves
<1>3. \A q \in Proc : phase'[q] = IF q = p THEN to ELSE phase[q]
  BY <1>1, <1>2
<1>4. \A q \in NodesOf(j) : phase[q] \notin {"lapsing", "lapsed"}
  BY <1>1, <1>2, <1>3, NodeFacts DEF Calm, Ended
<1>5. Undisturbed(j)
  <2> SUFFICES ASSUME NEW k \in Job \ {j},
                      ~(~Resumes(<<j, Leader>>) /\ ~Resumes(<<k, Leader>>))
               PROVE  phase[<<k, Leader>>] \in {"start", "create", "rebind"}
    BY DEF Undisturbed
  <2>1. phase'[<<k, Leader>>] \in {"start", "create", "rebind"}
    BY <1>1 DEF Calm, Undisturbed, Resumes
  <2>2. <<k, Leader>> \in Proc
    BY NodeFacts DEF NodeZero
  <2> QED BY <1>2, <1>3, <2>1, <2>2
<1>6. \A q, r \in NodesOf(j) : env[q] = env[r]
  BY <1>1 DEF Calm
<1> QED BY <1>4, <1>5, <1>6 DEF Calm

\* A calm job that resumes is undisturbed by the others altogether: none of them has
\* announced itself, and none trains.
LEMMA OthersWait ==
    ASSUME LInv, NEW j \in Job, Calm(j), Resumes(NodeZero(j)), NEW k \in Job \ {j}
    PROVE  /\ phase[NodeZero(k)] \in {"start", "create", "rebind"}
           /\ \A p \in NodesOf(k) : phase[p] # "training"
<1>1. phase[NodeZero(k)] \in {"start", "create", "rebind"}
  BY DEF Calm, Undisturbed, NodeZero
<1>2. NodeZero(k) \in Proc /\ \A p \in NodesOf(k) : p \in Proc /\ LeaderOf(p) = NodeZero(k)
  BY NodeFacts
<1>3. NodeZero(k) \notin entered
  BY <1>1, <1>2 DEF LInv, Places, At, Before
<1>4. \A p \in NodesOf(k) : p \notin entered
  BY <1>2, <1>3 DEF LInv, BarrierShut
<1>5. \A p \in NodesOf(k) : phase[p] # "training"
  BY <1>2, <1>4 DEF LInv, Places, At, Trained
<1> QED BY <1>1, <1>5

\* A node 0 that is quiet stays so while the output has an owner, if it does not
\* take the output over; and it writes nothing.
LEMMA QuietStays ==
    ASSUME LInv, Roles, NEW k \in Job, phase[NodeZero(k)] \in Quiet,
           NEW p \in NodesOf(k), Step(p) \/ Lapse(p),
           owner # Absent \/ phase[NodeZero(k)] # "create",
           phase'[NodeZero(k)] \notin {"announce"} \/ phase[NodeZero(k)] # "rebind"
    PROVE  /\ phase'[NodeZero(k)] \in Quiet
           /\ UNCHANGED <<owner, launch>>
<1> DEFINE z == NodeZero(k)
<1>1. /\ phase \in [Proc -> Phases] /\ env' = env /\ phase[p] \notin Ended
      /\ p \in Proc /\ z \in Proc /\ IsLeader(z) /\ LeaderOf(p) = z
  BY TypeFacts, StepMoves, NodeFacts DEF LInv
<1>2. IsLeader(p) => p = z
  BY <1>1, ProcFacts
<1>3. UNCHANGED <<owner, launch>>
  BY <1>1, <1>2, WhoWrites DEF Quiet
<1>4. CASE p # z
  BY <1>1, <1>3, <1>4, StepMoves
<1>5. CASE p = z
  <2>1. phase[z] \in {"start", "create", "rebind"}
    BY <1>1, <1>5 DEF Quiet, Ended
  <2>2. CASE Begin(z)
    BY <1>1, <1>3, <2>2 DEF Begin, Goes, Quiet
  <2>3. CASE Create(z)
    BY <1>1, <1>3, <2>3 DEF Create, Goes, Quiet
  <2>4. CASE Rebind(z)
    BY <1>1, <1>3, <2>4 DEF Rebind, Goes, Quiet
  <2>5. CASE Dies(z)
    BY <1>1, <1>3, <2>5 DEF Dies, Goes, Quiet
  <2>6. Begin(z) \/ Create(z) \/ Rebind(z) \/ Dies(z)
    BY <1>5, <2>1 DEF Step, Lapse, Bind, Announce, Join, Plan, PostReceipt, Scan, OpenBarrier,
       Await, Save, TrainingEnds, Complete, ReportFailure, TimesOut, PlanBlocked,
       SubprocessFails, LapsesIn, Goes
  <2> QED BY <1>3, <2>2, <2>3, <2>4, <2>5, <2>6
<1> QED BY <1>4, <1>5

\* A node 0 that has created the output, or goes on in it, is the owner's.
LEMMA Owned ==
    ASSUME LInv, NEW j \in Job, phase[NodeZero(j)] \in {"bind", "announce"} \cup Forward
    PROVE  owner # Absent
<1>1. NodeZero(j) \in Proc
  BY NodeFacts
<1>2. CASE phase[NodeZero(j)] = "bind"
  BY <1>1, <1>2, ValuesAssumption DEF LInv, OneCreator
<1>3. CASE phase[NodeZero(j)] # "bind"
  <2>1. owner = env[NodeZero(j)].identity
    BY <1>1, <1>3 DEF LInv, Places, At, Bound, Forward
  <2> QED BY <1>1, <2>1, TypeFacts, ValuesAssumption DEF LInv
<1> QED BY <1>2, <1>3

\* What Early and Late say stays true while their own nodes do nothing and the others
\* do not write.
LEMMA Untouched ==
    ASSUME NEW j \in Job, Early(j) \/ Late(j), env' = env,
           \A q \in NodesOf(j) : phase'[q] = phase[q],
           UNCHANGED launch,
           Resumes(NodeZero(j)) => UNCHANGED <<owner, parts>>,
           owner # Absent => owner' # Absent
    PROVE  Early(j)' \/ Late(j)'
<1> DEFINE n == NodeZero(j)
<1>1. n' = n /\ n \in NodesOf(j) /\ Workers(j) \subseteq NodesOf(j)
  BY NodeFacts DEF NodeZero
<1>2. Resumes(n)' = Resumes(n) /\ (Resumes(n) => (Takes(n)' = Takes(n)))
      /\ (Resumes(n) => (ValidBinding(n)' = ValidBinding(n)))
  BY DEF Resumes, Takes, ValidBinding, SameRun
<1>3. phase'[n] = phase[n] /\ \A q \in Workers(j) : phase'[q] = phase[q]
  BY <1>1
<1> HIDE DEF n
<1>4. CASE Early(j)
  BY <1>1, <1>2, <1>3, <1>4 DEF Early, n
<1>5. CASE Late(j)
  BY <1>1, <1>2, <1>3, <1>5 DEF Late, LaunchState, n
<1> QED BY <1>4, <1>5

\* A step of another job leaves a calm job in order.
LEMMA OtherStep ==
    ASSUME LInv, Roles, NEW j \in Job, Calm(j), Calm(j)', Alone(j), Early(j) \/ Late(j),
           NEW k \in Job \ {j}, NEW p \in NodesOf(k), Step(p) \/ Lapse(p)
    PROVE  Alone(j)' /\ (Early(j)' \/ Late(j)')
<1> DEFINE n == NodeZero(j)
           z == NodeZero(k)
<1>1. /\ phase \in [Proc -> Phases] /\ env' = env
      /\ p \in Proc /\ p[1] = k /\ n \in Proc /\ n[1] = j /\ z \in Proc /\ z[1] = k
      /\ NodesOf(j) \subseteq Proc /\ n' = n /\ z' = z
      /\ \A q \in NodesOf(j) : q[1] = j
      /\ n \in NodesOf(j) /\ IsLeader(z)
      /\ LeaderOf(p) = z
  BY TypeFacts, StepMoves, NodeFacts DEF LInv, NodeZero
<1>2. \A q \in Proc : q # p => phase'[q] = phase[q]
  BY <1>1, StepMoves
<1>3. \A q \in NodesOf(j) : phase'[q] = phase[q]
  BY <1>1, <1>2
<1>4. \A m \in Job : m # k => phase'[NodeZero(m)] = phase[NodeZero(m)]
  BY <1>1, <1>2, NodeFacts
<1>5. CASE Resumes(n)
  <2>1. phase[z] \in {"start", "create", "rebind"} /\ phase[p] # "training"
    BY <1>5, OthersWait
  <2>2. \A m \in Job \ {j} : phase'[NodeZero(m)] \in {"start", "create", "rebind"}
    BY <1>1, <1>5 DEF Calm, Undisturbed, NodeZero, Resumes
  <2>3. UNCHANGED <<owner, launch, parts>>
    <3>1. IsLeader(p) => p = z
      BY <1>1, ProcFacts
    <3>2. ~(IsLeader(p) /\ phase[p] = "create" /\ phase'[p] = "bind")
      BY <2>2, <3>1
    <3> QED BY <1>1, <2>1, <3>1, <3>2, WhoWrites
  <2>4. Alone(j)'
    BY <2>2, <1>1 DEF Alone, Quiet, NodeZero
  <2> QED BY <1>1, <1>3, <2>3, <2>4, Untouched
<1>6. CASE ~Resumes(n) /\ phase[n] \in {"bind", "announce"} \cup Forward
  <2>1. owner # Absent /\ phase[z] \in Quiet
    BY <1>6, Owned DEF Alone
  <2>2. ~(phase[z] = "rebind" /\ phase'[z] = "announce")
    <3> SUFFICES ASSUME phase[z] = "rebind" PROVE phase'[z] # "announce"
      OBVIOUS
    <3>1. Resumes(z)
      BY <1>1 DEF Roles
    <3> QED BY <1>1, <3>1 DEF Calm, Undisturbed, NodeZero, Resumes
  <2>3. phase'[z] \in Quiet /\ UNCHANGED <<owner, launch>>
    BY <2>1, <2>2, QuietStays
  <2>4. Alone(j)'
    <3>1. \A m \in Job \ {j} : phase'[NodeZero(m)] \in Quiet
      BY <1>4, <1>6, <2>3 DEF Alone
    <3> QED BY <3>1 DEF Alone, NodeZero
  <2> QED BY <1>1, <1>3, <1>6, <2>3, <2>4, Untouched
<1>7. CASE ~Resumes(n) /\ phase[n] \notin {"bind", "announce"} \cup Forward
  <2>1. Early(j) /\ phase'[n] = phase[n]
    BY <1>1, <1>3, <1>7 DEF Late
  <2>2. Alone(j)'
    BY <1>7, <2>1, <1>1 DEF Alone, NodeZero
  <2>3. launch' # None => launch'.session # env[n].session
    <3>1. CASE launch' = launch
      BY <2>1, <3>1 DEF Early
    <3>2. ASSUME NEW state \in States, launch' = LaunchState(p, state)
          PROVE  launch'.session # env[n].session
      BY <1>1, <3>2, OneJob DEF LInv, LaunchState
    <3> QED BY <1>1, <3>1, <3>2, WhoWrites
  <2>4. owner # Absent => owner' # Absent
    BY <1>1, WhoWrites, TypeFacts, ValuesAssumption DEF LInv
  <2>5. Workers(j)' = Workers(j) /\ \A q \in Workers(j) : phase'[q] = phase[q]
    BY <1>3, NodeFacts DEF Workers, NodesOf, NodeZero
  <2>6. ~Resumes(n)' /\ env'[n] = env[n]
    BY <1>1, <1>7 DEF Resumes
  <2>7. Early(j)'
    <3> HIDE DEF n
    <3>1. /\ phase[n] \in {"start", "create", "raised"}
          /\ \A q \in Workers(j) : phase[q] \in {"start", "joining", "raised"}
          /\ (\E q \in Workers(j) : phase[q] = "raised") => owner # Absent
      BY <2>1, <1>7 DEF Early, n
    <3> QED BY <1>1, <2>1, <2>3, <2>4, <2>5, <2>6, <3>1 DEF Early, n
  <2> QED BY <2>2, <2>7
<1> QED BY <1>5, <1>6, <1>7

\* The nodes of a calm job have one environment, and see one and the same thing.
LEMMA SameView ==
    ASSUME NEW j \in Job, Calm(j), NEW p \in NodesOf(j)
    PROVE  /\ env[p] = env[NodeZero(j)]
           /\ Resumes(p) <=> Resumes(NodeZero(j))
           /\ ValidBinding(p) <=> ValidBinding(NodeZero(j))
           /\ SameRun(p) <=> SameRun(NodeZero(j))
<1>1. env[p] = env[NodeZero(j)]
  BY NodeFacts DEF Calm
<1> QED BY <1>1 DEF Resumes, ValidBinding, SameRun

\* Node 0 goes through the coordination of a calm job in order.
LEMMA LeaderPrepares ==
    ASSUME LInv, Roles, NEW j \in Job, Calm(j), Calm(j)', Alone(j), Early(j),
           Step(NodeZero(j)) \/ Lapse(NodeZero(j))
    PROVE  Alone(j)' /\ (Early(j)' \/ Late(j)')
<1> DEFINE n == NodeZero(j)
           W == Workers(j)
           turned == \E q \in W : phase[q] = "raised"
<1>1. /\ phase \in [Proc -> Phases] /\ env' = env /\ phase[n] \notin Ended
      /\ n \in Proc /\ n \in NodesOf(j) /\ n' = n /\ W' = W /\ IsLeader(n)
      /\ \A q \in W : q \in NodesOf(j) /\ q \in Proc /\ q # n
      /\ NodesOf(j) = W \cup {n}
  BY TypeFacts, StepMoves, NodeFacts DEF LInv, NodeZero, Workers, NodesOf
<1>2. PICK to \in Phases \ {"start"} : phase' = [phase EXCEPT ![n] = to]
  BY <1>1, StepMoves
<1>3. phase'[n] = to /\ \A q \in Proc : q # n => phase'[q] = phase[q]
  BY <1>1, <1>2
<1>4. /\ \A q \in W : phase'[q] = phase[q]
      /\ turned' <=> turned
  BY <1>1, <1>3
<1>5. \A k \in Job \ {j} : phase'[NodeZero(k)] = phase[NodeZero(k)]
  BY <1>3, NodeFacts DEF NodeZero
<1>6. /\ launch # None => launch.session # env[n].session
      /\ \A q \in W : phase[q] \in {"start", "joining", "raised"}
      /\ phase[n] \in {"bind", "announce"} => ~turned
      /\ Resumes(n) =>
            /\ phase[n] \in {"start", "rebind", "announce"}
            /\ phase[n] = "announce" => Takes(n)
            /\ turned => ~Takes(n)
      /\ ~Resumes(n) =>
            /\ phase[n] \in {"start", "create", "bind", "announce"}
            /\ phase[n] \in {"bind", "announce"} => launch = None
            /\ turned => owner # Absent
  BY <1>1 DEF Early, Ended
<1>7. Resumes(n)' <=> Resumes(n)
  BY <1>1 DEF Resumes
<1>8. UNCHANGED <<owner, launch, parts>> => (Takes(n)' <=> Takes(n))
  BY <1>1 DEF Takes, ValidBinding, SameRun
<1> DEFINE NowEarly ==
            /\ launch' # None => launch'.session # env[n].session
            /\ to \in {"bind", "announce"} => ~turned
            /\ Resumes(n) =>
                /\ to \in {"start", "rebind", "announce", "raised"}
                /\ to = "announce" => Takes(n)'
                /\ turned => ~Takes(n)'
            /\ ~Resumes(n) =>
                /\ to \in {"start", "create", "bind", "announce", "raised"}
                /\ to \in {"bind", "announce"} => launch' = None
                /\ turned => owner' # Absent
<1>9. NowEarly => Early(j)'
  <2> SUFFICES ASSUME NowEarly PROVE Early(j)'
    OBVIOUS
  <2> HIDE DEF n, W
  <2> QED BY <1>1, <1>3, <1>4, <1>6, <1>7 DEF Early, n, W
<1>10. Alone(j)' <=> (to \in {"bind", "announce"} \cup Forward =>
                        \A k \in Job \ {j} : phase[NodeZero(k)] \in Quiet)
  <2>1. \A k \in Job \ {j} : NodeZero(k)' = NodeZero(k)
    BY DEF NodeZero
  <2> QED BY <1>1, <1>3, <1>5, <2>1 DEF Alone
<1>11. to \notin {"lapsing", "lapsed"}
  BY <1>1, <1>3 DEF Calm, NodesOf
<1> HIDE DEF n
<1>12. CASE Begin(n)
  <2>1. /\ to \in {"raised", "rebind", "create"} /\ (to = "rebind" => Resumes(n))
        /\ (to = "create" => ~Resumes(n)) /\ (to = "raised" => Resumes(n))
        /\ UNCHANGED <<owner, launch, parts>>
    BY <1>1, <1>3, <1>12 DEF Begin, Goes, files
  <2> QED BY <1>6, <1>8, <1>9, <1>10, <2>1 DEF Forward
<1>13. CASE Create(n)
  <2>1. phase[n] = "create" /\ ~Resumes(n) /\ UNCHANGED <<launch, parts>>
    BY <1>6, <1>13 DEF Create, Goes
  <2>2. CASE owner = Absent
    <3>1. to = "bind" /\ owner' = NoIdentity /\ ~turned
      BY <1>1, <1>3, <1>6, <1>13, <2>1, <2>2 DEF Create, Goes
    <3>2. launch = None
      BY <1>1, <2>2, TypeFacts, ValuesAssumption DEF LInv, TypeOK, LaunchStates
    <3>3. ASSUME NEW k \in Job \ {j} PROVE phase[NodeZero(k)] \in Quiet
      <4>1. /\ At(NodeZero(k), phase[NodeZero(k)]) /\ NodeZero(k) \in Proc
            /\ IsLeader(NodeZero(k)) /\ env[NodeZero(k)].identity \in Identity
            /\ phase[NodeZero(k)] \in Phases
        BY NodeFacts, TypeFacts DEF LInv, Places
      <4>2. phase[NodeZero(k)] \notin Bound \cup {"joining"}
        BY <2>2, <4>1, ValuesAssumption DEF At
      <4>3. phase[NodeZero(k)] # "bind"
        BY <2>2, <4>1, ValuesAssumption DEF LInv, OneCreator
      <4> QED BY <4>1, <4>2, <4>3 DEF Phases, Bound, Quiet, Ended
    <3> QED BY <1>9, <1>10, <2>1, <3>1, <3>2, <3>3, ValuesAssumption
  <2>3. CASE owner # Absent
    <3>1. to = "raised" /\ owner' = owner
      BY <1>1, <1>3, <1>13, <2>3 DEF Create, Goes
    <3> QED BY <1>6, <1>9, <1>10, <2>1, <3>1 DEF Forward
  <2> QED BY <2>2, <2>3
<1>14. CASE Bind(n)
  <2>1. /\ phase[n] = "bind" /\ to = "announce" /\ ~Resumes(n) /\ UNCHANGED <<launch, parts>>
    BY <1>1, <1>3, <1>6, <1>14 DEF Bind, Goes
  <2>2. \A k \in Job \ {j} : phase[NodeZero(k)] \in Quiet
    BY <2>1 DEF Alone, n
  <2> QED BY <1>6, <1>9, <1>10, <2>1, <2>2
<1>15. CASE Rebind(n)
  <2>1. /\ phase[n] = "rebind" /\ to \in {"announce", "raised"} /\ Resumes(n)
        /\ to = "announce" => Takes(n)
        /\ UNCHANGED <<owner, launch, parts>>
    BY <1>1, <1>3, <1>15 DEF Rebind, Goes, files, Roles, Takes
  <2>2. \A k \in Job \ {j} : phase[NodeZero(k)] \in Quiet
    BY <2>1, OthersWait DEF Quiet, n
  <2> QED BY <1>6, <1>8, <1>9, <1>10, <2>1, <2>2
<1>16. CASE Announce(n)
  <2>1. /\ phase[n] = "announce" /\ to = "plan" /\ UNCHANGED <<owner, parts>>
        /\ launch' = LaunchState(n, "launching") /\ ~turned
    BY <1>1, <1>3, <1>6, <1>16 DEF Announce, Goes
  <2>2. \A k \in Job \ {j} : phase[NodeZero(k)] \in Quiet
    BY <2>1 DEF Alone, n
  <2>3. Resumes(n)' => ValidBinding(n)'
    BY <1>1, <1>6, <1>7, <2>1 DEF Takes, ValidBinding
  <2>4. \A q \in W : phase'[q] \in {"start", "joining"}
    BY <1>4, <1>6, <2>1
  <2>5. LaunchState(n, "launching")' = LaunchState(n, "launching")
    BY <1>1 DEF LaunchState
  <2>6. \A q \in NodesOf(j) : phase'[q] \notin {"completing", "done"}
    BY <1>1, <1>3, <2>1, <2>4
  <2>7. Late(j)'
    <3> HIDE DEF W
    <3>1. n' = n /\ W' = W /\ NodesOf(j)' = NodesOf(j)
      BY <1>1 DEF NodesOf
    <3> QED BY <1>3, <2>1, <2>3, <2>4, <2>5, <2>6, <3>1 DEF Late, Says, Forward, n, W
  <2> QED BY <1>10, <2>2, <2>7
<1>17. Begin(n) \/ Create(n) \/ Bind(n) \/ Rebind(n) \/ Announce(n)
  <2>1. phase[n] \in {"start", "create", "bind", "rebind", "announce"}
    BY <1>6
  <2> QED BY <1>11, <1>1, <1>2, <1>3, <2>1 DEF Step, Lapse, Join, Plan, PostReceipt, Scan, OpenBarrier,
       Await, Save, TrainingEnds, Complete, ReportFailure, TimesOut, PlanBlocked,
       SubprocessFails, LapsesIn, Dies, Goes, n
<1> QED BY <1>12, <1>13, <1>14, <1>15, <1>16, <1>17

\* Node 0 goes on, and is never turned away: the receipts there are those it expects.
LEMMA LeaderGoesOn ==
    ASSUME LInv, NEW j \in Job, Calm(j), Calm(j)', Alone(j), Late(j),
           Step(NodeZero(j)) \/ Lapse(NodeZero(j))
    PROVE  Alone(j)' /\ Late(j)'
<1> DEFINE n == NodeZero(j)
           W == Workers(j)
<1>1. /\ phase \in [Proc -> Phases] /\ env' = env
      /\ n \in Proc /\ n \in NodesOf(j) /\ n' = n /\ W' = W /\ IsLeader(n)
      /\ NodesOf(j)' = NodesOf(j) /\ \A r \in Rank : <<n[1], r>> \in NodesOf(j)
      /\ \A q \in W : q \in NodesOf(j) /\ q \in Proc /\ q # n
      /\ NodesOf(j) = W \cup {n}
      /\ At(n, phase[n])
  BY TypeFacts, StepMoves, NodeFacts DEF LInv, NodeZero, Workers, NodesOf, Places
<1>2. PICK to \in Phases \ {"start"} : phase' = [phase EXCEPT ![n] = to]
  BY <1>1, StepMoves
<1>3. phase'[n] = to /\ \A q \in Proc : q # n => phase'[q] = phase[q]
  BY <1>1, <1>2
<1>4. \A q \in W : phase'[q] = phase[q]
  BY <1>1, <1>3
<1>5. to \notin {"lapsing", "lapsed"}
  BY <1>1, <1>3 DEF Calm
<1>6. /\ phase[n] \in Forward /\ launch = LaunchState(n, Says(phase[n]))
      /\ Resumes(n) => ValidBinding(n)
      /\ (\E q \in NodesOf(j) : phase[q] \in {"completing", "done"}) =>
            \A q \in NodesOf(j) : phase[q] \in Saved
  BY DEF Late
<1>7. \A q \in W : phase[q] \in {"start", "joining", "plan", "receipt", "waiting", "training",
                                "saved", "done"}
  BY DEF Late
<1>8. owner = env[n].identity
  BY <1>1, <1>6 DEF At, Bound, Forward
<1>9. /\ to \in Forward /\ launch' = LaunchState(n, Says(to)) /\ owner' = owner
      /\ \A s \in Session : parts[s] # {} => parts'[s] # {}
      /\ to \in {"completing", "done"} =>
            phase[n] = "completing" \/ \A q \in W : phase[q] \in Saved
      /\ phase[n] \in {"completing", "done"} => to \in Saved
      /\ phase[n] \notin {"saved", "completing"} => to \notin {"completing", "done"}
      /\ phase[n] \in Saved => to \in Saved
  <2> USE <1>1, <1>2, <1>3, <1>6, <1>8 DEF Goes, Says, Forward, files, Saved
  <2>1. CASE Plan(n)
    BY <2>1 DEF Plan
  <2>2. CASE PostReceipt(n)
    BY <2>2 DEF PostReceipt
  <2>3. CASE Scan(n)
    <3>1. ASSUME NEW r \in Rank PROVE ReceiptOf(n, r) \in {None, Expected(n)}
      <4>1. /\ <<n[1], r>> \in Proc /\ env[<<n[1], r>>] = env[n]
            /\ <<n[1], r>>[2] = r
        BY SameView, NodeFacts
      <4>2. ReceiptOf(<<n[1], r>>, r) # None => ReceiptOf(<<n[1], r>>, r) = env[n]
        BY <4>1 DEF LInv, OwnReceipts
      <4> QED BY <4>1, <4>2 DEF ReceiptOf, Expected
    <3> QED BY <2>3, <3>1 DEF Scan
  <2>4. CASE OpenBarrier(n)
    BY <2>4 DEF OpenBarrier
  <2>5. CASE Save(n)
    BY <2>5, TypeFacts DEF Save, LInv
  <2>6. CASE TrainingEnds(n)
    <3>1. \A q \in W : phase[q] \in Saved
      BY <2>6, NodeFacts DEF TrainingEnds
    <3> QED BY <2>6, <3>1 DEF TrainingEnds
  <2>7. CASE Complete(n)
    BY <2>7 DEF Complete
  <2>8. Plan(n) \/ PostReceipt(n) \/ Scan(n) \/ OpenBarrier(n) \/ Save(n) \/ TrainingEnds(n)
        \/ Complete(n)
    BY <1>5 DEF Step, Lapse, Begin, Create, Bind, Rebind, Announce, Join, Await,
       ReportFailure, TimesOut, PlanBlocked, SubprocessFails, LapsesIn, Dies
  <2> QED BY <2>1, <2>2, <2>3, <2>4, <2>5, <2>6, <2>7, <2>8
<1>10. Alone(j)'
  <2>1. \A k \in Job \ {j} : phase'[NodeZero(k)] = phase[NodeZero(k)]
    BY <1>3, NodeFacts DEF NodeZero
  <2>2. \A k \in Job : NodeZero(k)' = NodeZero(k)
    BY DEF NodeZero
  <2> QED BY <1>6, <2>1, <2>2 DEF Alone
<1>11. Resumes(n)' => ValidBinding(n)'
  <2>1. env[n].resume \in Session \cup {None}
    BY <1>1, TypeFacts DEF LInv, Receipts
  <2> QED BY <1>1, <1>6, <1>9, <2>1 DEF Resumes, ValidBinding
<1>12. (\E q \in NodesOf(j) : phase'[q] \in {"completing", "done"}) =>
            \A q \in NodesOf(j) : phase'[q] \in Saved
  <2> HIDE DEF n, W
  <2>1. ASSUME NEW q \in NodesOf(j), phase'[q] \in {"completing", "done"}
        PROVE  (\A x \in W : phase[x] \in Saved) /\ to \in Saved
    <3>1. CASE q = n
      BY <1>1, <1>3, <1>6, <1>9, <2>1, <3>1 DEF Saved
    <3>2. CASE q # n
      <4>1. phase[q] \in {"completing", "done"}
        BY <1>1, <1>4, <2>1, <3>2
      <4> QED BY <1>1, <1>6, <1>9, <4>1
    <3> QED BY <3>1, <3>2
  <2> QED BY <1>1, <1>3, <1>4, <2>1
<1>13. LaunchState(n, Says(to))' = LaunchState(n, Says(to))
  <2>1. Says(to)' = Says(to)
    BY DEF Says
  <2> QED BY <1>1, <2>1 DEF LaunchState
<1>14. Late(j)'
  <2> HIDE DEF n, W
  <2>1. LaunchState(n', Says(to)) = LaunchState(n, Says(to))
    BY <1>1
  <2> QED BY <1>1, <1>3, <1>4, <1>7, <1>9, <1>11, <1>12, <1>13 DEF Late, Says, LaunchState, n, W
<1> QED BY <1>10, <1>14

\* A worker is turned away only before the announcement, for what turns node 0 away.
LEMMA WorkerSteps ==
    ASSUME LInv, NEW j \in Job, Calm(j), Calm(j)', Alone(j), Early(j) \/ Late(j),
           NEW p \in Workers(j), Step(p) \/ Lapse(p)
    PROVE  Alone(j)' /\ (Early(j)' \/ Late(j)')
<1> DEFINE n == NodeZero(j)
           W == Workers(j)
<1>1. /\ phase \in [Proc -> Phases] /\ env' = env /\ phase[p] \notin Ended
      /\ n \in Proc /\ n \in NodesOf(j) /\ n' = n /\ W' = W /\ IsLeader(n)
      /\ NodesOf(j)' = NodesOf(j) /\ p \in Proc /\ p \in NodesOf(j) /\ ~IsLeader(p) /\ p # n
      /\ \A q \in W : q \in NodesOf(j) /\ q \in Proc /\ q # n
      /\ NodesOf(j) = W \cup {n}
      /\ \A r \in Rank : <<j, r>> \in NodesOf(j)
      /\ p[1] = j
  BY TypeFacts, StepMoves, NodeFacts DEF LInv, NodeZero, Workers, NodesOf
<1>2. PICK to \in Phases \ {"start"} : phase' = [phase EXCEPT ![p] = to]
  BY <1>1, StepMoves
<1>3. phase'[p] = to /\ \A q \in Proc : q # p => phase'[q] = phase[q]
  BY <1>1, <1>2
<1>4. to \notin {"lapsing", "lapsed"}
  BY <1>1, <1>3 DEF Calm
<1>5. UNCHANGED <<owner, launch>>
  BY <1>1, WhoWrites
<1>6. phase'[n] = phase[n]
  BY <1>1, <1>3
<1>7. /\ env[p] = env[n] /\ (Resumes(p) <=> Resumes(n))
      /\ (ValidBinding(p) <=> ValidBinding(n)) /\ (SameRun(p) <=> SameRun(n))
  BY <1>1, SameView
<1>8. Alone(j)'
  <2>1. \A k \in Job : NodeZero(k)' = NodeZero(k) /\ NodeZero(k) # p /\ NodeZero(k) \in Proc
    BY <1>1, NodeFacts DEF NodeZero
  <2> QED BY <1>3, <2>1 DEF Alone
<1>9. \A s \in Session : parts[s] # {} => parts'[s] # {}
  BY <1>1, WhoWrites, TypeFacts DEF Save, LInv
<1>10. env[n].resume \in Session \cup {None}
  BY <1>1, TypeFacts DEF LInv, Receipts
<1>11. (Resumes(n)' <=> Resumes(n)) /\ (Resumes(n) /\ ValidBinding(n) => ValidBinding(n)')
  BY <1>1, <1>5, <1>9, <1>10 DEF Resumes, ValidBinding
<1> HIDE DEF n, W
<1>12. CASE Early(j)
  <2> DEFINE turned == \E q \in W : phase[q] = "raised"
  <2>1. /\ launch # None => launch.session # env[n].session
        /\ \A q \in W : phase[q] \in {"start", "joining", "raised"}
        /\ phase[n] \in {"bind", "announce"} => ~turned
        /\ Resumes(n) =>
              /\ phase[n] \in {"start", "rebind", "announce", "raised"}
              /\ phase[n] = "announce" => Takes(n)
              /\ turned => ~Takes(n)
        /\ ~Resumes(n) =>
              /\ phase[n] \in {"start", "create", "bind", "announce", "raised"}
              /\ phase[n] \in {"bind", "announce"} => launch = None
              /\ turned => owner # Absent
    BY <1>12 DEF Early, n, W
  <2>2. phase[p] \in {"start", "joining"}
    BY <1>1, <2>1 DEF Ended, W
  <2>3. parts' = parts
    BY <1>1, <2>2, WhoWrites
  <2>4. /\ to \in {"joining", "raised"}
        /\ to = "raised" /\ Resumes(n) => ~Takes(n)
        /\ to = "raised" /\ ~Resumes(n) => owner # Absent /\ launch # None
    <3>1. CASE Begin(p)
      BY <1>1, <1>3, <1>7, <3>1 DEF Begin, Goes, Takes
    <3>2. CASE Join(p)
      <4>1. owner \in Identity /\ launch # None /\ launch.session # env[p].session
        BY <1>7, <2>1, <3>2 DEF Join
      <4>2. to = "raised" /\ ~(owner = env[p].identity /\ SameRun(p))
        BY <1>1, <1>3, <3>2, <4>1 DEF Join, Goes, SameSession
      <4> QED BY <1>7, <4>1, <4>2, ValuesAssumption DEF Takes, ValidBinding
    <3>3. Begin(p) \/ Join(p)
      BY <1>3, <1>4, <1>1, <1>2, <2>2 DEF Step, Lapse, Create, Bind, Rebind, Announce, Plan,
         PostReceipt, Scan, OpenBarrier, Await, Save, TrainingEnds, Complete, ReportFailure,
         TimesOut, PlanBlocked, SubprocessFails, LapsesIn, Dies, Goes
    <3> QED BY <3>1, <3>2, <3>3
  <2>5. Takes(n)' <=> Takes(n)
    BY <1>1, <1>5, <2>3 DEF Takes, ValidBinding, SameRun
  <2>6. /\ turned' => turned \/ to = "raised"
        /\ \A q \in W : phase'[q] \in {"start", "joining", "raised"}
    BY <1>1, <1>3, <2>1, <2>4
  <2> HIDE DEF turned
  <2>7. /\ phase[n] \in {"bind", "announce"} => ~turned'
        /\ Resumes(n) /\ turned' => ~Takes(n)'
        /\ ~Resumes(n) /\ turned' => owner' # Absent
    BY <1>5, <2>1, <2>4, <2>5, <2>6
  <2>8. Early(j)'
    BY <1>1, <1>5, <1>6, <1>11, <2>1, <2>5, <2>6, <2>7 DEF Early, n, W, turned
  <2> QED BY <1>8, <2>8
<1>13. CASE Late(j)
  <2>1. /\ phase[n] \in Forward /\ launch = LaunchState(n, Says(phase[n]))
        /\ Resumes(n) => ValidBinding(n)
        /\ (\E q \in NodesOf(j) : phase[q] \in {"completing", "done"}) =>
              \A q \in NodesOf(j) : phase[q] \in Saved
    BY <1>13 DEF Late, n
  <2>2. \A q \in W : phase[q] \in {"start", "joining", "plan", "receipt", "waiting", "training",
                                  "saved", "done"}
    BY <1>13 DEF Late, W
  <2>3. /\ owner = env[p].identity /\ SameRun(p) /\ SameSession(p)
        /\ launch.state \in {"launching", "ready", "completed"}
    <3>1. owner = env[n].identity
      BY <1>1, <2>1 DEF LInv, Places, At, Bound, Forward
    <3> QED BY <1>7, <2>1, <3>1 DEF LaunchState, SameRun, SameSession, Says
  <2>4. /\ to \in {"joining", "plan", "receipt", "waiting", "training", "saved", "done"}
        /\ to = "done" => \A q \in NodesOf(j) : phase[q] \in Saved
        /\ phase[p] \in Saved => to = "done"
    <3> USE <1>1, <1>3, <1>7, <2>1, <2>3 DEF Goes, Saved
    <3>1. CASE Begin(p)
      BY <3>1 DEF Begin
    <3>2. CASE Join(p)
      BY <3>2 DEF Join
    <3>3. CASE Plan(p) \/ PostReceipt(p)
      BY <3>3 DEF Plan, PostReceipt
    <3>4. CASE Await(p)
      BY <3>4 DEF Await
    <3>5. CASE Save(p)
      BY <3>5 DEF Save
    <3>6. CASE TrainingEnds(p)
      <4>1. \A q \in NodesOf(j) : phase[q] \in Saved
        BY <3>6, NodeFacts DEF TrainingEnds
      <4> QED BY <3>6, <4>1 DEF TrainingEnds
    <3>7. phase[p] \in {"start", "joining", "plan", "receipt", "waiting", "training", "saved"}
      BY <2>2 DEF W, Ended
    <3>8. Begin(p) \/ Join(p) \/ Plan(p) \/ PostReceipt(p) \/ Await(p) \/ Save(p)
          \/ TrainingEnds(p)
      BY <1>4, <1>2, <3>7 DEF Step, Lapse, Create, Bind, Rebind, Announce, Scan, OpenBarrier,
         Complete, ReportFailure, TimesOut, PlanBlocked, SubprocessFails, LapsesIn, Dies
    <3> QED BY <3>1, <3>2, <3>3, <3>4, <3>5, <3>6, <3>8
  <2>5. \A q \in W : phase'[q] \in {"start", "joining", "plan", "receipt", "waiting", "training",
                                   "saved", "done"}
    BY <1>1, <1>3, <2>2, <2>4
  <2>6. (\E q \in NodesOf(j) : phase'[q] \in {"completing", "done"}) =>
            \A q \in NodesOf(j) : phase'[q] \in Saved
    <3>1. ASSUME NEW q \in NodesOf(j), phase'[q] \in {"completing", "done"}
          PROVE  \A x \in NodesOf(j) : phase[x] \in Saved
      <4>1. q \in Proc
        BY <1>1
      <4> QED BY <1>3, <2>1, <2>4, <3>1, <4>1
    <3>2. (\A x \in NodesOf(j) : phase[x] \in Saved) => to \in Saved
      BY <1>1, <2>4 DEF Saved
    <3>3. \A x \in NodesOf(j) : phase'[x] = phase[x] \/ phase'[x] = to
      BY <1>1, <1>3
    <3> QED BY <3>1, <3>2, <3>3
  <2>7. launch' = LaunchState(n, Says(phase[n]))'
    <3>1. launch' = LaunchState(n, Says(phase[n]))
      BY <1>5, <2>1
    <3>2. Says(phase[n])' = Says(phase[n])
      BY <1>1, <1>6 DEF Says
    <3> QED BY <1>1, <3>1, <3>2 DEF LaunchState
  <2>8. Late(j)'
    BY <1>1, <1>6, <1>11, <2>1, <2>5, <2>6, <2>7 DEF Late, n, W
  <2> QED BY <1>8, <2>8
<1> QED BY <1>12, <1>13

\* Every deployment starts in order.
LEMMA OrderedInit ==
    ASSUME Init
    PROVE  Roles /\ InOrder
<1>1. PICK d \in Deployments :
        env = d.env /\ launch = d.before.launch
        /\ phase = [p \in Proc |-> "start"] /\ posted = {}
  BY DEF Init
<1>2. Roles
  BY <1>1 DEF Roles
<1>3. ASSUME NEW j \in Job PROVE Alone(j) /\ Early(j)
  <2>1. /\ NodeZero(j) \in Proc /\ \A p \in Workers(j) : p \in Proc
    BY NodeFacts
  <2>2. phase[NodeZero(j)] = "start" /\ \A p \in Workers(j) : phase[p] = "start"
    BY <1>1, <2>1
  <2>3. launch # None => launch.session # env[NodeZero(j)].session
    BY <1>1, <2>1, DeploymentsAssumption
  <2> QED BY <2>2, <2>3 DEF Alone, Early, Forward
<1> QED BY <1>2, <1>3 DEF InOrder

\* Every step keeps the order.
LEMMA OrderKept ==
    ASSUME LInv, Roles, InOrder, [Next]_vars
    PROVE  Roles' /\ InOrder'
<1>1. ASSUME NEW p \in Proc, Step(p) \/ Lapse(p)
      PROVE  Roles' /\ InOrder'
  <2>1. Roles'
    BY <1>1, RolesKept
  <2>2. ASSUME NEW j \in Job, Calm(j)'
        PROVE  Alone(j)' /\ (Early(j)' \/ Late(j)')
    <3>1. Calm(j)
      BY <1>1, <2>2, CalmBefore
    <3>2. Alone(j) /\ (Early(j) \/ Late(j))
      BY <3>1 DEF InOrder
    <3>3. CASE p = NodeZero(j)
      BY <1>1, <2>2, <3>1, <3>2, <3>3, LeaderPrepares, LeaderGoesOn
    <3>4. CASE p \in Workers(j)
      BY <1>1, <2>2, <3>1, <3>2, <3>4, WorkerSteps
    <3>5. CASE p[1] # j
      <4>1. p[1] \in Job \ {j} /\ p \in NodesOf(p[1])
        BY <3>5, ProcFacts, NodeFacts
      <4> QED BY <1>1, <2>2, <3>1, <3>2, <4>1, OtherStep
    <3> QED BY <3>3, <3>4, <3>5, NodeFacts
  <2> QED BY <2>1, <2>2 DEF InOrder
<1>2. CASE SealRead \/ Seal \/ SealRaises \/ UNCHANGED vars
  <2>1. UNCHANGED <<env, owner, launch, receipts, parts, phase, posted>>
    BY <1>2 DEF SealRead, Seal, SealRaises, vars, files
  <2>2. Roles'
    BY <2>1 DEF Roles, ReceiptOf, Resumes
  <2>3. ASSUME NEW j \in Job
        PROVE  /\ Calm(j)' <=> Calm(j)
               /\ Alone(j)' <=> Alone(j)
               /\ Early(j)' <=> Early(j)
               /\ Late(j)' <=> Late(j)
    <3>1. Calm(j)' <=> Calm(j)
      BY <2>1 DEF Calm, NodesOf, Undisturbed, Resumes
    <3>2. Alone(j)' <=> Alone(j)
      BY <2>1 DEF Alone, NodeZero
    <3>3. Early(j)' <=> Early(j)
      BY <2>1 DEF Early, NodeZero, Workers, NodesOf, Resumes, Takes, ValidBinding, SameRun
    <3>4. Late(j)' <=> Late(j)
      BY <2>1 DEF Late, NodeZero, Workers, NodesOf, Resumes, ValidBinding, LaunchState, Says
    <3> QED BY <3>1, <3>2, <3>3, <3>4
  <2> QED BY <2>2, <2>3 DEF InOrder
<1> QED BY <1>1, <1>2 DEF Next

\* A job that is in order and announced has a node that can go on.
LEMMA OrderGoesOn ==
    ASSUME LInv, Roles, NEW j \in Job, Calm(j), Late(j),
           ~(\A p \in NodesOf(j) : phase[p] = "done")
    PROVE  \E p \in NodesOf(j) : CanGoOn(p)
<1> DEFINE n == NodeZero(j)
           W == Workers(j)
<1>1. /\ n \in Proc /\ n \in NodesOf(j) /\ IsLeader(n) /\ n[1] = j
      /\ \A p \in W : p \in NodesOf(j) /\ p \in Proc /\ ~IsLeader(p)
      /\ NodesOf(j) = W \cup {n}
      /\ \A r \in Rank : <<j, r>> \in NodesOf(j)
      /\ \A p \in NodesOf(j) : p \in Proc /\ p[1] = j /\ p[2] \in Rank /\ p = <<j, p[2]>>
                               /\ LeaderOf(p) = n
  BY NodeFacts
<1>2. /\ phase[n] \in Forward /\ launch = LaunchState(n, Says(phase[n]))
      /\ \A p \in W : phase[p] \in {"start", "joining", "plan", "receipt", "waiting", "training",
                                    "saved", "done"}
      /\ (\E p \in NodesOf(j) : phase[p] \in {"completing", "done"}) =>
            \A p \in NodesOf(j) : phase[p] \in Saved
  BY DEF Late
<1>3. /\ owner = env[n].identity /\ owner \in Identity
      /\ launch # None
  <2>1. owner = env[n].identity
    BY <1>1, <1>2 DEF LInv, Places, At, Bound, Forward
  <2>2. Says(phase[n]) \in States
    BY DEF Says, States
  <2> QED BY <1>1, <1>2, <2>1, <2>2, TypeFacts, LaunchStateFacts DEF LInv
<1> HIDE DEF n, W
<1>4. ASSUME NEW p \in NodesOf(j)
      PROVE  env[p] = env[n] /\ SameSession(p) /\ SameRun(p)
  BY <1>1, <1>2, <1>4, SameView DEF SameSession, SameRun, LaunchState, n
<1>5. CASE \E p \in NodesOf(j) : phase[p] \in {"start", "plan", "receipt", "opening", "training",
                                               "completing"}
  BY <1>5 DEF CanGoOn, Ended
<1>6. CASE \A p \in NodesOf(j) : phase[p] \in Saved
  <2>1. PICK p \in NodesOf(j) : phase[p] # "done"
    OBVIOUS
  <2>2. CASE phase[p] = "saved"
    <3>1. \A r \in Rank : phase[<<p[1], r>>] \in {"saved", "completing", "done"}
      BY <1>1, <1>6 DEF Saved
    <3> QED BY <2>2, <3>1 DEF CanGoOn
  <2>3. CASE phase[p] = "completing"
    BY <2>3 DEF CanGoOn, Ended
  <2> QED BY <1>6, <2>1, <2>2, <2>3 DEF Saved
<1>7. CASE /\ ~(\E p \in NodesOf(j) : phase[p] \in {"start", "plan", "receipt", "opening",
                                                    "training", "completing"})
           /\ ~(\A p \in NodesOf(j) : phase[p] \in Saved)
  <2>1. /\ phase[n] \in {"waiting", "saved"}
        /\ \A p \in W : phase[p] \in {"joining", "waiting", "saved"}
    BY <1>1, <1>2, <1>7 DEF Forward, Saved
  <2>2. CASE phase[n] = "saved"
    <3>1. PICK p \in W : phase[p] \in {"joining", "waiting"}
      BY <1>1, <1>7, <2>1, <2>2 DEF Saved
    <3>2. n \in entered
      BY <1>1, <2>2 DEF LInv, Places, At, Trained
    <3>3. p \in posted
      <4>1. AllPosted(n)
        BY <3>2 DEF LInv, BarrierShut
      <4> QED BY <1>1, <3>1, <4>1 DEF AllPosted
    <3>4. phase[p] = "waiting"
      BY <1>1, <3>1, <3>3 DEF Roles, Silent
    <3>5. launch.state = "ready"
      BY <1>2, <2>2 DEF LaunchState, Says
    <3> QED BY <1>1, <3>1, <3>4, <3>5 DEF CanGoOn
  <2>3. CASE phase[n] = "waiting" /\ \E p \in W : phase[p] = "joining"
    <3>1. PICK p \in W : phase[p] = "joining"
      BY <2>3
    <3>2. launch.state = "launching"
      BY <1>2, <2>3 DEF LaunchState, Says
    <3>3. p \in NodesOf(j) /\ SameSession(p)
      BY <1>1, <1>4
    <3> QED BY <1>3, <3>1, <3>2, <3>3 DEF CanGoOn
  <2>4. CASE phase[n] = "waiting" /\ \A p \in W : phase[p] # "joining"
    <3>1. ASSUME NEW r \in Rank PROVE ReceiptOf(n, r) # None
      <4> DEFINE p == <<j, r>>
      <4>1. p \in NodesOf(j) /\ p \in Proc /\ p[2] = r
        BY <1>1
      <4> HIDE DEF p
      <4>2. p \in posted
        <5>1. CASE phase[p] = "waiting"
          BY <4>1, <5>1 DEF Roles
        <5>2. CASE phase[p] = "saved"
          BY <4>1, <5>2 DEF LInv, Places, At, Trained, TypeOK
        <5> QED BY <1>1, <2>1, <2>4, <4>1, <5>1, <5>2
      <4>3. ReceiptOf(p, r) = env[p] /\ env[p] = env[n]
        BY <1>4, <4>1, <4>2 DEF Roles
      <4> QED BY <1>1, <4>1, <4>3, TypeFacts DEF ReceiptOf, LInv
    <3> QED BY <1>1, <2>4, <3>1 DEF CanGoOn
  <2> QED BY <2>1, <2>2, <2>3, <2>4
<1> QED BY <1>5, <1>6, <1>7

\* For any number of jobs and nodes: a job that node 0 has announced never comes to a
\* standstill by itself.  One of its nodes can go on until all have trained, as long
\* as they agree, none lapses, and no job that resumes takes over the output.
THEOREM NeverStuck == Spec => []NoJobStuck
<1>1. Init => LInv /\ Roles /\ InOrder
  BY InitInv, OrderedInit
<1>2. LInv /\ Roles /\ InOrder /\ [Next]_vars => (LInv /\ Roles /\ InOrder)'
  BY StepInv, OrderKept
<1>3. LInv /\ Roles /\ InOrder => NoJobStuck
  <2> SUFFICES ASSUME LInv, Roles, InOrder, NEW j \in Job, Calm(j), launch # None,
                      launch.session = env[<<j, Leader>>].session
               PROVE  \/ \A p \in NodesOf(j) : phase[p] = "done"
                      \/ \E p \in NodesOf(j) : CanGoOn(p)
    BY DEF NoJobStuck
  <2>1. Late(j)
    BY DEF InOrder, Early, NodeZero
  <2> QED BY <2>1, OrderGoesOn
<1> QED BY <1>1, <1>2, <1>3, PTL DEF Spec
=============================================================================

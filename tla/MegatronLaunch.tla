--------------------------- MODULE MegatronLaunch ---------------------------
(***************************************************************************)
(* The launch of a training on several nodes over one shared output        *)
(* directory: execute_cyber_megatron_sft with the launch coordination and  *)
(* the readiness barrier (cyber_megatron_training.py), and the candidate   *)
(* that is sealed from a completed output (cyber_megatron_candidate.py).   *)
(* A job is one process per rank; jobs overlap as their operators please.  *)
(* Every file is replaced whole (atomic_write).  An identity stands for a  *)
(* configuration and its dataset, the number of nodes among them; a plan   *)
(* is an identity with the resume arguments.                               *)
(***************************************************************************)
EXTENDS Naturals, FiniteSets

CONSTANTS
    Job,            \* launches of the command on all nodes
    Nodes,          \* topology.nodes
    Identity,       \* run identities
    Endpoint,       \* MASTER_ADDR:MASTER_PORT
    Session,        \* launch sessions
    NoIdentity,     \* the output directory exists, its identity file does not
    Absent,         \* the output directory does not exist
    None,           \* no such file
    Deployments     \* [before, env]: the output a deployment starts from, and the
                    \* environment and arguments of each process

Rank   == 0..(Nodes - 1)
Leader == 0
Proc   == Job \X Rank

States == {"launching", "ready", "completed", "failed"}
LaunchStates == [identity : Identity, session : Session, endpoint : Endpoint, state : States]
Receipts == [identity : Identity, session : Session, endpoint : Endpoint,
             resume : Session \cup {None}]
Outputs ==
    [owner : Identity \cup {NoIdentity, Absent}, launch : LaunchStates \cup {None},
     receipts : [Session \X Rank -> Receipts \cup {None}],
     parts : [Session -> SUBSET Rank]]

ASSUME NodesAssumption == Nodes \in Nat \ {0}
ASSUME ValuesAssumption ==
    /\ NoIdentity \notin Identity /\ Absent \notin Identity /\ NoIdentity # Absent
    /\ None \notin LaunchStates \cup Receipts \cup Session
\* Operators give every job a session that no other launch has used.
ASSUME DeploymentsAssumption ==
    \A d \in Deployments :
        /\ d.before \in Outputs
        /\ d.before.launch # None => d.before.launch.identity = d.before.owner
        /\ d.env \in [Proc -> Receipts]
        /\ \A p, q \in Proc : d.env[p].session = d.env[q].session <=> p[1] = q[1]
        /\ \A p \in Proc, r \in Rank : d.before.receipts[<<d.env[p].session, r>>] = None
        /\ d.before.launch # None =>
            \A p \in Proc : d.before.launch.session # d.env[p].session

VARIABLES
    env,        \* process -> its identity, session, endpoint and resume; never changes
    owner,      \* the identity file of the output directory
    launch,     \* the launch state file
    receipts,   \* readiness receipts, by session and rank
    parts,      \* checkpoint of a session (--add_version): nodes that wrote their part
    phase,      \* process -> where it is
    sealing,    \* the launch state a candidate build has read, or None
    candidate,  \* the candidate manifest, or None
    posted,     \* auxiliary: processes that have posted their receipt
    entered     \* auxiliary: processes that have started Megatron

files == <<owner, launch, receipts, parts>>
vars  == <<env, files, phase, sealing, candidate, posted, entered>>

\* lapsed: the environment stopped it (a crash, a timeout, bad input, a failed
\* subprocess); raised: it rejected what it read.
Ended  == {"done", "raised", "lapsed"}
Phases == {"start", "create", "bind", "rebind", "announce", "joining", "plan", "receipt",
           "waiting", "opening", "training", "saved", "completing", "failing", "lapsing"}
            \cup Ended

Init ==
    \E d \in Deployments :
        /\ env = d.env
        /\ owner = d.before.owner
        /\ launch = d.before.launch
        /\ receipts = d.before.receipts
        /\ parts = d.before.parts
        /\ phase = [p \in Proc |-> "start"]
        /\ sealing = None /\ candidate = None
        /\ posted = {} /\ entered = {}

-----------------------------------------------------------------------------
(* Helpers.                                                                 *)

IsLeader(p) == p[2] = Leader

Goes(p, from, to) == phase[p] = from /\ phase' = [phase EXCEPT ![p] = to]

\* The readiness receipt the plan of p calls for, from any node of its job.
Expected(p) == env[p]

LaunchState(p, state) ==
    [identity |-> env[p].identity, session |-> env[p].session,
     endpoint |-> env[p].endpoint, state |-> state]

\* The resume arguments are bound to this output: its identity, a checkpoint in it.
ValidBinding(p) ==
    /\ owner = env[p].identity
    /\ parts[env[p].resume] # {}

\* The launch state belongs to the run and the endpoint of p.
SameRun(p) ==
    /\ launch.identity = env[p].identity
    /\ launch.endpoint = env[p].endpoint

SameSession(p) == launch.session = env[p].session

ReceiptOf(p, r) == receipts[<<env[p].session, r>>]

-----------------------------------------------------------------------------
(* Node 0 creates and binds the output directory, or takes it over.         *)

Resumes(p) == env[p].resume # None

Begin(p) ==
    /\ Goes(p, "start", IF Resumes(p) /\ ~ValidBinding(p) THEN "raised"
                        ELSE IF ~IsLeader(p) THEN "joining"
                        ELSE IF Resumes(p) THEN "rebind" ELSE "create")
    /\ UNCHANGED <<env, files, sealing, candidate, posted, entered>>

\* Mutant: an existing directory is taken (exist_ok).
CreateAnyway(p) ==
    /\ Goes(p, "create", "bind")
    /\ owner' = NoIdentity
    /\ UNCHANGED <<env, launch, receipts, parts, sealing, candidate, posted, entered>>

Create(p) ==
    /\ Goes(p, "create", IF owner = Absent THEN "bind" ELSE "raised")
    /\ owner' = IF owner = Absent THEN NoIdentity ELSE owner
    /\ UNCHANGED <<env, launch, receipts, parts, sealing, candidate, posted, entered>>

Bind(p) ==
    /\ Goes(p, "bind", "announce")
    /\ owner' = env[p].identity
    /\ UNCHANGED <<env, launch, receipts, parts, sealing, candidate, posted, entered>>

\* Mutant: the launch state that is there is not compared with the run.
RebindAnyway(p) ==
    /\ Goes(p, "rebind", IF ValidBinding(p) THEN "announce" ELSE "raised")
    /\ UNCHANGED <<env, files, sealing, candidate, posted, entered>>

Rebind(p) ==
    /\ LET free == launch # None => SameRun(p) /\ ~SameSession(p)
       IN  Goes(p, "rebind", IF ValidBinding(p) /\ free THEN "announce" ELSE "raised")
    /\ UNCHANGED <<env, files, sealing, candidate, posted, entered>>

Announce(p) ==
    /\ Goes(p, "announce", "plan")
    /\ launch' = LaunchState(p, "launching")
    /\ UNCHANGED <<env, owner, receipts, parts, sealing, candidate, posted, entered>>

\* A worker polls the files of node 0 until they are those of its session.
Join(p) ==
    /\ phase[p] = "joining"
    /\ owner \in Identity /\ launch # None
    /\ IF owner = env[p].identity /\ SameRun(p)
       THEN /\ SameSession(p) /\ launch.state \in {"launching", "failed"}
            /\ Goes(p, "joining", IF launch.state = "failed" THEN "raised" ELSE "plan")
       ELSE Goes(p, "joining", "raised")
    /\ UNCHANGED <<env, files, sealing, candidate, posted, entered>>

-----------------------------------------------------------------------------
(* The barrier.                                                             *)

\* The final plan is ready: the output is the one that was coordinated.
Plan(p) ==
    /\ LET ready == owner = env[p].identity /\ (Resumes(p) => ValidBinding(p))
       IN  Goes(p, "plan", IF ready THEN "receipt"
                           ELSE IF IsLeader(p) THEN "failing" ELSE "raised")
    /\ UNCHANGED <<env, files, sealing, candidate, posted, entered>>

PostReceipt(p) ==
    /\ Goes(p, "receipt", "waiting")
    /\ receipts' = [receipts EXCEPT ![<<env[p].session, p[2]>>] = Expected(p)]
    /\ posted' = posted \cup {p}
    /\ UNCHANGED <<env, owner, launch, parts, sealing, candidate, entered>>

\* Mutant: a receipt that is missing does not keep the barrier shut.
ScanPresent(p) ==
    /\ IsLeader(p) /\ phase[p] = "waiting"
    /\ IF \E r \in Rank : ReceiptOf(p, r) \notin {None, Expected(p)}
       THEN Goes(p, "waiting", "failing")
       ELSE Goes(p, "waiting", "opening")
    /\ UNCHANGED <<env, files, sealing, candidate, posted, entered>>

\* Mutant: receipts are counted, not compared.
ScanCounts(p) ==
    /\ IsLeader(p) /\ phase[p] = "waiting"
    /\ \A r \in Rank : ReceiptOf(p, r) # None
    /\ Goes(p, "waiting", "opening")
    /\ UNCHANGED <<env, files, sealing, candidate, posted, entered>>

\* Node 0 reads the receipts: one that differs rejects the launch, all of them
\* there lets it open the barrier.
Scan(p) ==
    /\ IsLeader(p) /\ phase[p] = "waiting"
    /\ IF \E r \in Rank : ReceiptOf(p, r) \notin {None, Expected(p)}
       THEN Goes(p, "waiting", "failing")
       ELSE (\A r \in Rank : ReceiptOf(p, r) # None) /\ Goes(p, "waiting", "opening")
    /\ UNCHANGED <<env, files, sealing, candidate, posted, entered>>

OpenBarrier(p) ==
    /\ Goes(p, "opening", "training")
    /\ launch' = LaunchState(p, "ready")
    /\ entered' = entered \cup {p}
    /\ UNCHANGED <<env, owner, receipts, parts, sealing, candidate, posted>>

\* A worker waits for "ready"; any other run or session, or a failure, raises.
Await(p) ==
    /\ ~IsLeader(p) /\ phase[p] = "waiting"
    /\ IF SameRun(p) /\ SameSession(p) /\ launch.state # "failed"
       THEN /\ launch.state = "ready"
            /\ Goes(p, "waiting", "training")
            /\ entered' = entered \cup {p}
       ELSE Goes(p, "waiting", "raised") /\ UNCHANGED entered
    /\ UNCHANGED <<env, files, sealing, candidate, posted>>

-----------------------------------------------------------------------------
(* The training, and what node 0 reports of it.                             *)

\* External: Megatron writes this node's part of the checkpoint.
Save(p) ==
    /\ Goes(p, "training", "saved")
    /\ parts' = [parts EXCEPT ![env[p].session] = @ \cup {p[2]}]
    /\ UNCHANGED <<env, owner, launch, receipts, sealing, candidate, posted, entered>>

\* External: Megatron ends on a node when every node of the job has saved.
TrainingEnds(p) ==
    /\ \A r \in Rank : phase[<<p[1], r>>] \in {"saved", "completing", "done"}
    /\ Goes(p, "saved", IF IsLeader(p) THEN "completing" ELSE "done")
    /\ UNCHANGED <<env, files, sealing, candidate, posted, entered>>

Complete(p) ==
    /\ Goes(p, "completing", "done")
    /\ launch' = LaunchState(p, "completed")
    /\ UNCHANGED <<env, owner, receipts, parts, sealing, candidate, posted, entered>>

ReportFailure(p) ==
    /\ \/ Goes(p, "failing", "raised")
       \/ Goes(p, "lapsing", "lapsed")
    /\ launch' = LaunchState(p, "failed")
    /\ UNCHANGED <<env, owner, receipts, parts, sealing, candidate, posted, entered>>

\* A deadline passes, the files of the dataset have changed, or the subprocess
\* fails: node 0 reports it.
LapsesIn(p, stages) ==
    /\ phase[p] \in stages
    /\ phase' = [phase EXCEPT ![p] = IF IsLeader(p) THEN "lapsing" ELSE "lapsed"]
    /\ UNCHANGED <<env, files, sealing, candidate, posted, entered>>

\* Mutant: the deadline of the barrier is that of node 0 only.
LeaderTimesOut(p) == LapsesIn(p, IF IsLeader(p) THEN {"waiting"} ELSE {"joining"})

TimesOut(p)        == LapsesIn(p, {"joining", "waiting"})
PlanBlocked(p)     == LapsesIn(p, {"plan"})
SubprocessFails(p) == LapsesIn(p, {"training", "saved"})

\* The process dies, its preflight fails, or an exception has no handler.
Dies(p) ==
    /\ phase[p] \notin Ended
    /\ phase' = [phase EXCEPT ![p] = "lapsed"]
    /\ UNCHANGED <<env, files, sealing, candidate, posted, entered>>

-----------------------------------------------------------------------------
(* A candidate is sealed from the output.                                   *)

\* Mutant: any state of the launch will do.
SealReadAny ==
    /\ candidate = None /\ sealing = None
    /\ owner \in Identity /\ launch # None
    /\ launch.identity = owner
    /\ sealing' = launch
    /\ UNCHANGED <<env, files, phase, candidate, posted, entered>>

\* The build reads the identity, then a completed launch state of it.
SealRead ==
    /\ candidate = None /\ sealing = None
    /\ owner \in Identity /\ launch # None
    /\ launch.state = "completed" /\ launch.identity = owner
    /\ sealing' = launch
    /\ UNCHANGED <<env, files, phase, candidate, posted, entered>>

\* It takes the inventory of the checkpoint it was given, which lies in the output,
\* and writes the manifest; or it raises.
Seal ==
    /\ sealing # None
    /\ \E s \in Session :
        /\ parts[s] # {}
        /\ candidate' = [launch |-> sealing, checkpoint |-> s, parts |-> parts[s]]
    /\ sealing' = None
    /\ UNCHANGED <<env, files, phase, posted, entered>>

SealRaises ==
    /\ sealing # None
    /\ sealing' = None
    /\ UNCHANGED <<env, files, phase, candidate, posted, entered>>

\* The verification rebuilds the manifest from the files and compares.
CandidateVerifies ==
    /\ candidate # None
    /\ candidate.launch = launch /\ launch.identity = owner
    /\ candidate.parts = parts[candidate.checkpoint]

-----------------------------------------------------------------------------
Step(p) ==
    \/ Begin(p) \/ Create(p) \/ Bind(p) \/ Rebind(p) \/ Announce(p) \/ Join(p)
    \/ Plan(p) \/ PostReceipt(p) \/ Scan(p) \/ OpenBarrier(p) \/ Await(p)
    \/ Save(p) \/ TrainingEnds(p) \/ Complete(p) \/ ReportFailure(p)

Lapse(p) == TimesOut(p) \/ PlanBlocked(p) \/ SubprocessFails(p) \/ Dies(p)

Next ==
    \/ \E p \in Proc : Step(p) \/ Lapse(p)
    \/ SealRead \/ Seal \/ SealRaises

Spec == Init /\ [][Next]_vars

\* A process that can go on does; deadlines pass; Megatron ends or fails.
FairSpec ==
    /\ Spec
    /\ \A p \in Proc :
        WF_vars(Step(p)) /\ WF_vars(TimesOut(p)) /\ WF_vars(SubprocessFails(p))

-----------------------------------------------------------------------------
(* Properties.                                                              *)

\* Types; a process that is past the coordination works on a directory with an
\* owner, and the launch state belongs to the run that owns the directory.
TypeOK ==
    /\ env \in [Proc -> Receipts]
    /\ [owner |-> owner, launch |-> launch, receipts |-> receipts, parts |-> parts]
        \in Outputs
    /\ phase \in [Proc -> Phases]
    /\ sealing \in LaunchStates \cup {None}
    /\ candidate # None => candidate.launch \in LaunchStates
    /\ posted \subseteq Proc /\ entered \subseteq posted
    /\ launch # None => launch.identity = owner

\* The launch is a barrier: no node of a job trains before every node of that job
\* has passed its own checks and posted its receipt, whatever other jobs, receipts
\* of earlier sessions and failures do to the shared files meanwhile.
Barrier == INSTANCE NodeBarrier WITH
    arrived <- [j \in Job |-> {r \in Rank : <<j, r>> \in posted}],
    inside  <- [j \in Job |-> {r \in Rank : <<j, r>> \in entered}]
ImplementsBarrier == Barrier!Spec

\* Every node that ever trained did so under the identity the output is bound to,
\* and under the plan, endpoint and session of the other nodes of its job.
OneContract ==
    \A p \in entered :
        /\ env[p].identity = owner
        /\ \A q \in entered : q[1] = p[1] => env[q] = env[p]

\* A candidate is sealed only when every node of the job whose completion it
\* quotes had passed the barrier and written its part.
CandidateWasTrained ==
    candidate # None =>
        \A p \in Proc : env[p].session = candidate.launch.session =>
            p \in entered /\ p[2] \in parts[env[p].session]

\* What a process waits for where it is: nothing, the files of node 0, the receipts,
\* the open barrier, or that the others have saved.
CanGoOn(p) ==
    \/ phase[p] \notin Ended \cup {"joining", "waiting", "saved"}
    \/ /\ phase[p] = "joining" /\ owner \in Identity /\ launch # None
       /\ owner = env[p].identity /\ SameRun(p) =>
            SameSession(p) /\ launch.state \in {"launching", "failed"}
    \/ /\ phase[p] = "waiting" /\ IsLeader(p)
       /\ (\A r \in Rank : ReceiptOf(p, r) \in {None, Expected(p)}) =>
            \A r \in Rank : ReceiptOf(p, r) # None
    \/ /\ phase[p] = "waiting" /\ ~IsLeader(p)
       /\ SameRun(p) /\ SameSession(p) => launch.state \in {"ready", "failed"}
    \/ /\ phase[p] = "saved"
       /\ \A r \in Rank : phase[<<p[1], r>>] \in {"saved", "completing", "done"}

\* A job is calm while its nodes agree, none of them lapses, and no job that resumes
\* takes over the output.
NodesOf(j) == {j} \X Rank
Undisturbed(j) ==
    \A k \in Job \ {j} :
        \/ ~Resumes(<<j, Leader>>) /\ ~Resumes(<<k, Leader>>)
        \/ phase[<<k, Leader>>] \in {"start", "create", "rebind"}
Calm(j) ==
    /\ \A p, q \in NodesOf(j) : env[p] = env[q]
    /\ \A p \in NodesOf(j) : phase[p] \notin {"lapsing", "lapsed"}
    /\ Undisturbed(j)

\* A job cannot come to a standstill by itself: once node 0 has announced a job
\* whose nodes agree, and while none of them lapses and no job that resumes takes
\* over the output, one of them can go on until all have trained.
NoJobStuck ==
    \A j \in Job :
        Calm(j) /\ launch # None /\ launch.session = env[<<j, Leader>>].session
        => \/ \A p \in NodesOf(j) : phase[p] = "done"
           \/ \E p \in NodesOf(j) : CanGoOn(p)

\* No job is stuck (_coordinate_launch, _wait_for_all_nodes_ready); and CanGoOn says
\* of every process whether it has a step.
NoStandstill == NoJobStuck /\ \A p \in Proc : CanGoOn(p) <=> ENABLED Step(p)

\* No node waits for ever, whatever became of node 0 and of the other nodes.
NodesReturn == \A p \in Proc : <>(phase[p] \in Ended)

\* cyber_megatron_candidate.py: a checkpoint cannot become a candidate before
\* training completes.  When a candidate that passes the verification was taken,
\* every node had written its part of the checkpoint it holds.
CandidateIsWhole == CandidateVerifies => candidate.parts = Rank
=============================================================================

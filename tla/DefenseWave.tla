----------------------------- MODULE DefenseWave -----------------------------
(***************************************************************************)
(* A wave of scheduled defensive steps: defense_wave_execution.py and the  *)
(* commands of defense_wave_execution_cli.py, given by several operators   *)
(* for one wave file (--wave and --output name the same file).  A command  *)
(* reads the file when it begins and writes the whole wave when it ends;   *)
(* nothing orders it with the other commands.  A run covers several teams: *)
(* one operator for the whole wave, or operators whose components overlap. *)
(* The schedule and its plan are files that do not change; connectors run  *)
(* outside the repository, once for each authorization a command returned. *)
(***************************************************************************)
EXTENDS InterceptionExecution

CONSTANTS
    Component,      \* the scheduled components
    Stops,          \* their interception plans: stop_if_verified, step by step
    Operator,       \* who may give commands
    Teams,          \* whom the components of a wave are assigned to, team by team
    Attended,       \* components whose operators keep giving commands
    MaxStarts,      \* bound, team by team: "start" commands
    MaxRuns         \* bound, team by team: authorizations asked for a component

ASSUME PlanAssumption ==
    Stops \in [Component -> Seq(BOOLEAN)] /\ \A c \in Component : Len(Stops[c]) > 0
ASSUME AttendedAssumption == Attended \subseteq Component
ASSUME TeamsAssumption == Teams \subseteq [Operator -> SUBSET Component]
ASSUME BoundsAssumption == {MaxStarts, MaxRuns} \subseteq [Teams -> Nat]

VARIABLES
    file,       \* the wave on disk: component -> [status, execution], or NoWave
    doing,      \* operator -> the command that has read the file, or Idle
    granted,    \* component -> authorizations a connector has not acted on
    ran,        \* component -> times its connector has executed the step
    starts,     \* waves started
    team        \* operator -> the components it gives commands for; never changes

vars == <<file, doing, granted, ran, starts, team>>

NoWave == <<>>
Idle   == [verb |-> "none"]

Statuses == {"PENDING_AUTHORIZATION", "AUTHORIZED", "EXECUTED",
             "VERIFIED_SUCCEEDED", "VERIFIED_FAILED"}
Terminal == {"VERIFIED_SUCCEEDED", "VERIFIED_FAILED"}

\* The wave of a schedule: nothing is authorized.
NewWave == [c \in Component |-> [status    |-> "PENDING_AUTHORIZATION",
                                 execution |-> StartExecution(Stops[c])]]

Complete(w) == \A c \in DOMAIN w : w[c].status \in Terminal

Init ==
    /\ file = NoWave
    /\ doing = [o \in Operator |-> Idle]
    /\ granted = [c \in Component |-> 0]
    /\ ran = [c \in Component |-> 0]
    /\ starts = 0
    /\ team \in Teams

\* "start": a wave for the schedule, whatever was done under it before.
Start(o) ==
    /\ doing[o] = Idle
    /\ team[o] # {}
    /\ starts < MaxStarts[team]
    /\ file' = NewWave
    /\ starts' = starts + 1
    /\ UNCHANGED <<doing, granted, ran, team>>

-----------------------------------------------------------------------------
(* The operations on a wave in memory.  The scheduled step is the first.    *)

Scheduled == 1

\* Mutant: the first step is authorized again after it failed.
RetriesFailed(k) == k.status \in {"PENDING_AUTHORIZATION", "VERIFIED_FAILED"}

AwaitsAuthorization(k) == k.status = "PENDING_AUTHORIZATION"

\* Whether an operation is accepted, or raises.
Accepts(verb, k) ==
    CASE verb = "authorize" -> AwaitsAuthorization(k) /\ CanAuthorize(k.execution)
      [] verb = "record"    -> k.status = "AUTHORIZED" /\ CanRecord(k.execution, Scheduled)
      [] OTHER              -> k.status = "EXECUTED" /\ CanVerify(k.execution, Scheduled)

\* Mutant: a component whose step failed may be authorized again.
UpdatedRequeues(verb, c, k) ==
    CASE verb = "authorize" -> [status |-> "AUTHORIZED", execution |-> Authorize(k.execution)]
      [] verb = "record"    -> [status |-> "EXECUTED",
                                execution |-> Record(k.execution, Scheduled)]
      [] verb = "succeeded" -> [status |-> "VERIFIED_SUCCEEDED",
                                execution |-> Verify(k.execution, Stops[c], Scheduled, TRUE)]
      [] verb = "failed"    -> [status |-> "PENDING_AUTHORIZATION",
                                execution |-> StartExecution(Stops[c])]

\* What an accepted operation makes of its component.
Updated(verb, c, k) ==
    CASE verb = "authorize" -> [status |-> "AUTHORIZED", execution |-> Authorize(k.execution)]
      [] verb = "record"    -> [status |-> "EXECUTED",
                                execution |-> Record(k.execution, Scheduled)]
      [] verb = "succeeded" -> [status |-> "VERIFIED_SUCCEEDED",
                                execution |-> Verify(k.execution, Stops[c], Scheduled, TRUE)]
      [] verb = "failed"    -> [status |-> "VERIFIED_FAILED",
                                execution |-> Verify(k.execution, Stops[c], Scheduled, FALSE)]

Verbs == {"authorize", "record", "succeeded", "failed"}

-----------------------------------------------------------------------------
(* The commands.                                                            *)

\* A command reads the wave.  Receipts and outcomes exist once a connector ran.
Read(o, verb, c) ==
    /\ doing[o] = Idle
    /\ file # NoWave
    /\ c \in team[o]
    /\ IF verb = "authorize" THEN granted[c] + ran[c] < MaxRuns[team] ELSE ran[c] > 0
    /\ doing' = [doing EXCEPT ![o] = [verb |-> verb, component |-> c, wave |-> file]]
    /\ UNCHANGED <<file, granted, ran, starts, team>>

\* Mutant: a component is authorized only when no other one is under way.
WriteInTurn(o) ==
    /\ doing[o] # Idle
    /\ LET c == doing[o].component
           k == doing[o].wave[c]
       IN  /\ Accepts(doing[o].verb, k)
           /\ doing[o].verb = "authorize" =>
                \A d \in Component \ {c} : doing[o].wave[d].status \notin Active
           /\ file' = [doing[o].wave EXCEPT ![c] = Updated(doing[o].verb, c, k)]
           /\ granted' = IF doing[o].verb = "authorize"
                         THEN [granted EXCEPT ![c] = @ + 1] ELSE granted
    /\ doing' = [doing EXCEPT ![o] = Idle]
    /\ UNCHANGED <<ran, starts, team>>

\* It writes the wave with its component updated.
Write(o) ==
    /\ doing[o] # Idle
    /\ LET c == doing[o].component
           k == doing[o].wave[c]
       IN  /\ Accepts(doing[o].verb, k)
           /\ file' = [doing[o].wave EXCEPT ![c] = Updated(doing[o].verb, c, k)]
           /\ granted' = IF doing[o].verb = "authorize"
                         THEN [granted EXCEPT ![c] = @ + 1] ELSE granted
    /\ doing' = [doing EXCEPT ![o] = Idle]
    /\ UNCHANGED <<ran, starts, team>>

\* The operation raises, or the process dies: nothing is written.
GiveUp(o) ==
    /\ doing[o] # Idle
    /\ doing' = [doing EXCEPT ![o] = Idle]
    /\ UNCHANGED <<file, granted, ran, starts, team>>

\* External: the connector executes the step it was authorized for.
Connector(c) ==
    /\ granted[c] > 0
    /\ granted' = [granted EXCEPT ![c] = @ - 1]
    /\ ran' = [ran EXCEPT ![c] = @ + 1]
    /\ UNCHANGED <<file, doing, starts, team>>

Command(o) == \E verb \in Verbs, c \in Component : Read(o, verb, c)

Next ==
    \/ \E o \in Operator : Start(o) \/ Command(o) \/ Write(o) \/ GiveUp(o)
    \/ \E c \in Component : Connector(c)

Spec == Init /\ [][Next]_vars

\* Commands end.  The operators of the attended components repeat a command
\* until it is written, and a connector acts on an authorization it was given.
FairSpec ==
    /\ Spec
    /\ \A o \in Operator : WF_vars(Write(o) \/ GiveUp(o))
    /\ \A c \in Attended :
        /\ WF_vars(Connector(c))
        /\ \A verb \in {"authorize", "record", "failed"} :
            /\ SF_vars(\E o \in Operator : Read(o, verb, c))
            /\ SF_vars(\E o \in Operator : /\ doing[o] # Idle
                                          /\ doing[o].component = c /\ doing[o].verb = verb
                                          /\ Write(o))

-----------------------------------------------------------------------------
(* Properties.                                                              *)

StepOfStatus ==
    [s \in Statuses |-> IF s = "PENDING_AUTHORIZATION" THEN "PENDING" ELSE s]

ValidWave(w) ==
    \A c \in DOMAIN w :
        /\ c \in Component
        /\ w[c].status \in Statuses
        /\ w[c].execution.steps \in [DOMAIN Stops[c] -> StepStatuses]
        /\ w[c].execution.steps[Scheduled] = StepOfStatus[w[c].status]
        /\ \A i, j \in DOMAIN Stops[c] :
            {w[c].execution.steps[i], w[c].execution.steps[j]} \subseteq Active => i = j

\* Every wave, on disk and in memory, passes the validators: the status of a
\* component is that of its scheduled step, and one step is active at most.
TypeOK ==
    /\ ValidWave(file)
    /\ \A o \in Operator : doing[o] # Idle => ValidWave(doing[o].wave)
    /\ granted \in [Component -> Nat] /\ ran \in [Component -> Nat]
    /\ starts \in 0..MaxStarts[team]

\* An attack is reported contained, and its remaining steps skipped, only on a
\* verified success, and never while a step of the plan is still due.
ContainmentIsEarned ==
    \A c \in DOMAIN file :
        LET e == file[c].execution IN
        /\ e.contained => file[c].status = "VERIFIED_SUCCEEDED" /\ e.complete
        /\ (\E i \in DOMAIN e.steps : e.steps[i] = "SKIPPED") => e.contained
        /\ e.complete => Pending(e) = {}

\* One command at a time: a single operator is at work, who starts the wave once.
Alone ==
    /\ \A o, p \in Operator : team[o] # {} /\ team[p] # {} => o = p
    /\ MaxStarts[team] =< 1

\* No component advances to a second step inside a wave, whatever its first one came
\* to and whoever wrote the file; and with one command at a time no connector executes
\* that first step twice.
ExecutedOnce ==
    /\ \A c \in DOMAIN file : \A i \in DOMAIN Stops[c] \ {Scheduled} :
        file[c].execution.steps[i] \in {"PENDING", "SKIPPED"}
    /\ Alone => \A c \in Component : granted[c] + ran[c] <= 1

\* With one command at a time, the wave implements the lifecycle of each of its
\* components: forward only, one at a time, independent of the others.
Lifecycle == INSTANCE WaveLifecycle WITH
    phase <- [c \in Component |-> IF file = NoWave \/ ~Alone THEN "UNSCHEDULED" ELSE file[c].status]
ImplementsLifecycle == Lifecycle!Spec

\* A component whose operator, alone at work, goes on is verified in the end,
\* even if nobody cares for the others.
AttendedFinish ==
    \A c \in Attended : Alone /\ file # NoWave ~> (file # NoWave /\ file[c].status \in Terminal)
=============================================================================

--------------------------- MODULE DefenseScheduler ---------------------------
(***************************************************************************)
(* Scheduling of defensive waves over attack world lines, tick by tick:    *)
(* build_defense_resource_schedule, the world-line context that names the  *)
(* component of a plan after its line, and the carry of waiting ages from  *)
(* one tick of the timeline to the next (defense_scheduling_lineage.py,    *)
(* attack_world_lines.py).                                                 *)
(***************************************************************************)
EXTENDS Naturals, Sequences, FiniteSets, SequencesExt

CONSTANTS
    Class,          \* DefenseResourceClass
    Capacity,       \* resource_capacities
    MaxTotal,       \* max_parallel_total
    WaitBoost,      \* wait_cycle_boost
    NoStep,         \* instead of a class: the component has no authorized step
    Unmapped,       \* instead of a class: _ACTION_RESOURCE lacks the step's action
    Settings        \* the rest of the policy and the bounds of an exploration:
                    \*   reserved, maxWaitBoost  the policy's fields
                    \*   subjects  world-line ids, numbers: the scheduler orders them
                    \*   profiles  what a component can be: [class, critical, score, mode]
                    \*   kinds     transitions explored, of {"new", "end", "group"}
                    \*   maxLines  bound: lines at one tick
                    \*   ageCap    bound: an age is counted up to here

ASSUME PolicyAssumption ==
    /\ Capacity \in [Class -> Nat]
    /\ MaxTotal \in Nat \ {0} /\ WaitBoost \in Nat
    /\ {NoStep, Unmapped} \cap Class = {}
    /\ \A x \in Settings :
        /\ x.reserved \in 0..MaxTotal /\ x.maxWaitBoost \in Nat /\ x.maxLines \in Nat
        /\ x.subjects \subseteq Nat /\ IsFiniteSet(x.subjects)
        /\ IsFiniteSet(x.profiles) /\ x.profiles # {}
        /\ x.profiles \subseteq [class : Class \cup {NoStep, Unmapped}, critical : BOOLEAN,
                                 score : Nat, mode : Nat]
        /\ x.kinds \subseteq {"new", "end", "group"}
\* Beyond the bound an age adds nothing to a priority.
ASSUME AgeCapAssumption ==
    \A x \in Settings : x.ageCap \in Nat /\ x.ageCap * WaitBoost >= x.maxWaitBoost

VARIABLES
    setting,    \* one of Settings; never changes
    lines,      \* the world lines of this tick
    ages,       \* scheduler state file: subject -> waiting age
    parents,    \* carry receipt: line -> its predecessors at the tick before
    wave        \* the schedule built at this tick, if any

vars == <<setting, lines, ages, parents, wave>>

Reserved     == setting.reserved
MaxWaitBoost == setting.maxWaitBoost
AgeCap       == setting.ageCap
MaxLines     == setting.maxLines
Subject      == setting.subjects
Profile      == setting.profiles
Kinds        == setting.kinds

INSTANCE DefenseAllocation

NoWave == [outcome |-> "none", scheduled |-> {}, deferred |-> {}, idle |-> {}]

Init ==
    /\ setting \in Settings
    /\ lines \in {l \in SUBSET Subject : Cardinality(l) <= MaxLines}
    /\ ages = <<>>
    /\ parents = <<>>
    /\ wave = NoWave

\* The assured plan of this tick in its world-line context: one component per
\* line, with whatever profile perception and assurance gave it.
Plan(profileOf) ==
    {[subject |-> s, class |-> profileOf[s].class, critical |-> profileOf[s].critical,
      score |-> profileOf[s].score, mode |-> profileOf[s].mode] : s \in lines}

\* Build the schedule of this tick; a KeyError leaves no schedule and no state.
Schedule ==
    /\ wave.outcome = "none"
    /\ \E profileOf \in [lines -> Profile] :
        LET plan == Plan(profileOf)
            w    == Wave(Candidates(plan, ages))
        IN  IF Raises(plan)
            THEN /\ wave' = [NoWave EXCEPT !.outcome = "raised"]
                 /\ UNCHANGED ages
            ELSE /\ wave' = [outcome |-> "built", scheduled |-> w.scheduled,
                             deferred |-> w.deferred,
                             idle |-> {c.subject : c \in {d \in plan : d.class = NoStep}}]
                 /\ ages' = NextAges(plan, ages, w)
    /\ parents' = <<>>
    /\ UNCHANGED <<setting, lines>>

\* Mutant: only a line that continues keeps an age.
InheritedOwn(from, s) == Age(ages, s)

\* The age of a line of the next tick: its own, or the oldest predecessor's.
Inherited(from, s) ==
    IF s \in DOMAIN ages THEN ages[s] ELSE Max({0} \cup {Age(ages, q) : q \in from[s]})

\* A group of overlapping components, more than one on a side, gets new ids
\* that share all the predecessors of the group; a new line has none.
Grouped(from) ==
    \A s \in DOMAIN from :
        /\ IF from[s] = {} THEN "new" \in Kinds ELSE "group" \in Kinds
        /\ Cardinality(from[s]) = 1 => \E t \in DOMAIN from \ {s} : from[t] = from[s]
        /\ \A t \in DOMAIN from : from[s] = from[t] \/ from[s] \cap from[t] = {}

\* The next tick of the timeline.  A line that continues or is rerouted keeps
\* its id; the others end or are succeeded by a group; ages are carried over.
Tick ==
    \E kept \in SUBSET lines, fresh \in SUBSET (Subject \ lines) :
        /\ Cardinality(kept \cup fresh) <= MaxLines
        /\ \E from \in [fresh -> SUBSET (lines \ kept)] :
            /\ Grouped(from)
            /\ "end" \in Kinds \/ kept \cup UNION {from[s] : s \in fresh} = lines
            /\ parents' = [s \in kept \cup fresh |-> IF s \in kept THEN {s} ELSE from[s]]
        /\ lines' = kept \cup fresh
        /\ ages' = [s \in lines' |-> Inherited(parents', s)]
        /\ wave' = NoWave
        /\ UNCHANGED setting

Next == Schedule \/ Tick

Spec == Init /\ [][Next]_vars

-----------------------------------------------------------------------------
(* Properties.                                                              *)

\* Types, capacities, and one item per component: what the validators of the
\* schedule and of its state demand.
TypeOK ==
    /\ lines \subseteq Subject
    /\ DOMAIN ages \subseteq lines /\ \A s \in DOMAIN ages : ages[s] \in 0..AgeCap
    /\ Cardinality(wave.scheduled) <= MaxTotal
    /\ \A c \in Class : Used(wave.scheduled, c) <= Capacity[c]
    /\ wave.outcome = "built" =>
        /\ Subjects(wave.scheduled) \cup Subjects(wave.deferred) \cup wave.idle = lines
        /\ Subjects(wave.scheduled) \cap Subjects(wave.deferred) = {}
        /\ DOMAIN ages = lines

\* A deferral has a reason.  The component does not fit into what the wave left
\* over, whatever was considered before and after it.  Every component that was
\* served, of its own class, or of any class when the wave is full, ranks ahead of it
\* or holds one of the critical reservations; and one of the critical components to
\* be reserved for is deferred only when others of them hold every control of its
\* class, whatever the rest scores and however long it has waited.  The order is the
\* code's: beyond the reservations the wait bonus counts before criticality, which
\* section 6 of the scheduler's document denies (BoostKeepsCriticality).
DeferredForBetter ==
    LET favoured == ToSet(Favoured(wave.scheduled \cup wave.deferred)) IN
    \A d \in wave.deferred :
        /\ ~Fits(wave.scheduled, d)
        /\ \A s \in wave.scheduled :
            \/ Ahead(s, d)
            \/ s \in favoured
            \/ /\ s.class # d.class
               /\ Used(wave.scheduled, d.class) = Capacity[d.class]
        /\ d \in favoured =>
            Used(wave.scheduled \cap favoured, d.class) = Capacity[d.class]

\* "The boost reduces starvation without overriding criticality": a critical component
\* is not deferred in favour of one of its class that is not critical, unless that one
\* would rank ahead of it had neither of them waited.
Unboosted(i) == [i EXCEPT !.wait = 0]
BoostKeepsCriticality ==
    \A d \in wave.deferred : \A s \in wave.scheduled :
        d.critical /\ ~s.critical /\ s.class = d.class => Ahead(Unboosted(s), Unboosted(d))

\* Restructuring an attack neither resets nor invents a waiting age: every
\* line is as old as the oldest of its predecessors, and a predecessor that is
\* not served passes its age on to every successor.
AgesSurvive ==
    [][Tick => \A s \in DOMAIN ages' :
        /\ \A q \in parents'[s] : ages'[s] >= Age(ages, q)
        /\ ages'[s] > 0 => \E q \in parents'[s] : ages'[s] = Age(ages, q)]_vars

\* Bounded waiting: while lines continue, appear and end, whatever they turn into
\* from tick to tick, none is deferred more often than the others can be served ahead
\* of it and the bonus needs to make up for the scores.  It takes a bonus that grows
\* for that long without reaching the top of the scale, a control for every class
\* that is asked for, and no reservation.
ScoreGap == Max({p.score - q.score : p, q \in Profile} \cap Nat)
WaitLimit == (MaxLines - 1) + ScoreGap \div WaitBoost
Unhindered ==
    /\ "group" \notin Kinds /\ Reserved = 0
    /\ WaitBoost > 0 /\ MaxWaitBoost >= WaitLimit * WaitBoost
    /\ \A p \in Profile :
        /\ p.score + WaitLimit * WaitBoost <= MaxPriority
        /\ p.class \in Class => Capacity[p.class] > 0
WaitingIsBounded == Unhindered => \A s \in DOMAIN ages : ages[s] <= WaitLimit
=============================================================================

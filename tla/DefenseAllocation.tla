-------------------------- MODULE DefenseAllocation --------------------------
(***************************************************************************)
(* How defense_resource_scheduler.py divides one wave of defensive         *)
(* capacity among the attack components of a plan.  Scores are integers,   *)
(* in hundredths: every term of the priority but the wait bonus is a       *)
(* property of the component and is summed into its score.                 *)
(***************************************************************************)
EXTENDS Naturals, Sequences, FiniteSets, SequencesExt

CONSTANTS
    Class,          \* DefenseResourceClass
    Capacity,       \* resource_capacities
    MaxTotal,       \* max_parallel_total
    Reserved,       \* reserved_critical_slots
    WaitBoost,      \* wait_cycle_boost
    MaxWaitBoost,   \* max_wait_boost
    NoStep,         \* instead of a class: the component has no authorized step
    Unmapped,       \* instead of a class: _ACTION_RESOURCE lacks the step's action
    AgeCap          \* bound: an age is counted up to here

MaxPriority == 400

Least(m, n) == IF m < n THEN m ELSE n

WaitBonus(wait) == Least(MaxWaitBoost, wait * WaitBoost)

Priority(i) == Least(MaxPriority, i.score + WaitBonus(i.wait))

\* The order of the allocation: priority, then critical, then mode, then name.
Ahead(a, b) ==
    \/ Priority(a) > Priority(b)
    \/ /\ Priority(a) = Priority(b)
       /\ \/ a.critical /\ ~b.critical
          \/ /\ a.critical = b.critical
             /\ a.mode > b.mode \/ (a.mode = b.mode /\ a.subject < b.subject)

\* A component has its place behind those that are ahead of it.
Ranked(items) ==
    [n \in 1..Cardinality(items) |->
        CHOOSE i \in items : Cardinality({k \in items : Ahead(k, i)}) = n - 1]

\* The critical components that are considered before any other.
Favoured(items) ==
    LET critical == Ranked({i \in items : i.critical})
    IN  SubSeq(critical, 1, Least(Reserved, Len(critical)))

Used(scheduled, class) == Cardinality({i \in scheduled : i.class = class})

\* Mutant: the capacity of the whole wave is not tested.
FitsClass(scheduled, i) == Used(scheduled, i.class) < Capacity[i.class]

Fits(scheduled, i) ==
    /\ Cardinality(scheduled) < MaxTotal
    /\ Used(scheduled, i.class) < Capacity[i.class]

\* Mutant: nobody is considered behind the first component that does not fit.
AllocateInLine(wave, i) ==
    IF Fits(wave.scheduled, i) /\ wave.deferred = {}
    THEN [wave EXCEPT !.scheduled = @ \cup {i}]
    ELSE [wave EXCEPT !.deferred = @ \cup {i}]

Allocate(wave, i) ==
    IF Fits(wave.scheduled, i)
    THEN [wave EXCEPT !.scheduled = @ \cup {i}]
    ELSE [wave EXCEPT !.deferred = @ \cup {i}]

\* The order in which the components of a plan are considered.
Considered(items) ==
    Favoured(items) \o Ranked(items \ ToSet(Favoured(items)))

EmptyWave == [scheduled |-> {}, deferred |-> {}]

Wave(items) == FoldLeft(Allocate, EmptyWave, Considered(items))

Age(ages, s) == IF s \in DOMAIN ages THEN ages[s] ELSE 0

\* The candidates of a plan: its components that have an authorized step.
Candidates(plan, ages) ==
    { [subject |-> c.subject, class |-> c.class, critical |-> c.critical,
       score |-> c.score, mode |-> c.mode, wait |-> Age(ages, c.subject)]
      : c \in {d \in plan : d.class # NoStep} }

\* A step whose action has no resource class raises for the whole plan.
Raises(plan) == \E c \in plan : c.class = Unmapped

Subjects(items) == {i.subject : i \in items}

\* Mutant: a component that was served keeps its age.
NextAgesKept(plan, ages, wave) ==
    [s \in Subjects(plan) |->
        IF s \in Subjects(wave.deferred) THEN Least(AgeCap, Age(ages, s) + 1)
                                         ELSE Age(ages, s)]

\* The ages after a wave: one more if deferred, none if served or idle.
NextAges(plan, ages, wave) ==
    [s \in Subjects(plan) |->
        IF s \in Subjects(wave.deferred) THEN Least(AgeCap, Age(ages, s) + 1) ELSE 0]
=============================================================================

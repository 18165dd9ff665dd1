------------------------- MODULE MCDefenseScheduler -------------------------
EXTENDS DefenseScheduler

CONSTANTS signer, endpoint

\* Less than the wave holds in one class, as much as it holds in the other.
Narrow == [c \in Class |-> IF c = signer THEN 1 ELSE 2]

P(class, critical, score) ==
    [class |-> class, critical |-> critical, score |-> score, mode |-> 1]

\* Close and distant scores, critical or not, and no authorized step.
MixedProfiles ==
    {P(c, FALSE, 40) : c \in Class} \cup {P(c, TRUE, 25) : c \in Class}
        \cup {P(NoStep, FALSE, 10)}

\* One class, scores closer than the largest bonus.
CloseProfiles == {P(signer, FALSE, x) : x \in {10, 20}}

\* One component of the plan asks for an action without a resource class.
WithUnmapped == {P(c, FALSE, 10) : c \in Class} \cup {P(Unmapped, FALSE, 10)}
\* Every transition between four lines.  Close scores that only continue, with a
\* bonus that lasts.  Lines of both classes that appear and end, under the same
\* condition.  An action nobody mapped.
Mixed == [reserved |-> 1, maxWaitBoost |-> 20, ageCap |-> 2, maxLines |-> 4,
          subjects |-> 1..4, profiles |-> MixedProfiles, kinds |-> {"new", "end", "group"}]
Waits == [reserved |-> 0, maxWaitBoost |-> 50, ageCap |-> 6, maxLines |-> 5,
          subjects |-> 1..5, profiles |-> CloseProfiles, kinds |-> {}]
Churn == [reserved |-> 0, maxWaitBoost |-> 30, ageCap |-> 4, maxLines |-> 3,
          subjects |-> 1..4, profiles |-> {P(c, FALSE, 10) : c \in Class} \cup CloseProfiles,
          kinds |-> {"new", "end"}]
Gap   == [reserved |-> 1, maxWaitBoost |-> 20, ageCap |-> 2, maxLines |-> 3,
          subjects |-> 1..3, profiles |-> WithUnmapped, kinds |-> {}]

AllSettings == {Mixed, Waits, Churn, Gap}

\* The default policy, and critical components that the others come close to.
Boosted == [reserved |-> 1, maxWaitBoost |-> 30, ageCap |-> 6, maxLines |-> 4,
            subjects |-> 1..4, profiles |-> {P(endpoint, TRUE, 25), P(endpoint, FALSE, 20)},
            kinds |-> {}]
DefaultPolicy == {Boosted}
=============================================================================

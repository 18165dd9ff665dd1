---------------------------- MODULE MCDefenseWave ----------------------------
EXTENDS DefenseWave, TLC

CONSTANTS k1, k2, o1, o2

\* One plan that stops at its first success, one whose success is not enough.
TwoPlans == (k1 :> <<TRUE, FALSE>>) @@ (k2 :> <<FALSE, FALSE>>)

\* An operator alone; two operators who both care for the second component.
OneOperator == (o1 :> {k1, k2}) @@ (o2 :> {})
Overlapping == (o1 :> {k1, k2}) @@ (o2 :> {k2})
AllTeams    == {OneOperator, Overlapping}

\* The wave is started again only where ExecutedOnce does not speak of it.
StartsByTeam == (OneOperator :> 1) @@ (Overlapping :> 2)

\* Alone, as many authorizations as it takes to find one too many.
RunsByTeam == (OneOperator :> 3) @@ (Overlapping :> 1)
=============================================================================

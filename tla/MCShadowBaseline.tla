-------------------------- MODULE MCShadowBaseline --------------------------
EXTENDS OwnerRotation

CONSTANTS a, b, c, d

\* Reports for a chain of four, for a rival of its second member, and for a
\* candidate that is already in it.
Reports == {<<a, b>>, <<b, c>>, <<c, d>>, <<a, c>>, <<c, a>>}

\* Advances up to one beyond the limit; or hand-overs of two lineages to two heirs.
Advancing == [reports |-> Reports, advances |-> 3, handoffs |-> 0, writers |-> 2]
Rotating  == [reports |-> {<<a, b>>, <<b, c>>}, advances |-> 2, handoffs |-> 2, writers |-> 1]
AllBudgets == {Advancing, Rotating}
RotatingOnly == {Rotating}
=============================================================================

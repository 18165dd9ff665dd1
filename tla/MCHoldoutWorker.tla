--------------------------- MODULE MCHoldoutWorker ---------------------------
(* Instances of HoldoutWorker.                                              *)
EXTENDS HoldoutWorker, TLC

CONSTANTS c1, c2

\* The responses for c1 may not parse, those for c2 do.
TwoCases == {c1, c2}
Lines == [case : {c1}, parses : BOOLEAN] \cup [case : {c2}, parses : {TRUE}]
=============================================================================

----------------------------- MODULE RequestGate -----------------------------
(***************************************************************************)
(* What the service promises of a request body: whether it reaches the     *)
(* application depends on the request alone, not on how the connection     *)
(* split it; it is handed over whole and once; and every request gets an   *)
(* end, unless its client leaves.                                          *)
(***************************************************************************)
EXTENDS Sequences

CONSTANTS
    Requests,
    Acceptable(_)   \* the request respects every limit

VARIABLES
    request,        \* never changes
    outcome,
    taken           \* what the application was given as the body

vars == <<request, outcome, taken>>

Init ==
    /\ request \in Requests
    /\ outcome = "pending"
    /\ taken = <<>>

Ends(how) == outcome = "pending" /\ outcome' = how /\ UNCHANGED <<request, taken>>

Deliver == Ends("delivered") /\ Acceptable(request)
Refuse  == Ends("refused") /\ ~Acceptable(request)
\* The transfer fails, or the client leaves.
Disturb == Ends("disturbed")
Abandon == Ends("abandoned")

Take ==
    /\ outcome = "delivered" /\ taken = <<>>
    /\ taken' = <<request.body>>
    /\ UNCHANGED <<request, outcome>>

End  == Abandon \/ Disturb \/ Deliver \/ Refuse
Next == End \/ Take

Spec == Init /\ [][Next]_vars

FairSpec == Spec /\ WF_vars(End)
=============================================================================

---------------------------- MODULE WaveLifecycle ----------------------------
(***************************************************************************)
(* What a defense wave promises: every scheduled component goes through    *)
(* its own lifecycle, one step at a time, forward only, whatever happens   *)
(* to the others.                                                          *)
(***************************************************************************)
CONSTANT Component

VARIABLE phase

Init == phase = [c \in Component |-> "UNSCHEDULED"]

Begin ==
    /\ phase = [c \in Component |-> "UNSCHEDULED"]
    /\ phase' = [c \in Component |-> "PENDING_AUTHORIZATION"]

Move(c, from, to) == phase[c] = from /\ phase' = [phase EXCEPT ![c] = to]

Next ==
    \/ Begin
    \/ \E c \in Component :
        \/ Move(c, "PENDING_AUTHORIZATION", "AUTHORIZED")
        \/ Move(c, "AUTHORIZED", "EXECUTED")
        \/ Move(c, "EXECUTED", "VERIFIED_SUCCEEDED")
        \/ Move(c, "EXECUTED", "VERIFIED_FAILED")

Spec == Init /\ [][Next]_phase
=============================================================================

----------------------------- MODULE NodeBarrier -----------------------------
(***************************************************************************)
(* What the launch of a distributed training promises: a job trains on no  *)
(* node before every one of its nodes has arrived, and its leader is the   *)
(* first to go in.                                                         *)
(***************************************************************************)
CONSTANTS Job, Rank, Leader

VARIABLES
    arrived,    \* job -> nodes that passed the checks before training
    inside      \* job -> nodes that have started to train

vars == <<arrived, inside>>

Init ==
    /\ arrived = [j \in Job |-> {}]
    /\ inside = [j \in Job |-> {}]

Arrive(j, r) ==
    /\ arrived' = [arrived EXCEPT ![j] = @ \cup {r}]
    /\ UNCHANGED inside

Open(j) ==
    /\ arrived[j] = Rank
    /\ inside[j] = {}
    /\ inside' = [inside EXCEPT ![j] = {Leader}]
    /\ UNCHANGED arrived

Follow(j, r) ==
    /\ Leader \in inside[j]
    /\ inside' = [inside EXCEPT ![j] = @ \cup {r}]
    /\ UNCHANGED arrived

Next == \E j \in Job : Open(j) \/ \E r \in Rank : Arrive(j, r) \/ Follow(j, r)

Spec == Init /\ [][Next]_vars
=============================================================================

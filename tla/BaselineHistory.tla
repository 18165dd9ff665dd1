-------------------------- MODULE BaselineHistory --------------------------
(***************************************************************************)
(* What the shadow-baseline lineage promises: one owner and one sealed     *)
(* replay have one history of approved baselines.  It starts with a seed   *)
(* and its first successor, and only grows, by a candidate it never held.  *)
(***************************************************************************)
EXTENDS Naturals, Sequences

CONSTANTS Candidate

VARIABLE history    \* candidates, oldest first

Init == history = <<>>

Begin(seed, c) ==
    /\ history = <<>> /\ seed # c
    /\ history' = <<seed, c>>

Advance(c) ==
    /\ history # <<>>
    /\ \A i \in DOMAIN history : history[i] # c
    /\ history' = Append(history, c)

Next == \E c \in Candidate : Advance(c) \/ \E seed \in Candidate : Begin(seed, c)

Spec == Init /\ [][Next]_history
=============================================================================

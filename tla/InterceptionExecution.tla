------------------------ MODULE InterceptionExecution ------------------------
(***************************************************************************)
(* One interception plan executed step by step: the values that            *)
(* interception_execution.py builds and the operations on them.  A plan is *)
(* the sequence of its steps' stop_if_verified; evidence and receipts are  *)
(* only required not to be empty and are left out.                         *)
(***************************************************************************)
EXTENDS Naturals, Sequences

StepStatuses == {"PENDING", "AUTHORIZED", "EXECUTED",
                 "VERIFIED_SUCCEEDED", "VERIFIED_FAILED", "SKIPPED"}

Active == {"AUTHORIZED", "EXECUTED"}

StartExecution(stops) ==
    [steps |-> [i \in DOMAIN stops |-> "PENDING"],
     contained |-> FALSE,
     complete |-> stops = <<>>]

Pending(e) == {i \in DOMAIN e.steps : e.steps[i] = "PENDING"}

\* Nothing is under way, and a step is left.
CanAuthorize(e) ==
    /\ ~e.complete /\ Pending(e) # {}
    /\ \A i \in DOMAIN e.steps : e.steps[i] \notin Active

\* Mutant: the last pending step is authorized.
AuthorizeLast(e) ==
    [e EXCEPT !.steps[CHOOSE i \in Pending(e) : \A j \in Pending(e) : i >= j] = "AUTHORIZED"]

\* The first pending step is authorized.
Authorize(e) ==
    [e EXCEPT !.steps[CHOOSE i \in Pending(e) : \A j \in Pending(e) : i <= j] = "AUTHORIZED"]

CanRecord(e, i) == e.steps[i] = "AUTHORIZED"

Record(e, i) == [e EXCEPT !.steps[i] = "EXECUTED"]

CanVerify(e, i) == e.steps[i] = "EXECUTED"

\* Mutant: any outcome of a stop step contains the attack.
VerifyStopsAnyway(e, stops, i, succeeded) ==
    [steps |-> [j \in DOMAIN e.steps |->
                    IF j = i THEN IF succeeded THEN "VERIFIED_SUCCEEDED" ELSE "VERIFIED_FAILED"
                    ELSE IF stops[i] /\ j > i THEN "SKIPPED" ELSE e.steps[j]],
     contained |-> stops[i],
     complete |-> stops[i]]

\* The outcome of a step: a success at a stop step contains the attack and
\* skips the rest; otherwise the execution is complete when no step is left.
Verify(e, stops, i, succeeded) ==
    LET verified == [e.steps EXCEPT ![i] = IF succeeded THEN "VERIFIED_SUCCEEDED"
                                                        ELSE "VERIFIED_FAILED"]
        halt == succeeded /\ stops[i]
        left == \E j \in DOMAIN verified : verified[j] = "PENDING"
    IN  [steps |-> [j \in DOMAIN verified |->
                        IF halt /\ j > i /\ verified[j] = "PENDING" THEN "SKIPPED"
                                                                   ELSE verified[j]],
         contained |-> IF halt THEN TRUE
                       ELSE IF left THEN e.contained
                       ELSE \E j \in DOMAIN verified : verified[j] = "VERIFIED_SUCCEEDED",
         complete  |-> halt \/ ~left \/ e.complete]
=============================================================================

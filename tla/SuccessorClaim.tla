--------------------------- MODULE SuccessorClaim ---------------------------
(***************************************************************************)
(* The claim files of shadow_baseline_claim.py: processes compete to       *)
(* record the successor of a predecessor in a file named after the         *)
(* predecessor.  The claim is written to a temporary file, synced, and     *)
(* linked to its name.  The temporary file is private to its process and   *)
(* a process that dies leaves at most that, so only the test for the name  *)
(* and the link are steps.                                                 *)
(***************************************************************************)
CONSTANTS
    Writer      \* processes

VARIABLES
    claims,     \* disk: claim files, [key |-> predecessor, value |-> successor]
    stage,      \* where each process is
    request     \* the claim each process wants to record

claimVars == <<claims, stage, request>>

Stages == {"idle", "check", "link", "claimed", "rejected"}

ClaimInit(nothing) ==
    /\ claims = {}
    /\ stage = [w \in Writer |-> "idle"]
    /\ request = [w \in Writer |-> nothing]

\* Mutant: the file is named after the successor too.
TakenBySame(w) == request[w] \in claims

\* The file named after the predecessor exists.
Taken(w) == \E c \in claims : c.key = request[w].key

\* Mutant: an existing claim is refused whatever it records.
RefuseExisting(w) == "rejected"

\* The claim file exists: it must record exactly the same claim.
Existing(w) == IF request[w] \in claims THEN "claimed" ELSE "rejected"

RequestClaim(w, key, value) ==
    /\ stage[w] = "idle"
    /\ stage' = [stage EXCEPT ![w] = "check"]
    /\ request' = [request EXCEPT ![w] = [key |-> key, value |-> value]]
    /\ UNCHANGED claims

\* The first test whether the file exists.
CheckClaim(w) ==
    /\ stage[w] = "check"
    /\ stage' = [stage EXCEPT ![w] = IF Taken(w) THEN Existing(w) ELSE "link"]
    /\ UNCHANGED <<claims, request>>

\* Mutant: the temporary file replaces whatever has the name by now.
ReplaceClaim(w) ==
    /\ stage[w] = "link"
    /\ claims' = {c \in claims : c.key # request[w].key} \cup {request[w]}
    /\ stage' = [stage EXCEPT ![w] = "claimed"]
    /\ UNCHANGED request

\* os.link fails if the name exists by now, and the process reads the file.
LinkClaim(w) ==
    /\ stage[w] = "link"
    /\ claims' = IF Taken(w) THEN claims ELSE claims \cup {request[w]}
    /\ stage' = [stage EXCEPT ![w] = IF Taken(w) THEN Existing(w) ELSE "claimed"]
    /\ UNCHANGED request

\* The process ends.
Leave(w, nothing) ==
    /\ stage' = [stage EXCEPT ![w] = "idle"]
    /\ request' = [request EXCEPT ![w] = nothing]
    /\ UNCHANGED claims
=============================================================================

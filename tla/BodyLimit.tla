------------------------------ MODULE BodyLimit ------------------------------
(***************************************************************************)
(* ActiveDefenseRequestBodyLimit (request_body_limit.py), the ASGI         *)
(* middleware that reads a request of the active-defense service before    *)
(* the application sees it.  The connection splits the body as it likes,   *)
(* stalls, or is closed; the deadline of the read may pass at any await.   *)
(* Requests share nothing, so there is one.  A byte is one of a few kinds, *)
(* a letter outside ASCII is two bytes, and a byte order mark is one.      *)
(***************************************************************************)
EXTENDS Naturals, FiniteSets, SequencesExt

CONSTANTS
    Requests,       \* [post, headers, declared, body]
    None,           \* no Content-Length
    MaxBytes,       \* _MAX_ACTIVE_DEFENSE_BODY_BYTES
    MaxChunks,      \* _MAX_ACTIVE_DEFENSE_BODY_CHUNKS
    MaxDepth,       \* _MAX_ACTIVE_DEFENSE_JSON_DEPTH
    MaxTokens       \* _MAX_ACTIVE_DEFENSE_JSON_STRUCTURE_TOKENS

Byte == {"open", "close", "separator", "quote", "backslash", "lead", "continuation", "nul",
         "mark", "other"}

\* Why a request is refused: reasons that lie in the transfer, or in the request.
Disturbances == {"event", "fragments", "late"}
Faults       == {"headers", "size", "structure", "nul", "encoding", "mark", "length"}

ASSUME RequestsAssumption ==
    Requests \subseteq [post : BOOLEAN, headers : {"fine", "wrong"},
                        declared : Nat \cup {None}, body : Seq(Byte)]
ASSUME LimitsAssumption ==
    /\ MaxBytes \in Nat /\ MaxChunks \in Nat /\ MaxDepth \in Nat /\ MaxTokens \in Nat
    /\ None \notin Nat \cup Disturbances \cup Faults

VARIABLES
    request,    \* what the client sends; never changes
    phase,      \* where the middleware is
    timed,      \* it is inside asyncio.timeout
    body,       \* the bytes read so far
    chunks,     \* the events read so far
    budget,     \* the state of the structure scanner
    decoder,    \* the state of the UTF-8 decoder
    refusals,   \* the reasons of the responses begun, in order
    taken       \* what the application received as body events

vars == <<request, phase, timed, body, chunks, budget, decoder, refusals, taken>>

Phases  == {"headers", "reading", "sealing", "refusing", "refused", "abandoned",
            "application", "served"}

NewBudget == [depth |-> 0, tokens |-> 0, inString |-> FALSE, escaped |-> FALSE, over |-> FALSE]

Init ==
    /\ request \in Requests
    /\ phase = "headers" /\ timed = FALSE
    /\ body = <<>> /\ chunks = 0
    /\ budget = NewBudget /\ decoder = "ready"
    /\ refusals = <<>> /\ taken = <<>>

-----------------------------------------------------------------------------
(* Scanning.                                                                *)

\* One byte of the structure scan, which skips what is inside a string.
Scanned(s, byte) ==
    IF s.inString THEN [s EXCEPT !.escaped = ~s.escaped /\ byte = "backslash",
                                 !.inString = s.escaped \/ byte # "quote"]
    ELSE LET depth  == s.depth + (IF byte = "open" THEN 1 ELSE 0)
             tokens == s.tokens + (IF byte \in {"open", "separator"} THEN 1 ELSE 0)
         IN  [depth    |-> IF byte = "close" /\ depth > 0 THEN depth - 1 ELSE depth,
              tokens   |-> tokens,
              inString |-> byte = "quote",
              escaped  |-> FALSE,
              over     |-> s.over \/ depth > MaxDepth \/ tokens > MaxTokens]

\* One byte of the incremental strict UTF-8 decoder.
Decoded(d, byte) ==
    IF d = "broken" \/ (d = "inside") # (byte = "continuation") THEN "broken"
    ELSE IF byte = "lead" THEN "inside" ELSE "ready"

\* Mutant: every fragment is scanned for itself.
BudgetAfresh(fragment) == FoldLeft(Scanned, NewBudget, fragment)

Budget(fragment) == FoldLeft(Scanned, budget, fragment)

\* Only the body of a POST is decoded.
Decoder(fragment) == IF request.post THEN FoldLeft(Decoded, decoder, fragment) ELSE decoder

\* Mutant: the limit is that of a fragment.
OversizedAlone(fragment) == Len(fragment) > MaxBytes

Oversized(fragment) == Len(fragment) > MaxBytes - Len(body)

\* The first limit that a fragment breaks.
Fault(fragment) ==
    CASE Oversized(fragment)                       -> "size"
      [] Budget(fragment).over                     -> "structure"
      [] request.post /\ Contains(fragment, "nul") -> "nul"
      [] Decoder(fragment) = "broken"              -> "encoding"
      [] OTHER                                     -> None

-----------------------------------------------------------------------------
(* The middleware.                                                          *)

\* A response is begun: sending it is an await of its own.
Refuse(reason) ==
    /\ phase' = "refusing"
    /\ refusals' = Append(refusals, reason)

CheckHeaders ==
    /\ phase = "headers"
    /\ CASE request.headers = "wrong" -> Refuse("headers") /\ UNCHANGED timed
         [] request.declared # None /\ request.declared > MaxBytes
                                      -> Refuse("size") /\ UNCHANGED timed
         [] OTHER -> phase' = "reading" /\ timed' = TRUE /\ UNCHANGED refusals
    /\ UNCHANGED <<request, body, chunks, budget, decoder, taken>>

\* The next event is a fragment of the body; the last one says so.
ReadFragment(end, more) ==
    /\ phase = "reading"
    /\ LET fragment == SubSeq(request.body, Len(body) + 1, end)
           reason   == IF chunks = MaxChunks THEN "fragments" ELSE Fault(fragment)
       IN  IF reason # None
           THEN Refuse(reason) /\ UNCHANGED <<timed, body, budget, decoder>>
           ELSE /\ body' = body \o fragment
                /\ budget' = Budget(fragment) /\ decoder' = Decoder(fragment)
                /\ phase' = IF more THEN "reading" ELSE "sealing"
                /\ timed' = more
                /\ UNCHANGED refusals
    /\ chunks' = chunks + 1
    /\ UNCHANGED <<request, taken>>

\* External: the connection hands out any part of what is left, even nothing.
Fragment ==
    \E end \in Len(body)..Len(request.body), more \in BOOLEAN :
        /\ more \/ end = Len(request.body)
        /\ ReadFragment(end, more)

ReadDisconnect ==
    /\ phase = "reading"
    /\ phase' = "abandoned" /\ timed' = FALSE
    /\ UNCHANGED <<request, body, chunks, budget, decoder, refusals, taken>>

\* An event of another type.
ReadOther ==
    /\ phase = "reading"
    /\ Refuse("event")
    /\ UNCHANGED <<request, timed, body, chunks, budget, decoder, taken>>

\* The deadline passes while an event is awaited, or while a refusal that was begun
\* inside the block is sent, which is answered all the same.
Timeout ==
    /\ timed
    /\ Refuse("late") /\ timed' = FALSE
    /\ UNCHANGED <<request, body, chunks, budget, decoder, taken>>

RefusalSent ==
    /\ phase = "refusing"
    /\ phase' = "refused" /\ timed' = FALSE
    /\ UNCHANGED <<request, body, chunks, budget, decoder, refusals, taken>>

\* What only the whole body shows; then the application is called.
Seal ==
    /\ phase = "sealing"
    /\ LET reason ==
            CASE request.post /\ decoder = "inside"                       -> "encoding"
              [] request.post /\ body # <<>> /\ Head(body) = "mark"        -> "mark"
              [] request.declared # None /\ request.declared # Len(body)   -> "length"
              [] OTHER                                                     -> None
       IN  IF reason # None
           THEN Refuse(reason)
           ELSE phase' = "application" /\ UNCHANGED refusals
    /\ UNCHANGED <<request, timed, body, chunks, budget, decoder, taken>>

\* External: the application asks for the body; once it has it, it is given what the
\* connection sends, which is that the client is gone.
Replay ==
    /\ phase = "application" /\ taken = <<>>
    /\ taken' = <<body>>
    /\ UNCHANGED <<request, phase, timed, body, chunks, budget, decoder, refusals>>

\* External: it answers, whether it read the body or not.
Respond ==
    /\ phase = "application"
    /\ phase' = "served"
    /\ UNCHANGED <<request, timed, body, chunks, budget, decoder, refusals, taken>>

Next ==
    \/ CheckHeaders \/ Seal \/ Timeout \/ RefusalSent
    \/ Fragment \/ ReadDisconnect \/ ReadOther
    \/ Replay \/ Respond

Spec == Init /\ [][Next]_vars

\* The middleware runs on, and the deadline passes.  Clients may stall for ever.
FairSpec == Spec /\ WF_vars(CheckHeaders) /\ WF_vars(Seal) /\ WF_vars(Timeout)

-----------------------------------------------------------------------------
(* Properties.                                                              *)

\* Types; the buffer never exceeds the limit, and the client gets a second response
\* only when the deadline passes while the first one is sent.
TypeOK ==
    /\ request.body \in Seq(Byte) /\ phase \in Phases /\ timed \in BOOLEAN
    /\ IsPrefix(body, request.body) /\ Len(body) =< MaxBytes
    /\ chunks \in 0..(MaxChunks + 1)
    /\ budget.depth \in 0..MaxDepth /\ budget.tokens \in 0..MaxTokens /\ ~budget.over
    /\ budget.inString \in BOOLEAN /\ budget.escaped => budget.inString
    /\ decoder \in {"ready", "inside"}
    /\ Len(refusals) =< 2
    /\ \A i \in DOMAIN refusals : refusals[i] \in Disturbances \cup Faults
    /\ Len(refusals) = 2 => refusals[2] = "late" /\ ~timed

\* The reference definition of an acceptable request, of the whole body at once.  A
\* string ends at the first quote after an even number of backslashes; what is not
\* in a string starts a lexeme of its own.
Run(s, i, j) == Max({k \in 0..(j - 1 - i) : \A m \in 1..k : s[j - m] = "backslash"})
LexemeEnd(s, i) ==
    IF s[i] # "quote" THEN i
    ELSE Min({j \in (i + 1)..Len(s) : s[j] = "quote" /\ Run(s, i, j) % 2 = 0} \cup {Len(s)})
LexemeStarts(s) ==
    {i \in 1..Len(s) :
        \A D \in SUBSET (1..(Len(s) + 1)) :
            1 \in D /\ (\A d \in D \ {Len(s) + 1} : LexemeEnd(s, d) + 1 \in D) => i \in D}

WellEncoded(s) ==
    \A i \in DOMAIN s :
        /\ s[i] = "lead" => i < Len(s) /\ s[i + 1] = "continuation"
        /\ s[i] = "continuation" => i > 1 /\ s[i - 1] = "lead"

\* A closing bracket without its opening one closes nothing, so the depth is that of
\* the deepest stretch of the body.
IsAcceptable(r) ==
    LET starts == LexemeStarts(r.body)
        Count(kinds, i, j) == Cardinality({p \in starts \cap (i..j) : r.body[p] \in kinds})
    IN  /\ r.headers = "fine"
        /\ Len(r.body) =< MaxBytes /\ r.declared \in {None, Len(r.body)}
        /\ Count({"open", "separator"}, 1, Len(r.body)) =< MaxTokens
        /\ \A i \in starts : \A j \in starts \cap (i..Len(r.body)) :
            Count({"open"}, i, j) =< MaxDepth + Count({"close"}, i, j)
        /\ r.post => /\ WellEncoded(r.body) /\ ~Contains(r.body, "nul")
                     /\ r.body # <<>> => Head(r.body) # "mark"

\* Whether a request is delivered does not depend on how its body was split: it is
\* when the whole request respects the limits, and the transfer was not disturbed.
\* The application is given exactly that body, once.  Every request is answered,
\* handed over or abandoned, however its client stalls.
Outcome ==
    CASE refusals # <<>> -> IF Head(refusals) \in Disturbances THEN "disturbed" ELSE "refused"
      [] phase = "abandoned"                  -> "abandoned"
      [] phase \in {"application", "served"}  -> "delivered"
      [] OTHER                                -> "pending"
Gate == INSTANCE RequestGate WITH Acceptable <- IsAcceptable, outcome <- Outcome
ImplementsGate == Gate!FairSpec
=============================================================================

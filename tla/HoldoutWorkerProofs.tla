------------------------ MODULE HoldoutWorkerProofs ------------------------
(***************************************************************************)
(* What holds of a hold-out worker for any cases, results, executions and  *)
(* commands: the replay accounts for every case, whatever was appended,    *)
(* and when executions do not overlap the evidence is of one of them.      *)
(***************************************************************************)
EXTENDS HoldoutWorker, FiniteSetTheorems, WellFoundedInduction, TLAPS

-----------------------------------------------------------------------------
(* The replay, line by line.                                               *)

\* Induction as a fact about a set of naturals, by its least absentee.
LEMMA NumbersInduction ==
    ASSUME NEW S, 0 \in S, \A n \in Nat : n \in S => n + 1 \in S
    PROVE  Nat \subseteq S
<1> DEFINE absent == Nat \ S
           less == OpToRel(<, Nat)
<1> SUFFICES ASSUME absent # {} PROVE FALSE
    OBVIOUS
<1>1. IsWellFoundedOn(less, Nat) /\ absent \subseteq Nat
    BY NatLessThanWellFounded
<1>2. \A i, j \in Nat : i < j => <<i, j>> \in less
    BY DEF OpToRel
<1> HIDE DEF less
<1>3. PICK n \in absent : \A m \in absent : ~ (<<m, n>> \in less)
    <2> HIDE DEF absent
    <2> QED BY <1>1, WFMin
<1>4. n # 0 /\ n \in Nat /\ n - 1 \in Nat /\ n - 1 < n /\ (n - 1) + 1 = n
    BY <1>3
<1>5. n - 1 \in S
    BY <1>2, <1>3, <1>4
<1> QED BY <1>3, <1>4, <1>5

Begun == [c \in Case |-> "MISSING_RESULT"]

\* f holds the outcomes after each of the first k lines.
FoldsTo(f, results, k) ==
    f = [n \in 0..k |-> IF n = 0 THEN Begun ELSE Taken(f[n - 1], results[n])]

\* The recursion of the replay has a solution, so Outcomes is one.
LEMMA OutcomesDefined ==
    ASSUME NEW results \in Seq(Line)
    PROVE  FoldsTo(Outcomes(results), results, Len(results))
<1> DEFINE S == {k \in Nat : \E f : FoldsTo(f, results, k)}
<1>1. 0 \in S
    <2> DEFINE f == [n \in 0..0 |-> Begun]
    <2>1. f = [n \in 0..0 |-> IF n = 0 THEN Begun ELSE Taken(f[n - 1], results[n])]
        OBVIOUS
    <2>2. FoldsTo(f, results, 0)
        BY <2>1, Zenon DEF FoldsTo
    <2> QED BY <2>2
<1>2. ASSUME NEW k \in Nat, k \in S PROVE k + 1 \in S
    <2>1. PICK f : FoldsTo(f, results, k)
        BY <1>2
    <2> DEFINE g == [n \in 0..(k + 1) |-> IF n = k + 1 THEN Taken(f[k], results[k + 1]) ELSE f[n]]
               h == [n \in 0..(k + 1) |-> IF n = 0 THEN Begun ELSE Taken(g[n - 1], results[n])]
    <2>2. DOMAIN f = 0..k /\ \A n \in 0..k : f[n] = IF n = 0 THEN Begun ELSE Taken(f[n - 1], results[n])
        BY <2>1 DEF FoldsTo
    <2>3. ASSUME NEW n \in 0..(k + 1) PROVE g[n] = h[n]
        <3>1. CASE n = k + 1
            <4>1. g[n - 1] = f[k] /\ n # 0
                BY <3>1
            <4> QED BY <3>1, <4>1
        <3>2. CASE n # k + 1 /\ n # 0
            <4>1. n \in 0..k /\ n - 1 \in 0..(k + 1) /\ n - 1 # k + 1
                BY <3>2
            <4>2. g[n] = f[n] /\ g[n - 1] = f[n - 1] /\ h[n] = Taken(g[n - 1], results[n])
                BY <3>2, <4>1
            <4> QED BY <2>2, <3>2, <4>1, <4>2
        <3>3. CASE n = 0
            BY <2>2, <3>3
        <3> QED BY <3>1, <3>2, <3>3
    <2>4. g = h
        BY <2>3
    <2>5. FoldsTo(g, results, k + 1)
        BY <2>4, Zenon DEF FoldsTo
    <2> QED BY <2>5
<1>3. Len(results) \in S
    <2> HIDE DEF S
    <2>1. Nat \subseteq S
        BY <1>1, <1>2, NumbersInduction
    <2> QED BY <2>1
<1>4. \E f : f = [n \in 0..Len(results) |->
                    IF n = 0 THEN [c \in Case |-> "MISSING_RESULT"] ELSE Taken(f[n - 1], results[n])]
    BY <1>3 DEF FoldsTo, Begun
<1> QED BY <1>4, Zenon DEF Outcomes, FoldsTo, Begun

\* The lines among the first n that answer a case.
Given(results, n, c) == {i \in 1..n : results[i].case = c}

\* What the outcome of a case says about those lines.
Tells(results, n) ==
    /\ Outcomes(results)[n] \in [Case -> Failure \cup {"prediction"}]
    /\ \A c \in Case :
        /\ Outcomes(results)[n][c] = "MISSING_RESULT" <=> Given(results, n, c) = {}
        /\ Outcomes(results)[n][c] = "prediction" <=>
            \E i \in 1..n : Given(results, n, c) = {i} /\ results[i].parses

LEMMA OneMoreLine ==
    ASSUME NEW results \in Seq(Line), NEW n \in Nat, n + 1 =< Len(results), Tells(results, n)
    PROVE  Tells(results, n + 1)
<1> DEFINE o == Outcomes(results)[n]
           p == Outcomes(results)[n + 1]
           line == results[n + 1]
<1>1. line \in Line /\ line.case \in Case /\ line.parses \in BOOLEAN
    BY LineAssumption
<1>2. p = Taken(o, line)
    <2>1. n + 1 \in 0..Len(results) /\ n + 1 # 0 /\ (n + 1) - 1 = n
        OBVIOUS
    <2> QED BY <2>1, OutcomesDefined DEF FoldsTo
<1>3. o \in [Case -> Failure \cup {"prediction"}]
    BY DEF Tells
<1>4. p = [o EXCEPT ![line.case] =
            IF o[line.case] # "MISSING_RESULT" THEN "DUPLICATE_RESULT"
            ELSE IF line.parses THEN "prediction" ELSE "GENERATION_PARSE_ERROR"]
    BY <1>2 DEF Taken
<1>5. p \in [Case -> Failure \cup {"prediction"}]
    BY <1>1, <1>3, <1>4 DEF Failure
<1> SUFFICES ASSUME NEW c \in Case
             PROVE  /\ p[c] = "MISSING_RESULT" <=> Given(results, n + 1, c) = {}
                    /\ p[c] = "prediction" <=>
                        \E i \in 1..(n + 1) : Given(results, n + 1, c) = {i} /\ results[i].parses
    BY <1>5 DEF Tells
<1>6. /\ o[c] = "MISSING_RESULT" <=> Given(results, n, c) = {}
      /\ o[c] = "prediction" <=> \E i \in 1..n : Given(results, n, c) = {i} /\ results[i].parses
    BY DEF Tells
<1>7. Given(results, n, c) \subseteq 1..n /\ n + 1 \notin 1..n /\ 1..n \subseteq 1..(n + 1) /\ n + 1 \in 1..(n + 1)
    BY DEF Given
<1>8. CASE line.case # c
    <2>1. Given(results, n + 1, c) = Given(results, n, c) /\ p[c] = o[c]
        BY <1>3, <1>4, <1>8 DEF Given
    <2> HIDE DEF o, p
    <2>2. \A i \in 1..(n + 1) : Given(results, n + 1, c) = {i} => i \in 1..n
        BY <1>7, <2>1
    <2> QED BY <1>6, <1>7, <2>1, <2>2
<1>9. CASE line.case = c /\ Given(results, n, c) = {}
    <2>1. Given(results, n + 1, c) = {n + 1}
        BY <1>9 DEF Given
    <2>2. p[c] = IF line.parses THEN "prediction" ELSE "GENERATION_PARSE_ERROR"
        BY <1>3, <1>4, <1>6, <1>9
    <2> HIDE DEF o, p
    <2>3. \A i \in 1..(n + 1) : Given(results, n + 1, c) = {i} => i = n + 1
        BY <2>1
    <2> QED BY <1>7, <2>1, <2>2, <2>3
<1>10. CASE line.case = c /\ Given(results, n, c) # {}
    <2>1. Given(results, n + 1, c) = Given(results, n, c) \cup {n + 1}
        BY <1>10 DEF Given
    <2>2. p[c] = "DUPLICATE_RESULT"
        BY <1>3, <1>4, <1>6, <1>10
    <2> HIDE DEF o, p
    <2>3. \A i \in 1..(n + 1) : Given(results, n + 1, c) # {i}
        BY <1>7, <1>10, <2>1
    <2> QED BY <1>7, <2>1, <2>2, <2>3
<1> QED BY <1>8, <1>9, <1>10

\* After every line, the outcome of a case says how often it was answered.
LEMMA OutcomesTell ==
    ASSUME NEW results \in Seq(Line), NEW n \in 0..Len(results)
    PROVE  Tells(results, n)
<1> DEFINE S == {k \in Nat : k =< Len(results) => Tells(results, k)}
<1>1. 0 \in S
    <2>1. Outcomes(results)[0] = Begun
        BY OutcomesDefined DEF FoldsTo
    <2>2. \A c : Given(results, 0, c) = {}
        BY DEF Given
    <2> QED BY <2>1, <2>2 DEF Tells, Begun, Failure
<1>2. ASSUME NEW k \in Nat, k \in S PROVE k + 1 \in S
    <2>1. k + 1 =< Len(results) => Tells(results, k)
        BY <1>2
    <2> QED BY <2>1, OneMoreLine
<1>3. Nat \subseteq S
    <2> HIDE DEF S
    <2> QED BY <1>1, <1>2, NumbersInduction
<1> QED BY <1>3

\* A replay accounts for every case once: by a prediction when exactly one line
\* answers it and parses, by a failure otherwise.
LEMMA Replayed ==
    ASSUME NEW results \in Seq(Line)
    PROVE  /\ Replay(results).predictions \subseteq Case
           /\ IsFailures(Replay(results).failures)
           /\ DOMAIN Replay(results).failures = Case \ Replay(results).predictions
           /\ \A c \in Case : c \in Replay(results).predictions <=>
                \E i \in 1..Len(results) : Given(results, Len(results), c) = {i} /\ results[i].parses
<1> DEFINE o == Outcomes(results)[Len(results)]
           fails == {c \in Case : o[c] # "prediction"}
<1>1. Tells(results, Len(results))
    BY OutcomesTell
<1>2. /\ Replay(results).predictions = Case \ fails
      /\ Replay(results).failures = [c \in fails |-> o[c]]
    BY DEF Replay
<1>3. o \in [Case -> Failure \cup {"prediction"}]
    BY <1>1 DEF Tells
<1>4. \A c \in Case : o[c] = "prediction" <=>
            \E i \in 1..Len(results) : Given(results, Len(results), c) = {i} /\ results[i].parses
    BY <1>1 DEF Tells
<1> HIDE DEF o
<1>5. IsFailures([c \in fails |-> o[c]])
    BY <1>3 DEF IsFailures
<1> QED BY <1>2, <1>4, <1>5

-----------------------------------------------------------------------------
(* The invariant.  First what holds however executions overlap.            *)

\* A command that finalizes works with a completed execution.
Loaded(f) == phase[f] \in {"loaded", "replayed", "predicted", "failed"}
Completed == \A f \in Finalizer : Loaded(f) => held[f] # None /\ held[f].state = "completed"

Typing == TypeOK /\ Completed

\* And then what operators get who wait: one execution is at work,
Busy(e) == phase[e] \in {"checked", "running", "hashed"} \/ swift[e] = "running"
OneAtATime == \A e \in Executor : \A v \in Executor : Busy(e) /\ Busy(v) => e = v

\* its subprocess has answered all there is, each case once,
Appended ==
    raw # None =>
        /\ \A i \in 1..Len(raw) : \A j \in 1..Len(raw) : raw[i].case = raw[j].case => i = j
        /\ \A e \in Executor : swift[e] = "running" => \A i \in 1..Len(raw) : raw[i].case \in answered[e]

\* what it has hashed is not appended to, and once it is recorded nothing is at work,
Recorded ==
    /\ \A e \in Executor : phase[e] = "hashed" => held[e].raw = raw /\ swift[e] # "running"
    /\ execution # None => execution.raw = raw /\ \A e \in Executor : ~ Busy(e)

\* the outputs are of the recorded execution, whichever command wrote them,
Sealed ==
    /\ \A f \in Finalizer : Loaded(f) => execution # None /\ held[f] = execution
    /\ predictions # None => execution # None /\ predictions = Replay(execution.raw).predictions
    /\ failures # None => execution # None /\ failures = Replay(execution.raw).failures
    /\ receipt # None => execution # None /\ receipt = Receipt(execution)

\* and the audit reads the same files each time.
Audited ==
    /\ phase[Auditor] \in {"results", "execution", "verified", "bound"} \/ evidence # None =>
        None \notin {execution, predictions, receipt}
    /\ phase[Auditor] \in {"execution", "verified", "bound"} => held[Auditor] = execution
    /\ phase[Auditor] = "bound" => bound = receipt
    /\ evidence # None => evidence = [verified |-> execution, receipt |-> receipt, scored |-> predictions]

OneRun == serial => OneAtATime /\ Appended /\ Recorded /\ Sealed /\ Audited

HInv == Typing /\ OneRun

LEMMA InitInv == Init => HInv
BY DEF Proc, Init, HInv, Typing, TypeOK, Completed, Prepared, Phases, OneRun, OneAtATime, Appended,
       Recorded, Sealed, Audited, Loaded, Busy

\* Receipts and outputs of a completed execution are well formed.
LEMMA OutputsTyped ==
    ASSUME NEW state, IsExecution(state), state.state = "completed"
    PROVE  /\ Replay(state.raw).predictions \subseteq Case
           /\ IsFailures(Replay(state.raw).failures)
           /\ IsReceipt(Receipt(state))
<1>1. state.raw \in Seq(Line)
    BY DEF IsExecution
<1> QED BY <1>1, Replayed DEF IsReceipt, Receipt

\* Every step keeps the types.
LEMMA TypingKept ==
    ASSUME Typing, [Next]_vars
    PROVE  Typing'
<1> USE DEF Typing, Proc, outputs, inner
<1>0. Executor \subseteq Proc /\ Finalizer \subseteq Proc /\ Auditor \in Proc
    OBVIOUS
<1>1. CASE UNCHANGED vars
    BY <1>1 DEF vars, TypeOK, Completed, Loaded
<1>2. CASE MakeDirectory \/ WriteNext \/ PrepareDies
    BY <1>2 DEF MakeDirectory, WriteNext, PrepareDies, TypeOK, Completed, Loaded, Prepared
<1>3. ASSUME NEW e \in Executor,
             CheckOutput(e) \/ Launch(e) \/ Answer(e) \/ SwiftExits(e) \/ HashResults(e) \/ WriteState(e)
      PROVE  Typing'
    <2>1. Completed'
        <3>1. \A f \in Finalizer : phase'[f] = phase[f] /\ held'[f] = held[f]
            BY <1>3, ProcsAssumption DEF CheckOutput, Launch, Answer, SwiftExits, HashResults, WriteState, Goes, TypeOK
        <3> QED BY <3>1 DEF Completed, Loaded
    <2>2. CASE CheckOutput(e) \/ Launch(e)
        BY <2>1, <2>2 DEF CheckOutput, Launch, Goes, TypeOK, Phases
    <2>3. CASE Answer(e)
        <3>1. PICK line \in Line : /\ raw' = Append(IF raw = None THEN <<>> ELSE raw, line)
                                   /\ answered' = [answered EXCEPT ![e] = @ \cup {line.case}]
            BY <2>3 DEF Answer
        <3>2. raw' \in Seq(Line) /\ line.case \in Case
            BY <3>1, LineAssumption DEF TypeOK
        <3> QED BY <2>1, <2>3, <3>1, <3>2 DEF Answer, TypeOK
    <2>4. CASE SwiftExits(e)
        BY <2>1, <2>4 DEF SwiftExits, TypeOK
    <2>5. CASE HashResults(e)
        <3> DEFINE state == [state |-> IF swift[e] = "success" /\ raw # None THEN "completed" ELSE "failed",
                             raw |-> raw]
        <3>1. IsExecution(state)
            BY DEF IsExecution, TypeOK
        <3>2. held' = [held EXCEPT ![e] = state]
            BY <2>5 DEF HashResults
        <3>3. DOMAIN held' = Proc /\ \A p \in Proc : held'[p] # None => IsExecution(held'[p])
            <4> HIDE DEF state
            <4> QED BY <3>1, <3>2 DEF TypeOK
        <3> QED BY <2>1, <2>5, <3>3 DEF HashResults, Goes, TypeOK, Phases
    <2>6. CASE WriteState(e)
        <3>1. /\ execution' = held[e] /\ phase' \in [Proc -> Phases]
              /\ DOMAIN held' = Proc /\ \A p \in Proc : held'[p] = held[p] \/ held'[p] = None
            BY <2>6 DEF WriteState, Goes, TypeOK, Phases
        <3> QED BY <2>1, <2>6, <3>1 DEF WriteState, TypeOK
    <2> QED BY <1>3, <2>2, <2>3, <2>4, <2>5, <2>6
<1>4. ASSUME NEW f \in Finalizer, Finalize(f)
      PROVE  Typing'
    <2>1. CASE LoadState(f)
        <3>1. /\ execution # None /\ IsExecution(execution) /\ execution.state = "completed"
              /\ held' = [held EXCEPT ![f] = execution]
              /\ \A p \in Proc : held'[p] = IF p = f THEN execution ELSE held[p]
              /\ DOMAIN held' = Proc
            BY <2>1 DEF LoadState, TypeOK
        <3>2. phase' \in [Proc -> Phases] /\ \A p \in Proc : p # f => phase'[p] = phase[p]
            BY <2>1 DEF LoadState, Goes, TypeOK, Phases
        <3> QED BY <2>1, <3>1, <3>2 DEF LoadState, TypeOK, Completed, Loaded
    <2>2. CASE ReplayResults(f)
        <3>1. /\ phase' \in [Proc -> Phases] /\ \A p \in Proc : p # f => phase'[p] = phase[p]
              /\ DOMAIN held' = Proc
              /\ \A p \in Proc : held'[p] = held[p] \/ (p = f /\ held'[p] = None /\ phase'[p] = "idle")
              /\ Loaded(f)
            BY <2>2 DEF ReplayResults, Goes, TypeOK, Phases, Loaded
        <3> QED BY <2>2, <3>1 DEF ReplayResults, TypeOK, Completed, Loaded
    <2>3. CASE WritePredictions(f) \/ WriteFailures(f) \/ WriteReceipt(f)
        <3>1. Loaded(f)
            BY <2>3 DEF WritePredictions, WriteFailures, WriteReceipt, Goes, Loaded
        <3>2. held[f] # None /\ IsExecution(held[f]) /\ held[f].state = "completed"
            BY <3>1 DEF Completed, TypeOK
        <3>3. /\ Replay(held[f].raw).predictions \subseteq Case
              /\ IsFailures(Replay(held[f].raw).failures) /\ IsReceipt(Receipt(held[f]))
            BY <3>2, OutputsTyped
        <3>4. /\ phase' \in [Proc -> Phases] /\ \A p \in Proc : p # f => phase'[p] = phase[p]
              /\ DOMAIN held' = Proc
              /\ \A p \in Proc : held'[p] = held[p] \/ (p = f /\ held'[p] = None /\ phase'[p] = "ended")
            BY <2>3 DEF WritePredictions, WriteFailures, WriteReceipt, Goes, TypeOK, Phases
        <3>5. /\ predictions' = predictions \/ predictions' = Replay(held[f].raw).predictions
              /\ failures' = failures \/ failures' = Replay(held[f].raw).failures
              /\ receipt' = receipt \/ receipt' = Receipt(held[f])
              /\ UNCHANGED <<serial, prepared, preparing, raw, execution, bound, swift, answered>>
            BY <2>3 DEF WritePredictions, WriteFailures, WriteReceipt
        <3>6. TypeOK'
            BY <3>3, <3>4, <3>5 DEF TypeOK
        <3> QED BY <3>1, <3>4, <3>6 DEF Completed, Loaded
    <2> QED BY <1>4, <2>1, <2>2, <2>3 DEF Finalize
<1>5. CASE Audit
    <2>1. \A f \in Finalizer : phase'[f] = phase[f] /\ held'[f] = held[f]
        BY <1>5, ProcsAssumption DEF Audit, VerifyResults, VerifyExecution, VerifyOutputs, BindReceipt, Score,
            Goes, TypeOK
    <2>2. UNCHANGED <<serial, prepared, preparing, raw, execution, predictions, failures, receipt, swift, answered>>
        BY <1>5 DEF Audit, VerifyResults, VerifyExecution, VerifyOutputs, BindReceipt, Score
    <2>3. phase' \in [Proc -> Phases]
        BY <1>5 DEF Audit, VerifyResults, VerifyExecution, VerifyOutputs, BindReceipt, Score,
            Goes, TypeOK, Phases
    <2>4. bound' \in {bound, receipt, None}
        BY <1>5 DEF Audit, VerifyResults, VerifyExecution, VerifyOutputs, BindReceipt, Score
    <2>5. DOMAIN held' = Proc /\ \A p \in Proc : held'[p] # None => IsExecution(held'[p])
        <3>1. CASE VerifyResults
            <4>1. IsExecution([state |-> "completed", raw |-> raw])
                BY <3>1 DEF VerifyResults, Complete, TypeOK, IsExecution
            <4>2. held' = [held EXCEPT ![Auditor] = [state |-> "completed", raw |-> raw]]
                BY <3>1 DEF VerifyResults
            <4> QED BY <4>1, <4>2 DEF TypeOK
        <3>2. CASE ~ VerifyResults
            <4>1. held' = held \/ held' = [held EXCEPT ![Auditor] = None]
                BY <1>5, <3>2 DEF Audit, VerifyExecution, VerifyOutputs, BindReceipt, Score
            <4> QED BY <4>1 DEF TypeOK
        <3> QED BY <3>1, <3>2
    <2> QED BY <2>1, <2>2, <2>3, <2>4, <2>5 DEF TypeOK, Completed, Loaded
<1>6. ASSUME NEW p \in Proc, Dies(p)
      PROVE  Typing'
    BY <1>6 DEF Dies, TypeOK, Completed, Loaded, Phases
<1> HIDE DEF Typing
<1> QED BY <1>1, <1>2, <1>3, <1>4, <1>5, <1>6 DEF Next

-----------------------------------------------------------------------------
(* One execution after the other.                                          *)

\* A step of an execution: nothing starts beside it, and it appends alone.
LEMMA ExecutorStep ==
    ASSUME HInv, Typing', serial, NEW e \in Executor,
           CheckOutput(e) \/ Launch(e) \/ Answer(e) \/ SwiftExits(e) \/ HashResults(e) \/ WriteState(e)
    PROVE  OneRun'
<1> USE DEF HInv, outputs, inner
<1>0. /\ OneAtATime /\ Appended /\ Recorded /\ Sealed /\ Audited
      /\ UNCHANGED <<predictions, failures, receipt, evidence, bound>>
    BY DEF OneRun, CheckOutput, Launch, Answer, SwiftExits, HashResults, WriteState
<1>1. /\ \A p \in Proc \ {e} : phase'[p] = phase[p] /\ held'[p] = held[p]
      /\ \A v \in Executor \ {e} : swift'[v] = swift[v] /\ answered'[v] = answered[v]
    BY DEF CheckOutput, Launch, Answer, SwiftExits, HashResults, WriteState, Goes, Typing, TypeOK, Proc
<1>2. /\ \A f \in Finalizer : phase'[f] = phase[f] /\ held'[f] = held[f]
      /\ phase'[Auditor] = phase[Auditor] /\ held'[Auditor] = held[Auditor]
    BY <1>1, ProcsAssumption DEF Proc
<1>3. ASSUME execution' = execution PROVE Sealed' /\ Audited'
    BY <1>0, <1>2, <1>3 DEF Sealed, Loaded, Audited, Receipt
<1>4. CASE CheckOutput(e)
    <2>1. /\ phase[e] = "idle" /\ phase'[e] \in {"checked", "ended"}
          /\ phase'[e] = "checked" => execution = None
          /\ UNCHANGED <<serial, raw, execution, swift, answered>>
        BY <1>4 DEF CheckOutput, Goes, Unexecuted, Typing, TypeOK, Proc
    <2>2. \A v \in Executor \ {e} : ~ Busy(v)
        BY <1>4 DEF CheckOutput, Free, Busy
    <2>3. \A v \in Executor \ {e} : ~ Busy(v)'
        BY <1>1, <2>1, <2>2 DEF Busy, Proc
    <2>4. OneAtATime'
        BY <2>3 DEF OneAtATime
    <2>5. Appended'
        BY <1>0, <2>1 DEF Appended
    <2>6. execution # None => ~ Busy(e)'
        BY <1>0, <2>1 DEF Recorded, Busy
    <2>7. Recorded'
        BY <1>0, <1>1, <2>1, <2>3, <2>6 DEF Recorded, Proc
    <2> QED BY <1>3, <2>1, <2>4, <2>5, <2>7 DEF OneRun
<1>5. CASE ~ CheckOutput(e)
    <2>1. Busy(e) /\ execution = None
        <3>1. Busy(e)
            BY <1>5 DEF Launch, Answer, SwiftExits, HashResults, WriteState, Goes, Busy
        <3> QED BY <1>0, <3>1 DEF Recorded
    <2>2. \A v \in Executor \ {e} : ~ Busy(v)
        BY <1>0, <2>1 DEF OneAtATime
    <2>3. \A v \in Executor \ {e} : ~ Busy(v)'
        BY <1>1, <2>2 DEF Busy, Proc
    <2>4. OneAtATime'
        BY <2>3 DEF OneAtATime
    <2>5. CASE Launch(e)
        <3>1. /\ raw = None \/ swift' = swift
              /\ phase'[e] # "hashed" /\ UNCHANGED <<serial, raw, execution, answered>>
            BY <1>5, <2>5 DEF Launch, Goes, Unexecuted, Typing, TypeOK, Proc
        <3>2. Appended' /\ Recorded'
            BY <1>0, <2>1, <2>3, <3>1 DEF Appended, Recorded, Busy
        <3> QED BY <1>3, <2>4, <3>1, <3>2 DEF OneRun
    <2>6. CASE Answer(e)
        <3>1. PICK line \in Line :
                /\ line.case \notin answered[e]
                /\ raw' = Append(IF raw = None THEN <<>> ELSE raw, line)
                /\ answered' = [answered EXCEPT ![e] = @ \cup {line.case}]
            BY <2>6 DEF Answer
        <3>2. swift[e] = "running" /\ UNCHANGED <<serial, execution, phase, held, swift>>
            BY <2>6 DEF Answer
        <3>3. Recorded'
            BY <1>0, <2>1, <2>3, <3>2 DEF Recorded, Busy
        <3>4. answered'[e] = answered[e] \cup {line.case}
            BY <3>1 DEF Typing, TypeOK
        <3> DEFINE old == IF raw = None THEN <<>> ELSE raw
        <3>5. old \in Seq(Line) /\ raw' = Append(old, line)
            BY <3>1 DEF Typing, TypeOK
        <3>6. /\ \A i \in 1..Len(old) : \A j \in 1..Len(old) : old[i].case = old[j].case => i = j
              /\ \A i \in 1..Len(old) : old[i].case \in answered[e]
            BY <1>0, <3>2 DEF Appended
        <3>7. Len(raw') = Len(old) + 1 /\ raw'[Len(old) + 1] = line /\ \A i \in 1..Len(old) : raw'[i] = old[i]
            BY <3>5
        <3>8. Len(old) \in Nat
            BY <3>5
        <3> HIDE DEF old
        <3>9. \A i \in 1..Len(raw') : raw'[i].case \in answered'[e]
            BY <3>4, <3>6, <3>7, <3>8
        <3>10. \A i \in 1..Len(raw') : \A j \in 1..Len(raw') : raw'[i].case = raw'[j].case => i = j
            <4> SUFFICES ASSUME NEW i \in 1..Len(raw'), NEW j \in 1..Len(raw'), raw'[i].case = raw'[j].case
                         PROVE  i = j
                OBVIOUS
            <4>1. i \in 1..Len(old) \/ i = Len(old) + 1
                BY <3>7, <3>8
            <4>2. j \in 1..Len(old) \/ j = Len(old) + 1
                BY <3>7, <3>8
            <4> QED BY <3>1, <3>6, <3>7, <4>1, <4>2
        <3>11. \A v \in Executor \ {e} : swift'[v] # "running"
            BY <2>3 DEF Busy
        <3>12. Appended'
            BY <3>9, <3>10, <3>11 DEF Appended
        <3> QED BY <1>3, <2>4, <3>2, <3>3, <3>12 DEF OneRun
    <2>7. CASE SwiftExits(e)
        <3>1. swift'[e] # "running" /\ UNCHANGED <<serial, raw, execution, phase, held>>
            BY <2>7 DEF SwiftExits, Typing, TypeOK
        <3>2. Appended' /\ Recorded'
            BY <1>0, <1>1, <2>1, <2>3, <3>1 DEF Appended, Recorded, Busy
        <3> QED BY <1>3, <2>4, <3>1, <3>2 DEF OneRun
    <2>8. CASE HashResults(e)
        <3>1. held'[e].raw = raw /\ swift'[e] # "running" /\ UNCHANGED <<serial, raw, execution, answered>>
            BY <2>8 DEF HashResults, Typing, TypeOK, Proc
        <3>2. Appended' /\ Recorded'
            BY <1>0, <1>1, <2>1, <2>3, <3>1 DEF Appended, Recorded, Busy
        <3> QED BY <1>3, <2>4, <3>1, <3>2 DEF OneRun
    <2>9. CASE WriteState(e)
        <3>1. /\ phase[e] = "hashed" /\ phase'[e] = "ended" /\ execution' = held[e]
              /\ UNCHANGED <<serial, raw, swift, answered>>
            BY <2>9 DEF WriteState, Goes, Typing, TypeOK, Proc
        <3>2. execution'.raw = raw' /\ ~ Busy(e)'
            BY <1>0, <3>1 DEF Recorded, Busy
        <3>3. Appended' /\ Recorded'
            BY <1>0, <2>3, <3>1, <3>2 DEF Appended, Recorded, Busy
        <3>4. /\ \A f \in Finalizer : ~ Loaded(f)'
              /\ predictions = None /\ failures = None /\ receipt = None
            BY <1>0, <1>2, <2>1 DEF Sealed, Loaded
        <3>5. Sealed' /\ Audited'
            BY <1>0, <1>2, <2>1, <3>4 DEF Sealed, Audited
        <3> QED BY <2>4, <3>3, <3>5 DEF OneRun
    <2> QED BY <1>5, <2>5, <2>6, <2>7, <2>8, <2>9
<1> QED BY <1>4, <1>5

\* What neither starts an execution nor touches what one has written.
LEMMA Elsewhere ==
    ASSUME HInv, serial, UNCHANGED <<serial, raw, execution, swift, answered>>,
           \A e \in Executor : (phase'[e] = phase[e] /\ held'[e] = held[e]) \/ phase'[e] = "dead"
    PROVE  serial' /\ OneAtATime' /\ Appended' /\ Recorded'
<1>1. \A e \in Executor : Busy(e)' => Busy(e)
    BY DEF Busy
<1> QED BY <1>1 DEF HInv, OneRun, OneAtATime, Appended, Recorded

\* A step of a command that finalizes: whatever the others have written, it writes
\* the same.
LEMMA FinalizerStep ==
    ASSUME HInv, Typing', serial, NEW f \in Finalizer, Finalize(f)
    PROVE  OneRun'
<1> USE DEF HInv, outputs, inner
<1>0. /\ Sealed /\ Audited
      /\ UNCHANGED <<serial, raw, execution, evidence, bound, swift, answered>>
    BY DEF OneRun, Finalize, LoadState, ReplayResults, WritePredictions, WriteFailures, WriteReceipt
<1>1. \A p \in Proc \ {f} : phase'[p] = phase[p] /\ held'[p] = held[p]
    BY DEF Finalize, LoadState, ReplayResults, WritePredictions, WriteFailures, WriteReceipt,
        Goes, Typing, TypeOK, Proc
<1>2. OneAtATime' /\ Appended' /\ Recorded'
    <2>1. \A e \in Executor : phase'[e] = phase[e] /\ held'[e] = held[e]
        BY <1>1, ProcsAssumption DEF Proc
    <2> QED BY <1>0, <2>1, Elsewhere
<1>3. phase'[Auditor] = phase[Auditor] /\ held'[Auditor] = held[Auditor]
    BY <1>1, ProcsAssumption DEF Proc
<1>4. Loaded(f)' => execution # None /\ held'[f] = execution
    <2>1. CASE LoadState(f)
        BY <2>1 DEF LoadState, Typing, TypeOK, Proc
    <2>2. CASE ReplayResults(f) \/ WritePredictions(f) \/ WriteFailures(f) \/ WriteReceipt(f)
        <3>1. Loaded(f) /\ (Loaded(f)' => held'[f] = held[f])
            BY <2>2 DEF ReplayResults, WritePredictions, WriteFailures, WriteReceipt, Goes, Loaded,
                Typing, TypeOK, Proc
        <3> QED BY <1>0, <3>1 DEF Sealed
    <2> QED BY <2>1, <2>2 DEF Finalize
<1>5. /\ predictions' = predictions
         \/ (execution # None /\ predictions' = Replay(execution.raw).predictions)
      /\ failures' = failures \/ (execution # None /\ failures' = Replay(execution.raw).failures)
      /\ receipt' = receipt \/ (execution # None /\ receipt' = Receipt(execution))
    <2>1. CASE LoadState(f) \/ ReplayResults(f)
        BY <2>1 DEF LoadState, ReplayResults
    <2>2. CASE WritePredictions(f) \/ WriteFailures(f) \/ WriteReceipt(f)
        <3>1. execution # None /\ held[f] = execution
            BY <1>0, <2>2 DEF WritePredictions, WriteFailures, WriteReceipt, Goes, Loaded, Sealed
        <3> QED BY <2>2, <3>1 DEF WritePredictions, WriteFailures, WriteReceipt
    <2> QED BY <2>1, <2>2 DEF Finalize
<1>6. Sealed'
    <2>1. \A g \in Finalizer : Loaded(g)' => execution # None /\ held'[g] = execution
        BY <1>0, <1>1, <1>4 DEF Sealed, Loaded, Proc
    <2>2. Receipt(execution)' = Receipt(execution)
        BY <1>0 DEF Receipt
    <2> QED BY <1>0, <1>5, <2>1, <2>2 DEF Sealed
<1>7. /\ predictions # None => predictions' = predictions
      /\ receipt # None => receipt' = receipt
    BY <1>0, <1>5 DEF Sealed
<1>8. Audited'
    BY <1>0, <1>3, <1>7 DEF Audited
<1> QED BY <1>2, <1>6, <1>8 DEF OneRun

\* A step of the audit.
LEMMA AuditStep ==
    ASSUME HInv, Typing', serial, Audit
    PROVE  OneRun'
<1> USE DEF HInv, outputs, inner
<1>0. /\ Sealed /\ Audited
      /\ UNCHANGED <<serial, raw, execution, predictions, failures, receipt, swift, answered>>
    BY DEF OneRun, Audit, VerifyResults, VerifyExecution, VerifyOutputs, BindReceipt, Score
<1>1. \A p \in Proc \ {Auditor} : phase'[p] = phase[p] /\ held'[p] = held[p]
    BY DEF Audit, VerifyResults, VerifyExecution, VerifyOutputs, BindReceipt, Score,
        Goes, Typing, TypeOK, Proc
<1>2. OneAtATime' /\ Appended' /\ Recorded' /\ Sealed'
    <2>1. \A e \in Executor : phase'[e] = phase[e] /\ held'[e] = held[e]
        BY <1>1, ProcsAssumption DEF Proc
    <2>2. \A f \in Finalizer : phase'[f] = phase[f] /\ held'[f] = held[f]
        BY <1>1, ProcsAssumption DEF Proc
    <2>3. Sealed'
        BY <1>0, <2>2 DEF Sealed, Loaded, Receipt
    <2> QED BY <1>0, <2>1, <2>3, Elsewhere
<1>3. Audited'
    <2>1. CASE VerifyResults
        <3>1. phase'[Auditor] = "results" /\ evidence = None /\ evidence' = None
              /\ None \notin {execution, predictions, receipt}
            BY <2>1 DEF VerifyResults, Complete, Goes, Typing, TypeOK, Proc
        <3> QED BY <1>0, <3>1 DEF Audited
    <2>2. CASE VerifyExecution \/ VerifyOutputs
        <3>1. /\ phase[Auditor] \in {"results", "execution"} /\ UNCHANGED <<evidence, bound>>
              /\ \/ phase'[Auditor] \in {"execution", "verified"} /\ held'[Auditor] = held[Auditor]
                    /\ (phase[Auditor] = "results" => held[Auditor] = execution)
                 \/ phase'[Auditor] = "idle"
            BY <2>2 DEF VerifyExecution, VerifyOutputs, Goes, Typing, TypeOK, Proc
        <3> QED BY <1>0, <3>1 DEF Audited
    <2>3. CASE BindReceipt
        <3>1. /\ phase[Auditor] = "verified" /\ UNCHANGED evidence
              /\ \/ phase'[Auditor] = "bound" /\ held'[Auditor] = held[Auditor] /\ bound' = receipt
                 \/ phase'[Auditor] = "idle"
            BY <2>3 DEF BindReceipt, Goes, Typing, TypeOK, Proc
        <3> QED BY <1>0, <3>1 DEF Audited
    <2>4. CASE Score
        <3>1. /\ phase[Auditor] = "bound" /\ phase'[Auditor] = "idle"
              /\ \/ evidence' = evidence
                 \/ evidence' = [verified |-> held[Auditor], receipt |-> bound, scored |-> predictions]
            BY <2>4 DEF Score, Goes, Typing, TypeOK, Proc
        <3>2. held[Auditor] = execution /\ bound = receipt /\ None \notin {execution, predictions, receipt}
            BY <1>0, <3>1 DEF Audited
        <3> QED BY <1>0, <3>1, <3>2 DEF Audited
    <2> QED BY <2>1, <2>2, <2>3, <2>4 DEF Audit
<1> QED BY <1>2, <1>3 DEF OneRun

\* The invariant is inductive.
LEMMA NextInv ==
    ASSUME HInv, [Next]_vars
    PROVE  HInv'
<1>1. Typing'
    BY TypingKept DEF HInv
<1> SUFFICES ASSUME serial' PROVE OneRun'
    BY <1>1 DEF HInv, OneRun
<1>2. serial
    BY DEF Next, MakeDirectory, WriteNext, PrepareDies, CheckOutput, Launch, Answer, SwiftExits,
        HashResults, WriteState, Finalize, LoadState, ReplayResults, WritePredictions, WriteFailures,
        WriteReceipt, Audit, VerifyResults, VerifyExecution, VerifyOutputs, BindReceipt, Score, Dies, vars
<1>3. ASSUME UNCHANGED <<serial, raw, execution, outputs, evidence, inner>>,
             \A p \in Proc : (phase'[p] = phase[p] /\ held'[p] = held[p])
                             \/ (phase'[p] = "dead" /\ p # Auditor)
      PROVE  OneRun'
    <2> USE <1>3 DEF outputs, inner
    <2>1. OneAtATime' /\ Appended' /\ Recorded'
        BY <1>2, Elsewhere DEF Proc
    <2>2. Sealed'
        BY <1>2 DEF HInv, OneRun, Sealed, Loaded, Receipt, Proc
    <2>3. Audited'
        BY <1>2 DEF HInv, OneRun, Audited, Proc
    <2> QED BY <2>1, <2>2, <2>3 DEF OneRun
<1>4. CASE UNCHANGED vars
    BY <1>3, <1>4 DEF vars
<1>5. CASE MakeDirectory \/ WriteNext \/ PrepareDies
    BY <1>3, <1>5 DEF MakeDirectory, WriteNext, PrepareDies
<1>6. ASSUME NEW p \in Proc, Dies(p)
      PROVE  OneRun'
    <2>1. \A q \in Proc : (phase'[q] = phase[q] /\ held'[q] = held[q])
                          \/ (phase'[q] = "dead" /\ q # Auditor)
        BY <1>6 DEF Dies, HInv, Typing, TypeOK
    <2>2. UNCHANGED <<serial, raw, execution, outputs, evidence, inner>>
        BY <1>6 DEF Dies
    <2> QED BY <1>3, <2>1, <2>2
<1> QED BY <1>1, <1>2, <1>4, <1>5, <1>6, ExecutorStep, FinalizerStep, AuditStep DEF Next

\* The invariant holds in every reachable state.
LEMMA Invariant == Spec => []HInv
<1>1. HInv /\ [Next]_vars => HInv'
    BY NextInv
<1> QED BY InitInv, <1>1, PTL DEF Spec

\* What every file of the worker directory and every command holds is well formed,
\* whatever SWIFT appends and however commands overlap and die: no receipt or failure
\* file is written of anything but a completed execution.
THEOREM WorkerTypeCorrect == Spec => []TypeOK
<1>1. HInv => TypeOK
    BY DEF HInv, Typing
<1> QED BY <1>1, Invariant, PTL

\* An output the verification accepts accounts for every planned case exactly once,
\* and predicts exactly the cases that one line answers, by a response that parses.
THEOREM EveryCaseAccountedFor == Spec => []AccountedFor
<1>1. HInv => AccountedFor
    <2> SUFFICES ASSUME TypeOK, Complete, execution = [state |-> "completed", raw |-> raw], OutputsOf(execution)
                 PROVE  /\ predictions \cap DOMAIN failures = {}
                        /\ predictions \cup DOMAIN failures = Case
                        /\ \A c \in Case :
                            c \in predictions <=>
                                Cardinality(Answers(c)) = 1 /\ \A i \in Answers(c) : raw[i].parses
        BY DEF AccountedFor, HInv, Typing
    <2>1. raw \in Seq(Line)
        BY DEF TypeOK, Complete
    <2>2. predictions = Replay(raw).predictions /\ failures = Replay(raw).failures
        BY DEF OutputsOf
    <2>3. ASSUME NEW c \in Case
          PROVE  c \in predictions <=>
                    Cardinality(Answers(c)) = 1 /\ \A i \in Answers(c) : raw[i].parses
        <3>1. Answers(c) = Given(raw, Len(raw), c) /\ Answers(c) \subseteq 1..Len(raw)
            BY DEF Answers, Given
        <3>2. IsFiniteSet(Answers(c))
            BY <2>1, <3>1, FS_Interval, FS_Subset
        <3>3. Cardinality(Answers(c)) = 1 <=> \E i : Answers(c) = {i}
            BY <3>2, FS_Singleton
        <3>4. c \in predictions <=> \E i \in 1..Len(raw) : Answers(c) = {i} /\ raw[i].parses
            BY <2>1, <2>2, <3>1, Replayed
        <3> QED BY <3>1, <3>3, <3>4
    <2>4. predictions \subseteq Case /\ DOMAIN failures = Case \ predictions
        BY <2>1, <2>2, Replayed
    <2> QED BY <2>3, <2>4
<1> QED BY <1>1, Invariant, PTL

\* When the executions do not overlap, no request is answered twice, and the evidence is
\* of one execution, whose results and predictions stay as they were scored.
THEOREM EvidenceOfOneRun == Spec => []OneRunCounts
<1>1. HInv => OneRunCounts
    <2> SUFFICES ASSUME HInv, serial
                 PROVE  /\ raw # None => \A c \in Case : Cardinality(Answers(c)) =< 1
                        /\ evidence # None =>
                            /\ evidence.verified = execution /\ execution.raw = raw
                            /\ evidence.receipt = Receipt(execution) /\ evidence.receipt = receipt
                            /\ evidence.scored = Replay(raw).predictions
                            /\ evidence.scored = predictions
        BY DEF OneRunCounts
    <2>1. Appended /\ Recorded /\ Sealed /\ Audited
        BY DEF HInv, OneRun
    <2>2. ASSUME raw # None, NEW c \in Case PROVE Cardinality(Answers(c)) =< 1
        <3>1. \A i \in Answers(c) : \A j \in Answers(c) : i = j
            BY <2>1, <2>2 DEF Appended, Answers
        <3>2. Answers(c) = {} \/ \E i : Answers(c) = {i}
            BY <3>1
        <3>3. Cardinality(Answers(c)) \in {0, 1}
            BY <3>2, FS_EmptySet, FS_Singleton
        <3> QED BY <3>3
    <2>3. evidence # None =>
            /\ evidence = [verified |-> execution, receipt |-> receipt, scored |-> predictions]
            /\ None \notin {execution, predictions, receipt}
        BY <2>1 DEF Audited
    <2> QED BY <2>1, <2>2, <2>3 DEF Recorded, Sealed
<1> QED BY <1>1, Invariant, PTL
=============================================================================

---------------------------- MODULE HoldoutWorker ----------------------------
(***************************************************************************)
(* The hold-out inference of a candidate (cyber_megatron_holdout_worker.py)*)
(* and the evaluation evidence built from it                               *)
(* (cyber_megatron_gold_evidence.py).  prepare, execute, finalize, verify  *)
(* and the evidence are separate commands over one worker directory; they  *)
(* are started, fail and die as they please.  Every file is replaced whole *)
(* (atomic_write) except the raw results, to which SWIFT appends.  The     *)
(* sources of the plan, the checkpoint and the requests are the same       *)
(* throughout.                                                             *)
(***************************************************************************)
EXTENDS Naturals, FiniteSets, Sequences

CONSTANTS
    Case,       \* the planned cases
    Line,       \* lines SWIFT may append: the case the messages are bound to, and
                \* whether the response parses
    Executor,   \* executions of the worker
    Finalizer,  \* commands that finalize it, each as often as it is tried
    Auditor,    \* the command that builds the evidence, as often as it is tried
    None        \* no such file

ASSUME ProcsAssumption ==
    /\ Executor \cap Finalizer = {}
    /\ Auditor \notin Executor \cup Finalizer
    /\ IsFiniteSet(Case) /\ Case # {}
ASSUME LineAssumption == Line \subseteq [case : Case, parses : BOOLEAN]

Proc == Executor \cup Finalizer \cup {Auditor}

Failure == {"DUPLICATE_RESULT", "GENERATION_PARSE_ERROR", "MISSING_RESULT"}

VARIABLES
    serial,       \* the operators let one execution end before the next; never changes
    prepared,     \* what prepare has written
    preparing,    \* the command that made the directory is alive
    raw,          \* raw results: the lines SWIFT has appended, or None
    execution,    \* execution state, [state, raw], or None
    predictions,  \* cases of the predictions file, or None
    failures,     \* failures file, case -> type, or None
    receipt,      \* receipt, [execution, predictions, failures], or None
    evidence,     \* evaluation evidence, [verified, receipt, scored], or None
    phase,        \* process -> where it is
    held,         \* process -> the execution state it works with, or None
    bound,        \* the receipt the auditor has bound, or None
    swift,        \* executor -> its subprocess
    answered      \* executor -> the cases its subprocess has answered while it runs

outputs == <<predictions, failures, receipt>>
inner   == <<bound, swift, answered>>
vars    == <<serial, prepared, preparing, raw, execution, outputs, evidence, phase, held, inner>>

Prepared == {"nothing", "directory", "requests", "bindings", "plan"}
Phases   == {"idle", "checked", "running", "hashed", "loaded", "replayed", "predicted",
             "failed", "results", "execution", "verified", "bound", "ended", "dead"}

Init ==
    /\ serial \in BOOLEAN
    /\ prepared = "nothing" /\ preparing = FALSE
    /\ raw = None /\ execution = None
    /\ predictions = None /\ failures = None /\ receipt = None
    /\ evidence = None
    /\ phase = [p \in Proc |-> "idle"]
    /\ held = [p \in Proc |-> None]
    /\ bound = None
    /\ swift = [e \in Executor |-> "absent"]
    /\ answered = [e \in Executor |-> {}]

Goes(p, from, to) == phase[p] = from /\ phase' = [phase EXCEPT ![p] = to]

-----------------------------------------------------------------------------
(* Replay of the raw results.                                               *)

\* Mutant: a case that is answered again keeps its first answer.
TakenFirst(outcome, line) ==
    [outcome EXCEPT ![line.case] =
        IF @ # "MISSING_RESULT" THEN @
        ELSE IF line.parses THEN "prediction" ELSE "GENERATION_PARSE_ERROR"]

\* One line: the case loses its prediction when it was seen before.
Taken(outcome, line) ==
    [outcome EXCEPT ![line.case] =
        IF @ # "MISSING_RESULT" THEN "DUPLICATE_RESULT"
        ELSE IF line.parses THEN "prediction" ELSE "GENERATION_PARSE_ERROR"]

\* What is known of every case after the first n lines.
Outcomes(results) ==
    LET outcome[n \in 0..Len(results)] ==
            IF n = 0 THEN [c \in Case |-> "MISSING_RESULT"] ELSE Taken(outcome[n - 1], results[n])
    IN  outcome

\* The predictions and the failures of raw results.
Replay(results) ==
    LET outcome == Outcomes(results)[Len(results)]
        fails   == {c \in Case : outcome[c] # "prediction"}
    IN  [predictions |-> Case \ fails, failures |-> [c \in fails |-> outcome[c]]]

-----------------------------------------------------------------------------
(* prepare.                                                                 *)

\* mkdir refuses a directory that exists.
MakeDirectory ==
    /\ prepared = "nothing"
    /\ prepared' = "directory" /\ preparing' = TRUE
    /\ UNCHANGED <<serial, raw, execution, outputs, evidence, phase, held, inner>>

WriteNext ==
    /\ preparing
    /\ prepared' = CASE prepared = "directory" -> "requests"
                     [] prepared = "requests"  -> "bindings"
                     [] OTHER                  -> "plan"
    /\ preparing' = (prepared' # "plan")
    /\ UNCHANGED <<serial, raw, execution, outputs, evidence, phase, held, inner>>

PrepareDies ==
    /\ preparing /\ preparing' = FALSE
    /\ UNCHANGED <<serial, prepared, raw, execution, outputs, evidence, phase, held, inner>>

-----------------------------------------------------------------------------
(* execute.                                                                 *)

\* Mutant: only a recorded execution counts.
NotRecorded == execution = None

\* Neither raw results nor an execution state: SWIFT would append.
Unexecuted == raw = None /\ execution = None

\* The operators wait for an execution to end before they start the next.
Free(e) ==
    serial => \A v \in Executor \ {e} :
        phase[v] \in {"idle", "ended", "dead"} /\ swift[v] # "running"

\* The directory holds the plan, the requests and the bindings, nothing else.
CheckOutput(e) ==
    /\ Free(e)
    /\ Goes(e, "idle", IF prepared = "plan" /\ Unexecuted /\ outputs = <<None, None, None>>
                       THEN "checked" ELSE "ended")
    /\ UNCHANGED <<serial, prepared, preparing, raw, execution, outputs, evidence, held, inner>>

\* After the approval and the cluster were checked; a refusal ends the command.
Launch(e) ==
    /\ phase[e] = "checked"
    /\ IF Unexecuted
       THEN Goes(e, "checked", "running") /\ swift' = [swift EXCEPT ![e] = "running"]
       ELSE Goes(e, "checked", "ended") /\ UNCHANGED swift
    /\ UNCHANGED <<serial, prepared, preparing, raw, execution, outputs, evidence, held,
                   bound, answered>>

\* External: the subprocess appends the answer to one request of its list.
Answer(e) ==
    /\ swift[e] = "running"
    /\ \E line \in Line :
        /\ line.case \notin answered[e]
        /\ raw' = Append(IF raw = None THEN <<>> ELSE raw, line)
        /\ answered' = [answered EXCEPT ![e] = @ \cup {line.case}]
    /\ UNCHANGED <<serial, prepared, preparing, execution, outputs, evidence, phase, held,
                   bound, swift>>

\* External: it exits, with or without an error, however much it has answered.
SwiftExits(e) ==
    /\ swift[e] = "running"
    /\ \E exit \in {"success", "error"} : swift' = [swift EXCEPT ![e] = exit]
    /\ answered' = [answered EXCEPT ![e] = {}]
    /\ UNCHANGED <<serial, prepared, preparing, raw, execution, outputs, evidence, phase, held,
                   bound>>

\* Mutant: exit 0 completes the execution, results or none.
HashByExit(e) ==
    /\ phase[e] = "running" /\ swift[e] # "running"
    /\ held' = [held EXCEPT ![e] =
            [state |-> IF swift[e] = "success" THEN "completed" ELSE "failed", raw |-> raw]]
    /\ swift' = [swift EXCEPT ![e] = "absent"]
    /\ Goes(e, "running", "hashed")
    /\ UNCHANGED <<serial, prepared, preparing, raw, execution, outputs, evidence, bound, answered>>

\* The execution takes the exit code of the subprocess and the digest of the results.
HashResults(e) ==
    /\ phase[e] = "running" /\ swift[e] # "running"
    /\ held' = [held EXCEPT ![e] =
            [state |-> IF swift[e] = "success" /\ raw # None THEN "completed" ELSE "failed",
             raw |-> raw]]
    /\ swift' = [swift EXCEPT ![e] = "absent"]
    /\ Goes(e, "running", "hashed")
    /\ UNCHANGED <<serial, prepared, preparing, raw, execution, outputs, evidence, bound, answered>>

WriteState(e) ==
    /\ Goes(e, "hashed", "ended")
    /\ execution' = held[e]
    /\ held' = [held EXCEPT ![e] = None]
    /\ UNCHANGED <<serial, prepared, preparing, raw, outputs, evidence, inner>>

-----------------------------------------------------------------------------
(* finalize.                                                                *)

LoadState(f) ==
    /\ execution # None /\ execution.state = "completed"
    /\ Goes(f, "idle", "loaded")
    /\ held' = [held EXCEPT ![f] = execution]
    /\ UNCHANGED <<serial, prepared, preparing, raw, execution, outputs, evidence, inner>>

\* The raw results are those of the state and no output exists.
ReplayResults(f) ==
    /\ phase[f] = "loaded"
    /\ IF raw = held[f].raw /\ outputs = <<None, None, None>>
       THEN Goes(f, "loaded", "replayed") /\ UNCHANGED held
       ELSE Goes(f, "loaded", "idle") /\ held' = [held EXCEPT ![f] = None]
    /\ UNCHANGED <<serial, prepared, preparing, raw, execution, outputs, evidence, inner>>

WritePredictions(f) ==
    /\ Goes(f, "replayed", "predicted")
    /\ predictions' = Replay(held[f].raw).predictions
    /\ UNCHANGED <<serial, prepared, preparing, raw, execution, failures, receipt, evidence,
                   held, inner>>

\* Mutant: the outputs are looked for when the first is already there.
WriteFailuresLate(f) ==
    /\ predictions = None
    /\ Goes(f, "predicted", "failed")
    /\ failures' = Replay(held[f].raw).failures
    /\ UNCHANGED <<serial, prepared, preparing, raw, execution, predictions, receipt, evidence,
                   held, inner>>

WriteFailures(f) ==
    /\ Goes(f, "predicted", "failed")
    /\ failures' = Replay(held[f].raw).failures
    /\ UNCHANGED <<serial, prepared, preparing, raw, execution, predictions, receipt, evidence,
                   held, inner>>

Receipt(state) ==
    [execution |-> state, predictions |-> Replay(state.raw).predictions,
     failures |-> Replay(state.raw).failures]

WriteReceipt(f) ==
    /\ Goes(f, "failed", "ended")
    /\ receipt' = Receipt(held[f])
    /\ held' = [held EXCEPT ![f] = None]
    /\ UNCHANGED <<serial, prepared, preparing, raw, execution, predictions, failures, evidence,
                   inner>>

-----------------------------------------------------------------------------
(* verify, and the evidence built on it.                                    *)

Complete ==
    /\ prepared = "plan" /\ raw # None /\ execution # None
    /\ None \notin {predictions, failures, receipt}

\* The predictions, the failures and the receipt are those of this execution.
OutputsOf(state) ==
    /\ predictions = Replay(state.raw).predictions
    /\ failures = Replay(state.raw).failures
    /\ receipt = Receipt(state)

\* The file set and the raw results are read; a verification that fails ends.
VerifyResults ==
    /\ Complete /\ evidence = None
    /\ Goes(Auditor, "idle", "results")
    /\ held' = [held EXCEPT ![Auditor] = [state |-> "completed", raw |-> raw]]
    /\ UNCHANGED <<serial, prepared, preparing, raw, execution, outputs, evidence, inner>>

VerifyExecution ==
    /\ phase[Auditor] = "results"
    /\ IF execution = held[Auditor]
       THEN Goes(Auditor, "results", "execution") /\ UNCHANGED held
       ELSE Goes(Auditor, "results", "idle") /\ held' = [held EXCEPT ![Auditor] = None]
    /\ UNCHANGED <<serial, prepared, preparing, raw, execution, outputs, evidence, inner>>

VerifyOutputs ==
    /\ phase[Auditor] = "execution"
    /\ IF OutputsOf(held[Auditor])
       THEN Goes(Auditor, "execution", "verified") /\ UNCHANGED held
       ELSE Goes(Auditor, "execution", "idle") /\ held' = [held EXCEPT ![Auditor] = None]
    /\ UNCHANGED <<serial, prepared, preparing, raw, execution, outputs, evidence, inner>>

\* The evidence loads the execution state and the receipt again.
BindReceipt ==
    /\ phase[Auditor] = "verified"
    /\ IF receipt.execution = execution
       THEN Goes(Auditor, "verified", "bound") /\ bound' = receipt /\ UNCHANGED held
       ELSE /\ Goes(Auditor, "verified", "idle")
            /\ held' = [held EXCEPT ![Auditor] = None]
            /\ UNCHANGED bound
    /\ UNCHANGED <<serial, prepared, preparing, raw, execution, outputs, evidence, swift, answered>>

\* And the predictions, whose number must be the verified one.
Score ==
    /\ phase[Auditor] = "bound"
    /\ IF Cardinality(predictions) = Cardinality(Replay(held[Auditor].raw).predictions)
       THEN evidence' = [verified |-> held[Auditor], receipt |-> bound, scored |-> predictions]
       ELSE UNCHANGED evidence
    /\ Goes(Auditor, "bound", "idle")
    /\ held' = [held EXCEPT ![Auditor] = None] /\ bound' = None
    /\ UNCHANGED <<serial, prepared, preparing, raw, execution, outputs, swift, answered>>

-----------------------------------------------------------------------------
\* A command dies, or is refused: its subprocess goes on without it.
Dies(p) ==
    /\ phase[p] \notin {"idle", "ended", "dead"}
    /\ p # Auditor
    /\ phase' = [phase EXCEPT ![p] = "dead"]
    /\ held' = [held EXCEPT ![p] = None]
    /\ UNCHANGED <<serial, prepared, preparing, raw, execution, outputs, evidence, inner>>

Finalize(f) ==
    \/ LoadState(f) \/ ReplayResults(f)
    \/ WritePredictions(f) \/ WriteFailures(f) \/ WriteReceipt(f)

Audit == VerifyResults \/ VerifyExecution \/ VerifyOutputs \/ BindReceipt \/ Score

Next ==
    \/ MakeDirectory \/ WriteNext \/ PrepareDies
    \/ \E e \in Executor :
        CheckOutput(e) \/ Launch(e) \/ Answer(e) \/ SwiftExits(e) \/ HashResults(e) \/ WriteState(e)
    \/ \E f \in Finalizer : Finalize(f)
    \/ Audit
    \/ \E p \in Proc : Dies(p)

Spec == Init /\ [][Next]_vars

\* A command that finalizes runs on until it ends or dies, and is tried again.
FairSpec == Spec /\ \A f \in Finalizer : WF_vars(Finalize(f))

-----------------------------------------------------------------------------
(* Properties.                                                              *)

\* The validator of the state: an execution is completed only with results.
IsExecution(state) ==
    /\ state \in [state : {"completed", "failed"}, raw : Seq(Line) \cup {None}]
    /\ state.state = "completed" => state.raw # None
IsFailures(file)   == DOMAIN file \subseteq Case /\ \A c \in DOMAIN file : file[c] \in Failure
IsReceipt(content) ==
    /\ DOMAIN content = {"execution", "predictions", "failures"}
    /\ IsExecution(content.execution) /\ content.predictions \subseteq Case
    /\ IsFailures(content.failures)

TypeOK ==
    /\ serial \in BOOLEAN /\ prepared \in Prepared /\ preparing \in BOOLEAN
    /\ raw \in Seq(Line) \cup {None}
    /\ execution # None => IsExecution(execution)
    /\ predictions # None => predictions \subseteq Case
    /\ failures # None => IsFailures(failures)
    /\ receipt # None => IsReceipt(receipt)
    /\ bound # None => IsReceipt(bound)
    /\ phase \in [Proc -> Phases]
    /\ DOMAIN held = Proc /\ \A p \in Proc : held[p] # None => IsExecution(held[p])
    /\ swift \in [Executor -> {"absent", "running", "success", "error"}]
    /\ answered \in [Executor -> SUBSET Case]

Answers(c) == {i \in 1..Len(raw) : raw[i].case = c}

\* An output the verification accepts accounts for every planned case exactly once,
\* and holds a prediction of the cases that were answered exactly once, by a response
\* that parses, however many executions appended to the same raw results.
AccountedFor ==
    Complete /\ execution = [state |-> "completed", raw |-> raw] /\ OutputsOf(execution) =>
        /\ predictions \cap DOMAIN failures = {}
        /\ predictions \cup DOMAIN failures = Case
        /\ \A c \in Case :
            c \in predictions <=>
                Cardinality(Answers(c)) = 1 /\ \A i \in Answers(c) : raw[i].parses

\* When the executions do not overlap, a retry never appends to the results of an
\* execution that died, so no request is answered twice; and the evidence, which reads
\* the files a second time after the verification, is of one execution: its results
\* and its predictions stay as they were scored.
OneRunCounts ==
    serial =>
        /\ raw # None => \A c \in Case : Cardinality(Answers(c)) =< 1
        /\ evidence # None =>
            /\ evidence.verified = execution /\ execution.raw = raw
            /\ evidence.receipt = Receipt(execution) /\ evidence.receipt = receipt
            /\ evidence.scored = Replay(raw).predictions /\ evidence.scored = predictions

\* A completed execution is sealed by a receipt, however the commands that finalize
\* it overlap, unless one of them dies.
SealedAtLast ==
    serial /\ execution # None /\ execution.state = "completed"
        ~> receipt # None \/ \E f \in Finalizer : phase[f] = "dead"
=============================================================================

\* Two executions that may overlap or die, two commands that finalize, one audit.
SPECIFICATION FairSpec
CONSTANTS
    c1 = c1  c2 = c2
    Case <- TwoCases
    Line <- Lines
    Executor = {e1, e2}
    Finalizer = {f1, f2}
    Auditor = audit
    None = None
CHECK_DEADLOCK FALSE
INVARIANTS
    TypeOK
    AccountedFor
    OneRunCounts
PROPERTIES
    SealedAtLast

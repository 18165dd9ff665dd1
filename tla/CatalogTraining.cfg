\* Synchronous and asynchronous checkpoints, one retry, a quarantine, a crash, and a
\* resume from any checkpoint.
SPECIFICATION FairSpec
CONSTANTS
    Batches = 4
    MaxSteps = 4
    Every = 2
    MaxRetries = 1
    QuarantineAfter = 2
    SkipQuarantined = TRUE
    Modes = {TRUE, FALSE}
    MaxUnfinalized = 2
    MaxCrashes = 1
CHECK_DEADLOCK FALSE
INVARIANTS
    TypeOK
    NoBatchTrainedTwice
PROPERTIES
    RollbackIsRecent
    JobEnds

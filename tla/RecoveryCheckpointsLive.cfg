\* Fair ranks and collectives; two outstanding saves finalized in any order.
SPECIFICATION FairSpec
CONSTANTS
    r0 = r0  r1 = r1
    d1 = d1  d2 = d2  d3 = d3  periodic = periodic  base = base
    Rank <- Ranks
    Leader = r0
    Dir <- AllDirs
    RecoveryDir <- RecoveryDirs
    SyncDir = {base}
    DurableDir = {periodic, base}
    NoDir = NoDir
    Slots = 2
    MaxUnfinalized = 2
    InOrder = FALSE
    Faults = {}
    MaxGeneration = 2
    MaxRestarts = 0
INVARIANTS
    CleanEndLeavesNoOrphan
PROPERTIES
    OperationsReturn

\* A restart over the partial directory of a crashed save.
SPECIFICATION Spec
CONSTANTS
    r0 = r0  r1 = r1
    d1 = d1  d2 = d2  d3 = d3  periodic = periodic  base = base
    Rank <- Ranks
    Leader = r0
    Dir <- AllDirs
    RecoveryDir <- RecoveryDirs
    SyncDir = {base}
    DurableDir = {periodic, base}
    NoDir = NoDir
    Slots = 2
    MaxUnfinalized = 1
    InOrder = TRUE
    Faults = {}
    MaxGeneration = 3
    MaxRestarts = 1
SYMMETRY DirSymmetry
INVARIANTS
    DrainedSavesArePublished

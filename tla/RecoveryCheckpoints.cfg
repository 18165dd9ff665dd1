\* Two ranks, three recovery directories over two slots, two outstanding saves,
\* I/O errors of a publication, one restart.
SPECIFICATION Spec
CONSTANTS
    r0 = r0  r1 = r1
    d1 = d1  d2 = d2  d3 = d3  periodic = periodic  base = base
    Rank <- Ranks
    Leader = r0
    Dir <- AllDirs
    RecoveryDir <- RecoveryDirs
    SyncDir = {base}
    DurableDir = {periodic, base}
    NoDir = NoDir
    Slots = 2
    MaxUnfinalized = 2
    InOrder = TRUE
    Faults = {"write", "remove"}
    MaxGeneration = 3
    MaxRestarts = 1
SYMMETRY DirSymmetry
INVARIANTS
    TypeOK
    IndexedComplete
    ReplicasAgree
    GenerationsUnique
    Bounded
    PublishedInOrder
PROPERTIES
    ImplementsStore

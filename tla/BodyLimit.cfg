SPECIFICATION FairSpec
CONSTANTS
    Requests <- SomeRequests
    None = None
    MaxBytes = 5
    MaxChunks = 4
    MaxDepth = 1
    MaxTokens = 3
INVARIANT TypeOK
PROPERTY ImplementsGate
CHECK_DEADLOCK FALSE

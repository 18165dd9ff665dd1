SPECIFICATION Spec
CONSTANTS
    Class = {signer, endpoint}
    NoStep = none
    Unmapped = unmapped
    signer = signer
    endpoint = endpoint
    Capacity <- Narrow
    MaxTotal = 2
    WaitBoost = 10
    Settings <- AllSettings
INVARIANTS
    TypeOK
    DeferredForBetter
    WaitingIsBounded
PROPERTIES
    AgesSurvive

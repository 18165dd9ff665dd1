\* The default policy: one reservation, a bonus of 0.05 up to 0.30, a wave of 4.
SPECIFICATION Spec
CONSTANTS
    Class = {signer, endpoint}
    NoStep = none
    Unmapped = unmapped
    signer = signer
    endpoint = endpoint
    Capacity <- Narrow
    MaxTotal = 4
    WaitBoost = 5
    Settings <- DefaultPolicy
INVARIANTS
    BoostKeepsCriticality

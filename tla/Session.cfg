\* Every kind of account; up to three faults, of every mix.
SPECIFICATION LiveSpec
CONSTANTS
    Factors <- AnyFactor
    MaxAttempts = 3
    FaultMixes <- Mixes
    MaxFaults = 3
INVARIANTS StoredIsHeld
PROPERTIES LoginNeedsDeadToken RequestsEnd

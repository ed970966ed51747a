\* Four changes, two of which are kept, and up to three faults of any kind.
SPECIFICATION LiveSpec
CONSTANTS
    Cap = 2
    MaxChanges = 4
    FaultKinds <- AllFaults
    MaxFaults = 3
INVARIANTS TypeOK Settled
PROPERTIES ShutdownKeepsAll ChangesReachTheFile SavesAreAtomic

\* Two servers and three moves between them; up to two faults, harmless or not.
SPECIFICATION Spec
CONSTANTS
    Servers = {s1, s2}
    None = None
    MaxBytes = 2
    MaxMoves = 3
    FaultMixes <- Mixes
    MaxFaults = 2
INVARIANTS CreditedWhereCarried NothingCountedTwice VisitsAreStays

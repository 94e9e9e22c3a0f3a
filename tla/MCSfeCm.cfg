CONSTANTS
    Cpus = {p1, p2}
    Timeout = 2
    Horizon = 3
    MaxEntries = 2
    LongWalks = FALSE
    ChainEvents = TRUE
    None = None
SYMMETRY MCSymmetry
SPECIFICATION Spec
INVARIANTS
    TypeOK
    OrphansOnlyFromRaces
    KeepsAlive
    GoneIsClean

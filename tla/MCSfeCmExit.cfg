CONSTANTS
    Cpus = {p1}
    Timeout = 2
    Horizon = 3
    MaxEntries = 2
    LongWalks = FALSE
    ChainEvents = TRUE
    None = None
SPECIFICATION Spec
INVARIANTS
    ExitLeavesNoRules

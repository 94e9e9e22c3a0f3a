CONSTANTS
    M = 64
    Len = 2
    MaxWindow = 4
    AckWindow = 2
    Cpus = 2
    Wire = 1
    Start = 62
    Stream = 4
    Skips = FALSE
    DropInvalid = TRUE
    Dsack = FALSE
    None = None
SPECIFICATION Spec
CHECK_DEADLOCK FALSE
INVARIANTS
    NothingForgotten
PROPERTIES
    EdgesAdvance

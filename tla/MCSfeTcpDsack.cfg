CONSTANTS
    M = 64
    Len = 2
    MaxWindow = 4
    AckWindow = 2
    Cpus = 1
    Wire = 2
    Start = 58
    Stream = 8
    Skips = FALSE
    DropInvalid = FALSE
    Dsack = TRUE
    None = None
SPECIFICATION Spec
CHECK_DEADLOCK FALSE
INVARIANTS
    LargestWindow

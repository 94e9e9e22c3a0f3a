CONSTANTS
    M = 64
    Len = 2
    MaxWindow = 4
    AckWindow = 2
    Cpus = 1
    Wire = 2
    Start = 58
    Stream = 8
    Skips = TRUE
    DropInvalid = FALSE
    Dsack = FALSE
    None = None
SPECIFICATION Spec
CHECK_DEADLOCK FALSE
INVARIANTS
    TypeOK
    UsefulSegmentsFit
    HandedBack

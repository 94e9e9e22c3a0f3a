SPECIFICATION BusySpec
CONSTANTS
    c1 = c1
    c2 = c2
    o1 = o1
    o2 = o2
    None = None
    Cpus <- McOneCpu
    Objects <- McObjects
    OffloadAt = 2
    SameBucket = TRUE
    MaxEntries = 1
PROPERTY AutoOffload
CHECK_DEADLOCK FALSE

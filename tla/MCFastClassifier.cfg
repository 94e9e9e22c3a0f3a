SPECIFICATION Spec
CONSTANTS
    c1 = c1
    c2 = c2
    o1 = o1
    o2 = o2
    None = None
    Cpus <- McCpus
    Objects <- McObjects
    OffloadAt = 2
    SameBucket = TRUE
    MaxEntries = 3
SYMMETRY Symmetric
INVARIANTS
    TypeOK
    TableSound
    DanglingOnlyFromRaces
    OrphansOnlyFromRaces
    HeldObjectsLive
    AnnouncedIsUndone
    FlagAgrees
PROPERTY RulesAreEarned
CHECK_DEADLOCK FALSE

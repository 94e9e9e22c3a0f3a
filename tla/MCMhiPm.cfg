SPECIFICATION Spec
CONSTANTS
    MaxErrors = 1
    None = None
INVARIANTS
    TypeOK
    SuspendedIsM3
    DevStateAgrees
    ContextOutlivesWork
PROPERTIES
    QueuedIsRung
    ErrorIsProcessed
    RemovalEnds
CHECK_DEADLOCK FALSE

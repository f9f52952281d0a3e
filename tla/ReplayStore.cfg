SPECIFICATION Spec
CONSTANTS
    Keys = {k1, k2, k3}
    Capacity = 2
    TimeWindow = 2
    MaxClock = 5
    MaxInserts = 6
INVARIANTS
    TypeOK
    QueueMatchesEntries
    QueueInTimeOrder
    StoreBounded
    ReplayNeedsForgetting
PROPERTIES
    ImplementsWindow
CHECK_DEADLOCK FALSE

SPECIFICATION SyncSpec
CONSTANTS
    t1 = t1
    t2 = t2
    t3 = t3
    t4 = t4
    NULL = NULL
    Threads = {t1, t2, t3, t4}
    Levels <- InitLevels
    MaxLevel = 3
    Users <- Three
    EMPTY = EMPTY
    Values = {v1, v2}
    Size = 2
    Callers <- Three
    Base <- ThreePriorities
    NONE = NONE
    Lowest = 2
    Recursive = FALSE
    Elevations = {0, NONE}
    Calls = {"pend", "try", "post", "destroy"}
    MaxHeld = 2
INVARIANTS
    TypeOK
    OneWaker
    NoLostWakeup
    
    Exclusion
    WakersKept
PROPERTIES
    ImplementsAbstract
    
    
    DestroyFrees
    PostRestores
CHECK_DEADLOCK FALSE

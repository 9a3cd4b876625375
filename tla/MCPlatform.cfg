SPECIFICATION MCSpec
CONSTANTS
    NULL = NULL
    t1 = t1
    t2 = t2
    t3 = t3
    t4 = t4
    NumCPUs = 3
    Threads = {t1, t2, t3, t4}
    Affinity <- ThreeCPUs
    MaxDepth = 2
    Words = 4
    APs = {a1, a2}
    Callers = {t1, t2}
    Drives = {d1, d2}
    Sectors = {s1}
    SectorSize = 4
    Sizes = {3}
    Fill = 1
INVARIANTS
    MutualExclusion
    OwnerHolds
    
    NothingLeftInService
    MasksFollow
    ApsInTurn
    
    ClockRead
PROPERTIES
    SomeoneGetsIn
    BootCompletes
    PanicStopsAll
CHECK_DEADLOCK FALSE

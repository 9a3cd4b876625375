SPECIFICATION Spec
CONSTANTS
    init0 = init0
    i0 = i0
    i1 = i1
    m = m
    w1 = w1
    w2 = w2
    NULL = NULL
    main = m
    init = init0
    CPUs = {0, 1}
    idle <- TwoIdles
    Workers = {m, w1, w2}
    Creator <- MainCreates
    Affinity <- ChildrenOnOne
    Prio <- AllFirst
    Joins = {}
    Calls = {"create", "lock", "sleep"}
    Orphans = FALSE
    Sleeps = {5, 12}
    MaxTime = 10
    Word32 = 1024
    MaxCPUs = 2
    Slice = 5
    Word64 = 4096
    Lowest = 1
INVARIANTS
    TablesSound
    NoThreadLost

    

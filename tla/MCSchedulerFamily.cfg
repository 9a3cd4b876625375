SPECIFICATION Spec
CONSTANTS
    init0 = init0
    i0 = i0
    i1 = i1
    m = m
    w1 = w1
    w2 = w2
    NULL = NULL
    main = m
    init = init0
    CPUs = {0}
    idle <- OneIdle
    Workers = {m, w1, w2}
    Creator <- ChainCreates
    Affinity <- AllOnZero
    Prio <- MainFirst
    Joins <- ParentsJoin
    Calls = {"create", "wait", "exit", "priority"}
    Orphans = TRUE
    Sleeps = {}
    MaxTime = 0
    Word32 = 1024
    MaxCPUs = 1
    Slice = 5
    Word64 = 4096
    Lowest = 1
INVARIANTS
    NoThreadLost
    NoUseAfterFree
    FamilyTree
CHECK_DEADLOCK FALSE

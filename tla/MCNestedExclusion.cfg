SPECIFICATION NestedSpec
CONSTANTS
    t1 = t1
    t2 = t2
    t3 = t3
    t4 = t4
    NumCPUs = 2
    Threads = {t1, t2, t3}
    Affinity <- TwoCPUs
    MaxDepth = 2
    Words = 4
INVARIANT
    MutualExclusion

SPECIFICATION Spec
CONSTANTS
    t1 = t1
    t2 = t2
    NULL = NULL
    Threads = {t1, t2}
    MaxValue = 2
INVARIANT
    ContextRestored

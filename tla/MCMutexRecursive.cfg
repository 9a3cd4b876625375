SPECIFICATION MutexSpec
CONSTANTS
    t1 = t1
    t2 = t2
    NONE = NONE
    Callers = {t1, t2}
    Base <- TwoPriorities
    Lowest = 2
    Recursive = TRUE
    Elevations = {NONE}
    Calls = {"pend", "post"}
    MaxHeld = 2
INVARIANT
    Exclusion

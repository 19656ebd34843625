SPECIFICATION Spec
CONSTANTS
    t1 = t1
    t2 = t2
    t3 = t3
    Thread = {t1, t2, t3}
    idle_thread = idle
    initial_thread = t1
    NULL = NULL
    Sema = {s}
    Lock = {l}
    IntrSema = {}
    PRI_MAX = 2
    TIME_SLICE = 2
    AGE = 1
    MaxValue = 2
SYMMETRY MCSymmetry
INVARIANTS Consistent MutualExclusion NoLostWakeup StrictPriority
PROPERTY LocksImplementLockService

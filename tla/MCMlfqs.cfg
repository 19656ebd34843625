SPECIFICATION Spec
CONSTANTS
    t1 = t1
    t2 = t2
    t3 = t3
    idle = idle
    all_list <- MCAllList
    fp_format = 64
    Width = 20
    PRI_MAX = 7
    PRI_DEFAULT = 3
    TIMER_FREQ = 4
    TIME_SLICE = 4
    Nice <- MCNice
    Setter = {t1}
    Sleeper = {t1, t2, t3}
    MaxTick = 8
CHECK_DEADLOCK FALSE
PROPERTIES RunsByPriority FairPriorities

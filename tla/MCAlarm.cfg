SPECIFICATION AlarmSpec
CONSTANTS
    Thread = {t1, t2}
    idle_thread = idle
    initial_thread = t1
    NULL = NULL
    Sema = {s}
    Lock = {}
    IntrSema = {s}
    PRI_MAX = 2
    TIME_SLICE = 2
    AGE = 2
    MaxValue = 1
    MaxSleep = 2
    thread_prior_aging = TRUE
INVARIANTS AlarmQueuesAgree WakingPreempts
PROPERTIES SleepsExactly NoStarvation

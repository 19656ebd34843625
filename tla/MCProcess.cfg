SPECIFICATION FairSpec
CONSTANTS
    main = main
    first = first
    Page = {main, first, a}
    NULL = NULL
    MaxTid = 4
CHECK_DEADLOCK FALSE
INVARIANTS StatusExact
PROPERTY WaitReturns

SPECIFICATION Spec
CONSTANTS
    main = main
    first = first
    Page = {main, first, a}
    NULL = NULL
    MaxTid = 4
INVARIANT WaitOutlivesChild
CHECK_DEADLOCK FALSE

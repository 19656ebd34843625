SPECIFICATION FairSpec
CONSTANTS
    Reader = {r1, r2}
    Writer = {w1, w2}
    NULL = NULL
    INTQ_BUFSIZE = 3
    MaxTx = 5
    MaxRx = 4
CHECK_DEADLOCK FALSE
INVARIANTS InOrder NoMissedSignal
PROPERTY Drains

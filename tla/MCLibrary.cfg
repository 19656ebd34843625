SPECIFICATION LibSpec
CONSTANTS
    NULL = NULL
    t1 = t1
    t2 = t2
    Thread = {t1, t2}
    PageCnt = 2
    PGSIZE = 6
    Header = 3
    MinBlock = 1
    Word = 256
    Requests <- MCRequests
    Products <- MCProducts
    GARBAGE = GARBAGE
    L1 = L1
    L2 = L2
    ListIds = {L1, L2}
    e1 = e1
    e2 = e2
    e3 = e3
    e4 = e4
    e5 = e5
    Elem = {e1, e2, e3, e4, e5}
    ListElem = {e1, e2, e3}
    value <- MCvalue
    hash <- MChash
    MIN_BUCKETS = 1
    BEST_ELEMS_PER_BUCKET = 1
    MaxBuckets = 4
    Trap = Trap
    W = 4
    INT_MAX = 127
    Chars = {1, 2}
    TextSize = 5
    Bits <- MCBits
    BUF_SIZE = 8
    PER_LINE = 3
    p1 = p1
    p2 = p2
    Proc = {p1, p2}
    KPages = {0, 1, 2}
    Frames = {0, 1}
    PageBytes = 2
    PtSize = 1
    PdSize = 2
    StackLimit = 4
    LoadPages = {0, 1, 2}
    LoadFrames = {0, 1, 2}
    PG = 16
    PTS = 2
    PDS = 3
    AddrSpan = 256
    WordSize = 2
    Printer = {t1, t2}
    MaxChars = 1
    MaxNest = 2
    MaxCalls = 2
    MaxOut = 3
    Client = {e1, e2, e3, e4}
SYMMETRY MCSymmetry
INVARIANTS HeapSound AlgorithmsExact TextExact  SpacesAccounted TranslationsFresh OutputUnmixed SignalsExact
PROPERTIES ListsImplementSequences HashImplementsTable

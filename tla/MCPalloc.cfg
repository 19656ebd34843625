SPECIFICATION Spec
CONSTANTS
    t1 = t1
    t2 = t2
    t3 = t3
    Thread = {t1, t2, t3}
    NULL = NULL
    PageCnt = 4
SYMMETRY MCSymmetry
INVARIANTS PagesSound NoSpuriousFailure
PROPERTY PoolImplementsAllocator

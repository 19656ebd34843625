SPECIFICATION FairSpec
CONSTANTS
    Thread = {t1, t2}
    Disk = {hda, hdb}
    Sector = {s1}
    Value = {v1, v2}
    NULL = NULL
    Spurious = 1
CHECK_DEADLOCK FALSE
INVARIANTS TransfersRight
PROPERTY RequestsEnd

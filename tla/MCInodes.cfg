SPECIFICATION Spec
CONSTANTS
    t1 = t1
    t2 = t2
    t3 = t3
    i1 = i1
    i2 = i2
    s1 = s1
    s2 = s2
    s3 = s3
    b1 = b1
    b2 = b2
    v1 = v1
    v2 = v2
    NULL = NULL
    Thread = {t1, t2, t3}
    Inode = {i1, i2}
    Sector = {s1, s2, s3}
    Byte = {b1, b2}
    Value = {v1, v2}
    Calls <- MCCalls
SYMMETRY MCSymmetry
INVARIANTS  NoLostWrite SectorsKept

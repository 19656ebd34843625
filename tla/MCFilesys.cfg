SPECIFICATION Spec
CONSTANTS
    t1 = t1
    n1 = n1
    n2 = n2
    n3 = n3
    NULL = NULL
    Thread = {t1}
    Name = {n1, n2, n3}
    Slots = 2
    DiskSize = 8
    Lengths = {0, 2}
    Failures = 1
    Reboots = 1
SYMMETRY MCSymmetry
INVARIANTS FilesApart SectorsAccounted
PROPERTY NamesSpec

SPECIFICATION FairAppSpec
CONSTANTS
    QUANTUM_SIZE = 8
    QSET_SIZE = 8
    Task = {t1, t2, t3}
    Node = {n1, n2, n3}
    NULL = NULL
    WILD = WILD
    WriteCounts = {26, 28}
    ReadCounts = {26, 28}
    MaxWrites = 3
    App1 = t1
    SizeOfCh1 = 26
    SizeOfCh = 28
INVARIANTS WritesExclusive OneUnit ReadsOwnOrNewer NoReadWaits
PROPERTY AllEnd
CHECK_DEADLOCK FALSE

SPECIFICATION FairSyncSpec
CONSTANTS
    QUANTUM_SIZE = 2
    QSET_SIZE = 2
    Task = {t1, t2, t3}
    Node = {n1, n2, n3}
    NULL = NULL
    WILD = WILD
    WriteCounts = {3, 6}
    ReadCounts = {1, 3}
    MaxWrites = 2
INVARIANTS WalkCovered ReadAfterPublish NoReadFault
CHECK_DEADLOCK FALSE
PROPERTY WriteLetsReadThrough

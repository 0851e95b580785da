SPECIFICATION FairBlockSpec
CONSTANTS
    QUANTUM_SIZE = 2
    QSET_SIZE = 2
    Readers = {r1}
    Writers = {w1}
    Task = {r1, w1}
    Node = {n1, n2}
    NULL = NULL
    WILD = WILD
    NOD = 5
    WriteCounts = {3}
    ReadCounts = {2}
    MaxWrites = 2
PROPERTY WriterWakesReader
CHECK_DEADLOCK FALSE

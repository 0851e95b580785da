SPECIFICATION FairBlockSpec
CONSTANTS
    QUANTUM_SIZE = 2
    QSET_SIZE = 2
    Readers = {r1, r2}
    Writers = {w1, w2}
    Task = {r1, r2, w1, w2}
    Node = {n1, n2}
    NULL = NULL
    WILD = WILD
    NOD = 1
    WriteCounts = {3, 6}
    ReadCounts = {5}
    MaxWrites = 2
INVARIANTS NoLostWakeup FlagAfterPublish
PROPERTIES WriterWakesReader SleeperReads
CHECK_DEADLOCK FALSE

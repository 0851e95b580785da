SPECIFICATION Spec
CONSTANTS
    QUANTUM_SIZE = 2
    QSET_SIZE = 2
    Task = {t1, t2, t3}
    Node = {n1, n2, n3, n4}
    NULL = NULL
    WILD = WILD
    WriteCounts = {0, 3, 6}
    ReadCounts = {2, 7}
    MaxWrites = 3
SYMMETRY Symmetric
INVARIANTS TypeOK ListShape UnterminatedOwned
PROPERTY ImplementsRegister
CHECK_DEADLOCK FALSE

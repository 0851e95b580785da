SPECIFICATION Spec
CONSTANTS
    QUANTUM_SIZE = 3
    QSET_SIZE = 2
    Counts = {0, 1, 2, 3, 4, 5, 6, 7, 8, 11, 12, 13, 17, 18, 19, 24}
INVARIANTS FillExact CoversRead BoundedOverrun
PROPERTY Terminates
CHECK_DEADLOCK FALSE

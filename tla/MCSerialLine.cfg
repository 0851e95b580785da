SPECIFICATION FairSpec
CONSTANTS
    Size = 5
    Dot = 4
    Second = 7
    Late = 2
    Runs = 1
INVARIANTS InOrder
PROPERTY TransferEnds
CHECK_DEADLOCK FALSE

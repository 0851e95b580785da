SPECIFICATION FairWorkSpec
CONSTANTS
    Size = 4
    Dot = 3
    Second = 5
    Late = 1
    Runs = 1
INVARIANTS NothingSkipped NoWorkAfterUnload
PROPERTIES BothEnd KilledEnds
CHECK_DEADLOCK FALSE

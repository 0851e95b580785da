SPECIFICATION Spec
CONSTANTS
    Task = {t1, t2, t3}
    Starts = {0, 3}
    Segs <- MCSegs
    PageSectors = 2
    DataSectors = 1
    Capacity = 6
    MaxWrites = 2
    UNSET = UNSET
    NONE = NONE
INVARIANTS StaysInMemory OnePlaceReadsBack UnloadIsQuiet
PROPERTIES RequestsEnd
CHECK_DEADLOCK FALSE

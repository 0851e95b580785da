SPECIFICATION DataSpec
CONSTANTS
    Task = {t1, t2}
    Reader = {r1}
    Drivers = {"driver_2", "ioctl_driver", "proc_driver", "jiffies_driver"}
    MaxNod = 2
    MaxLoads = 2
    NONE = NONE
    QUANTUM_SIZE = 8
    QSET_SIZE = 8
    Settable = {16}
    Privileged = {t1}
    Count = 104
    DataLoads = 1
    MaxWrites = 2
    LooseWrites = 1
    NULL = NULL
    WILD = WILD
INVARIANTS LoadedIsSound ScriptIsSound OneDeviceLeavesNothing ReadsAsWritten
PROPERTIES RmmodEnds CallsEnd
CHECK_DEADLOCK FALSE

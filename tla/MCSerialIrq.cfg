SPECIFICATION FairSpec
CONSTANTS
    Size = 2
    Dot = 2
    OUT2_GATES = {TRUE, FALSE}
    WriterLkm = "wrietr"
    ReaderLkm = "reader"
    Runs = 1
PROPERTIES NoOverrun FirstByteSent KilledEnds
CHECK_DEADLOCK FALSE

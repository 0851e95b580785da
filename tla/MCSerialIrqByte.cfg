SPECIFICATION FairSpec
CONSTANTS
    Size = 1
    Dot = 1
    OUT2_GATES = {FALSE}
    WriterLkm = "wrietr"
    ReaderLkm = "reader"
    Runs = 1
PROPERTY ByteWakesRead
CHECK_DEADLOCK FALSE

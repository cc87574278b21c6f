SPECIFICATION FairSpec
CONSTANTS
    Buffers = {b1, b2, b3}
    FifoSize = 3
    FileSizes = {1, 9}
    WindowPlays = 2
    None = None
INVARIANTS
    TypeOK
    PlaysFile
    EndOfFile
    ReadyBeforeStop
PROPERTIES
    DoneIsRecent
    StopReturns

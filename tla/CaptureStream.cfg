SPECIFICATION FairSpec
CONSTANTS
    Buffers = {b1, b2, b3}
    FifoSize = 3
    WindowFills = 2
    None = None
INVARIANTS
    TypeOK
    Conservation
    ExchangeOnLiveStream
    ConfigOutlivesStream
PROPERTIES
    DoneEndsItsSession
    SleeperIsWoken
    StopReturns

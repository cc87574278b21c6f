SPECIFICATION FairSpec
CONSTANTS
    N = 4
INVARIANTS
    IInv
    NotWhileWritten
    OnLiveProcessor
CHECK_DEADLOCK FALSE
PROPERTIES
    JoinReturns

SPECIFICATION Spec
CONSTANTS
    FifoSize = 2
    QueueSize = 3
    Images = 2
    None = None
INVARIANTS
    IInv
    OldOnlyFirst
    PointerLive
PROPERTIES
    OneOwner

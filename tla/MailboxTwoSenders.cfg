SPECIFICATION FairSpec
CONSTANTS
    Main = main
    Workers = {worker}
    Null = null
INVARIANTS
    IInv
    SenderWaits
PROPERTIES
    SendReturns

SPECIFICATION Spec
CONSTANTS
    Values = {v1, v2}
    Torn = Torn
    Size = 4
    Wraps = 2
INVARIANTS
    NoTornRead
    IInv
PROPERTIES
    ImplementsQueue

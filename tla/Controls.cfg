SPECIFICATION Spec
CONSTANTS
    Keys = {k1, k2}
    Nibble = 4
    BlModulus = 3
    Timers = {0, 2, 3}
SYMMETRY Symmetry
INVARIANTS
    IInv
    KeyReleased
PROPERTIES
    SleepsOnTime

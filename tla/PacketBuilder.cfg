SPECIFICATION PacketSpec
CONSTANTS
    Ones = 3
    Training = 4
    Distance = 1
    Capacity = 18
    MaxData = 6
    Noise = 1
    Errors = 2
    None = None
INVARIANTS
    HeardIsDelivered
    NextIsDelivered

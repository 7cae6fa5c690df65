CONSTANTS
    b1 = b1
    b2 = b2
    Backends = {b1, b2}
    FlipCycles = 1
    MinPeers = 2
    Confirmations = 1
    Window = 2
    Retention = 1
    MaxFaults = 1
    BusMax = 1
    Response = "advisory"
SPECIFICATION Spec
INVARIANT NoExclusionIsForgotten

CONSTANTS
    b1 = b1
    b2 = b2
    Backends = {b1, b2}
    FlipCycles = 2
    MinPeers = 2
    Confirmations = 1
    Window = 2
    Retention = 1
    MaxFaults = 0
    BusMax = 1
    Response = "auto-isolate"
SPECIFICATION OperatorSpec
PROPERTY OperatorIsolateStands

SPECIFICATION Spec
CONSTANTS
    Backends <- TwoBackends
    MaxRanked = 1
    VerdictTtl = 1
    StaleAfter = 1
    ActivePinned = TRUE
    Modes = {"classical-only", "hybrid"}
    MaxVersion = 1
    MaxInbox = 1
    MaxOutages = 1
PROPERTIES
    OutageEnds

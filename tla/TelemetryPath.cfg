SPECIFICATION Spec
CONSTANTS
    Addresses = {a1}
    Containers = {c1, c2}
    Ttl = 2
    MaxRequests = 3
    MaxFaults = 2
    MaxChanges = 1
INVARIANTS
    TelemetryTypeOK
    NothingVanishes
    CopiesAreExplained
PROPERTIES
    OldOwnerIsForgotten
    BatchesAreWhole
    ImplementsLedger
    BufferIsShipped

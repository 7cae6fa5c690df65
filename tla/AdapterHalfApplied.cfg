CONSTANTS
    b1 = b1
    b2 = b2
    Backends = {b1, b2}
    Weights = {1}
    Algorithms = {"round_robin"}
    loop = loop
    Threads = {loop}
    Faults = TRUE
SPECIFICATION AdapterSpec
INVARIANT NeverHalfApplied

CONSTANTS
    b1 = b1
    b2 = b2
    Backends = {b1, b2}
    Seed = {b1, b2}
    Addresses = {}
    loop = loop
    Loop = loop
    Threads = {loop}
    Weights = {1, 4, 5}
    Algorithms = {"round_robin"}
    Scores = {50}
    Thresholds = {0}
    FractionNum = 3
    FractionDen = 4
    Faults = FALSE
    MayScale = TRUE
    MayRestart = FALSE
    DockerFaults = FALSE
SPECIFICATION Spec
INVARIANT SafeModeDominates

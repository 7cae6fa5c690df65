CONSTANTS
    b1 = b1
    b2 = b2
    b3 = b3
    Backends = {b1, b2, b3}
    Seed = {b1, b2, b3}
    Addresses = {}
    loop = loop
    http = http
    Loop = loop
    Threads = {loop, http}
    Weights = {1}
    Algorithms = {"round_robin"}
    Scores = {10}
    Thresholds = {0}
    FractionNum = 3
    FractionDen = 4
    Faults = FALSE
    MayScale = FALSE
    MayRestart = FALSE
    DockerFaults = FALSE
SPECIFICATION Spec
PROPERTY ExclusionsKeepQuorum

CONSTANTS
    b1 = b1
    b2 = b2
    Backends = {b1, b2}
    Seed = {b1, b2}
    Addresses = {}
    loop = loop
    http = http
    Loop = loop
    Threads = {loop, http}
    Weights = {1}
    Algorithms = {"round_robin", "least_conn"}
    Scores = {10}
    Thresholds = {0}
    FractionNum = 3
    FractionDen = 4
    Faults = TRUE
    MayScale = FALSE
    MayRestart = FALSE
    DockerFaults = FALSE
SPECIFICATION Spec
INVARIANT UncontendedRenderIsExact
PROPERTY AdapterSpec
SYMMETRY BackendSymmetry

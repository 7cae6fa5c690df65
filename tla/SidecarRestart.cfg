CONSTANTS
    b1 = b1
    b2 = b2
    Backends = {b1, b2}
    Seed = {b1, b2}
    Addresses = {}
    loop = loop
    Loop = loop
    Threads = {loop}
    Weights = {1}
    Algorithms = {"round_robin"}
    Scores = {10}
    Thresholds = {0}
    FractionNum = 3
    FractionDen = 4
    Faults = FALSE
    MayScale = TRUE
    MayRestart = TRUE
    DockerFaults = TRUE
SPECIFICATION Spec
INVARIANT SidecarTypeOK
PROPERTIES HydrationRestoresVerdicts ExclusionSurvivesRestart
SYMMETRY BackendSymmetry

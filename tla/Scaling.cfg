CONSTANTS
    loop = loop
    http = http
    Loop = loop
    Threads = {loop, http}
    Compose = 1
    Replicas = 2
    Policies <- TwoPolicies
    Demands = {5, 15}
    Provisioning = TRUE
    Headroom = 15
    Deadband = 15
    MaxStepOut = 0
    MaxStepIn = 1
    OutCooldown = 0
    InCooldown = 1
    MaxAge = 1
    MaxStreak = 2
    Failing = {"start", "run", "stop", "remove", "insert", "publish"}
SPECIFICATION Spec
INVARIANTS AutoscalerTypeOK AnnouncedCountIsTrue
PROPERTIES ScalingWithinBounds RecordedActionsCoolDown ScaleInIsConfirmed

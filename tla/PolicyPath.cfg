CONSTANTS
    Threads = {t1, t2}
    MaxBackends = 3
    Updates <- TwoUpdates
    Initial <- FirstFile
    Mounts = {"file", "dir"}
    MaxVersion = 3
    Consumers = {autoscaler, rl_engine, sidecar}
    Comparing = {autoscaler, rl_engine}
    Readers = {autoscaler}
    Pullers = {rl_engine}
    Deployments <- OneAtATime
    Defaults <- OneAndTwo
    MaxQueue = 0
SPECIFICATION Spec
INVARIANTS PolicyPathTypeOK BoundsAreOrdered FreshServicesAgree
PROPERTIES ImplementsRegister FreshPolicyIsAdopted
CHECK_DEADLOCK FALSE

CONSTANTS
    Threads = {t1}
    MaxBackends = 3
    Updates <- TwoUpdates
    Initial <- FirstFile
    Mounts = {"file", "dir"}
    MaxVersion = 3
    Consumers = {autoscaler}
    Comparing = {autoscaler}
    Readers = {autoscaler}
    Pullers = {}
    Deployments <- OneAtATime
    Defaults <- OneAndTwo
    MaxQueue = 0
SPECIFICATION Spec
INVARIANT DefaultsKeepOrder
CHECK_DEADLOCK FALSE

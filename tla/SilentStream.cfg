SPECIFICATION Spec
CONSTANTS
    s1 = s1
    s2 = s2
    Channels = {anomaly, routing}
    Streams = {s1, s2}
    RingCapacity = 1
    QueueCapacity = 1
    Heartbeat <- FeedHeartbeat
    ReadTimeout <- ClientTimeouts
    MaxEvents = 2
INVARIANTS
    NoStreamTimesOut

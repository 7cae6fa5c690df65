SPECIFICATION Spec
CONSTANTS
    Addresses = {a1}
    Containers = {c1, c2}
    Ttl = 2
    MaxRequests = 3
    MaxFaults = 2
    MaxChanges = 2

PROPERTY
    RotationIsFollowed

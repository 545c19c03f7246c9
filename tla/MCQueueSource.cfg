CONSTANTS
    Nobody = Nobody
    Instances = {i1, i2}
    Messages = {m1, m2}
    Decodable = {m1}
    MaxMessages = 2
    Concurrency = 1

SPECIFICATION Spec
SYMMETRY InstanceSymmetry
INVARIANTS LeaseExclusive HeartbeatJoined StoppedDrained
PROPERTY ImplementsEventSource

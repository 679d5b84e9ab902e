SPECIFICATION MCSpec
CONSTANTS
    p1 = p1
    p2 = p2
    Providers = {p1, p2}
    Svc <- MCSvc
    Ttl <- MCTtl
    Nanos = 3
    Minimum = 2
    Interval = 1
    ReqTimeout = 2
    MaxFaults = 3
INVARIANTS
    FreshIsListed
PROPERTIES
    DeadForgotten
    KeptListed

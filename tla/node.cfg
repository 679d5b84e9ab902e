SPECIFICATION Spec
CONSTANTS
    Callers = {c1, c2}
    Admins = {a1, a2}
    Kinds = {s1, s2}
    NodePort = w1
    Ports = {w1, w2}
    NoPort = nil
    Nobody = nobody
    MaxFaults = 1
    MaxCalls = 4
INVARIANTS
    TypeOK
    UpOrDown
    WsHeld
PROPERTY
    CallsReturn
CHECK_DEADLOCK FALSE

SPECIFICATION Spec
CONSTANTS
    w = w
    h = h
    m1 = m1
    m2 = m2
    m3 = m3
    sub1 = sub1
    sub2 = sub2
    NoSub = NoSub
    Msgs = {m1, m2, m3}
    Conns = {w}
    Websocket = {w}
    Subs = {sub1}
    Garbage = {}
    Unencodable = {}
    MaxEvents = 1
    ConnOf <- OneConnOf
    Script <- OneScript
    Requests <- SubsRequests
    SubConn <- OneSubConn
INVARIANTS
    UnsubscribeClosesErr

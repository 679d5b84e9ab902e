SPECIFICATION FairSpec
CONSTANTS
    w = w
    h = h
    m1 = m1
    m2 = m2
    m3 = m3
    sub1 = sub1
    sub2 = sub2
    NoSub = NoSub
    Msgs = {m1, m2, m3}
    Conns = {w, h}
    Websocket = {w}
    Subs = {sub1, sub2}
    Garbage = {m2}
    Unencodable = {m3}
    MaxEvents = 0
    ConnOf <- StopConnOf
    Script <- StopScript
    Requests <- StopRequests
    SubConn <- StopSubConn
INVARIANTS
    StopClosesAll
    TasksFinishFirst
    AnsweredOnce
PROPERTIES
    ReadIsAnswered

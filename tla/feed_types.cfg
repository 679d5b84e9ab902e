SPECIFICATION Spec
CONSTANTS
    x1 = x1
    x2 = x2
    x3 = x3
    x4 = x4
    s1 = s1
    s2 = s2
    c1 = c1
    c2 = c2
    c3 = c3
    c4 = c4
    T = T
    U = U
    NoType = NoType
    Senders = {s1, s2}
    Types = {T, U}
    Subs = {x1, x2, x3, x4}
    Chans = {c1, c2, c3, c4}
    ChanOf <- TypedChanOf
    Cap <- TypedCap
    ElemType <- TypedElemType
    SendType <- TypedSendType
INVARIANTS
    TypeSafe
    CaseFound
CHECK_DEADLOCK FALSE

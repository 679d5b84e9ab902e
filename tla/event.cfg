SPECIFICATION FairSpec
CONSTANTS
    Subs = {client1, client2}
    MaxSends = 4
    EvChanSize = 1
    ChanSize = 1
INVARIANTS
    TypeOK
    NoGap
PROPERTIES
    ChannelUnused
    CallsReturn
CHECK_DEADLOCK FALSE

SPECIFICATION FairSpec
CONSTANTS
    Subs = {client1}
    MaxSends = 1
    EvChanSize = 1
    ChanSize = 1
PROPERTIES
    UnsubscribeClosesErr
CHECK_DEADLOCK FALSE

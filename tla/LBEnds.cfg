SPECIFICATION FairSpec
CONSTANTS
    c1 = c1
    a1 = a1
    Conns = {c1}
    Addrs = {a1}
    Senders <- Both
    Vanishing <- Server
    Slow <- Both
    Reported = {}
    ChanSize = 2
    MaxErrors = 1
PROPERTIES
    ConnectionEnds
    CountsSettle
CHECK_DEADLOCK FALSE

SPECIFICATION FairSpec
CONSTANTS
    t1 = t1
    c1 = c1
    c2 = c2
    r1 = r1
    Nil = Nil
    Tails = {t1}
    Callers = {c1, c2}
    Writers = {c1, c2}
    Readers = {r1}
    Messages <- MCMessages
    Limit = 2
    Count = 2
    Lines = 1
    AppRoom = 1
    PBRoom = 2
    MaxLost = 1
INVARIANTS
    LogIsWhole
    NothingLost
    InOrder
PROPERTIES
    RingIsBoundedLog
    MessagesAreDelivered
    EveryoneReturns
CHECK_DEADLOCK FALSE

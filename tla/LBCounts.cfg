SPECIFICATION Spec
CONSTANTS
    c1 = c1
    c2 = c2
    a1 = a1
    Conns = {c1, c2}
    Addrs = {a1}
    Senders <- Client
    Vanishing = {}
    Slow = {}
    Reported = {"conn", "tx"}
    ChanSize = 1
    MaxErrors = 0
INVARIANTS
    ActiveIsCounted
    EndedIsClosed
    StatsMakeSense
    TypeOK
CHECK_DEADLOCK FALSE

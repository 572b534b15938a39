SPECIFICATION FairSpec
CONSTANTS
    OriginalTarget = 2
    Service = TRUE
    NumPorts = 1
    PortsInUse = {}
    LaunchCanFail = TRUE
    Requests = {}
    Devs = {}
    Checked = {}
    Wayward = {1}
    MaxExec = 3
    MaxRequests = 0
    MaxCrashes = 1
INVARIANTS
    FreshIds
    IInv
    CreatedIsPersisted
    NoLostRestart
PROPERTIES
    TaskKeepsLedger
    DeadIsUntracked
    ServiceIsReplenished
CHECK_DEADLOCK FALSE

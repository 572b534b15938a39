SPECIFICATION Spec
CONSTANTS
    OriginalTarget = 1
    Service = TRUE
    NumPorts = 0
    PortsInUse = {}
    LaunchCanFail = FALSE
    Requests = {"stop"}
    Devs = {}
    Checked = {}
    Wayward = {}
    MaxExec = 2
    MaxRequests = 1
    MaxCrashes = 0
INVARIANTS
    StopSticks
CHECK_DEADLOCK FALSE

SPECIFICATION Spec
CONSTANTS
    OriginalTarget = 1
    Service = TRUE
    NumPorts = 1
    PortsInUse = {}
    LaunchCanFail = FALSE
    Requests = {"start", "stop", "env", "devOn", "devOff"}
    dev1 = dev1
    dev2 = dev2
    Devs = {dev1, dev2}
    Checked = {2}
    Wayward = {1}
    MaxExec = 2
    MaxRequests = 2
    MaxCrashes = 0
SYMMETRY Placeholders
INVARIANTS
    NoLostChild
    NoStaleBackend
    ExitReported
    CreatedAtMostTarget
CHECK_DEADLOCK FALSE

SPECIFICATION FairSpec
CONSTANTS
    i1 = i1
    Inst = {i1}
    None = None
    NumChecks = 2
    HealthyThreshold <- MCHealthy
    UnhealthyThreshold <- MCUnhealthy
    ReapThreshold <- MCReap
    MaxQueue = 1
    MaxScore = 3
INVARIANTS
    HInv
    ReapIsDeserved
    ReturnIsDeserved
PROPERTIES
    HungIsReaped
CHECK_DEADLOCK FALSE

SPECIFICATION Spec
CONSTANTS
    web = web
    h1 = h1
    h2 = h2
    main = main
    Tasks = {web}
    Services = {web}
    Handlers = {h1, h2}
    Main = main
    MaxExec = 2
    Wayward = {1}
    MaxRequests = 2
    MaxBoots = 2
SYMMETRY Users
INVARIANTS
    NoSecondProcess
    NoOrphan
    
CHECK_DEADLOCK FALSE

SPECIFICATION Spec
CONSTANTS
    s1 = s1
    s2 = s2
    a = a
    b = b
    nowhere = nowhere
    Stacks = {s1, s2}
    First = s1
    Ids = {a, b}
    Controls = {"run"}
    Unknown = nowhere
    MaxFetches = 3
    MaxChanges = 2
SYMMETRY Symmetry
INVARIANTS
    TypeOK
    ListHasTasks
    ShownAreOfStack
    LogsFollowPath
    LoadingIsAwaited
    ClickHeals
CHECK_DEADLOCK FALSE

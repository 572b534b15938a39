SPECIFICATION FairSpec
CONSTANTS
    s1 = s1
    s2 = s2
    t1 = t1
    t2 = t2
    t3 = t3
    d1 = d1
    d2 = d2
    Stacks = {s1, s2}
    Tasks = {t1, t2, t3}
    Dirs = {d1, d2}
    StackOf <- MCStackOf
    Clones <- MCClones
    MaxBoots = 2
INVARIANTS
    TwoFailuresAreSeen
    DirsAreCloned
PROPERTIES
    InitEnds
CHECK_DEADLOCK FALSE

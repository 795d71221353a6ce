CONSTANTS
    s1 = s1
    s2 = s2
    NoSession = NoSession
    Sessions <- MCSessions
    BufSize = 2
    Grow = 2
    MaxUnits = 4
SYMMETRY Perms
SPECIFICATION Spec
INVARIANTS BuffersInv ReceivesItsOwn SendsItsOwn
CHECK_DEADLOCK FALSE

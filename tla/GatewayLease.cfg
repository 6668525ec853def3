SPECIFICATION RelaySpec
CONSTANTS
    c1 = c1
    c2 = c2
    c3 = c3
    s1 = s1
    s2 = s2
    s3 = s3
    k1 = k1
    t1 = t1
    t2 = t2
    None = None
    Conns = {c1, c2, c3}
    Sessions = {s1, s2}
    Keys = {k1}
    Targets = {t1}
    FrameSizes = {1, 3}
    PendingMax = 2
    MaxInits = 1
    Explored = {"targets", "output"}
    MaxOutput = 4
SYMMETRY ConnAndSessionSymmetry
INVARIANTS
    BufferIsRecentOutput
PROPERTIES
    ImplementsLease
    DeliveredInOrder
CHECK_DEADLOCK FALSE

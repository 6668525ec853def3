SPECIFICATION RelaySpec
CONSTANTS
    c1 = c1
    c2 = c2
    c3 = c3
    s1 = s1
    s2 = s2
    s3 = s3
    k1 = k1
    t1 = t1
    t2 = t2
    None = None
    Conns = {c1, c2, c3}
    Sessions = {s1, s2, s3}
    Keys = {k1}
    Targets = {t1, t2}
    FrameSizes = {1}
    PendingMax = 0
    MaxInits = 2
    Explored = {"targets", "twice"}
    MaxOutput = 0
SYMMETRY ConnAndSessionSymmetry
INVARIANTS
    HoldersCoherent
    NoneLeaks
CHECK_DEADLOCK FALSE

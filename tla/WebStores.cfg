SPECIFICATION StoresSpec
CONSTANTS
    None = None
    r1 = r1
    r2 = r2
    s1 = s1
    s2 = s2
    k1 = k1
    k2 = k2
    k3 = k3
    l1 = l1
    l2 = l2
    l3 = l3
    General = General
    Work = Work
    Old = Old
    t1 = t1
    t2 = t2
    Hosts = {"server", "jump"}
    Keys = {"old", "new"}
    Routes <- TwoRoutes
    MaxChanges = 2
INVARIANTS
    ShownIsStored
    PluginsAsRecorded
PROPERTIES
    StoredStays
    InputIsStored
CHECK_DEADLOCK FALSE

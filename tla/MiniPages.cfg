SPECIFICATION PagesSpec
CONSTANTS
    a = a
    b = b
    r1 = r1
    r2 = r2
    r3 = r3
    General = General
    Work = Work
    t1 = t1
    t2 = t2
    s1 = s1
    s2 = s2
    s3 = s3
    h1 = h1
    h2 = h2
    NoHost = NoHost
    None = None
    Ids = {r1, r2}
    Fallback = General
    Categories = {General, Work}
    Texts = {t1, t2}
    PageSize = 1
    Used = {"create", "edit", "quick", "filter", "mark", "sync", "swipe", "delete"}
    SyncWhen = {"away"}
    Phones = {a, b}
    Memo = TRUE
    RowsMaxEdits = 3
    RowsMaxFails = 1
    MaxStarts = 1
    MaxFlight = 2
    MaxSaves = 1
    SwitchMaxEdits = 1
    SwitchMaxFails = 1
INVARIANTS
    InputIsStored
PROPERTIES
    PagesAreCurrent
    PickerIsOfItsServer
    RowsMoveForward
CHECK_DEADLOCK FALSE

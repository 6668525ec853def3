SPECIFICATION SshSpec
CONSTANTS
    c1 = c1
    c2 = c2
    s1 = s1
    s2 = s2
    k1 = k1
    t1 = t1
    t2 = t2
    t3 = t3
    Transcripts <- MCTranscripts
    Txns = {t1, t2, t3}
    TtlMs = 1
    CacheLimit = 2
    MaxClock = 3
    MaxFrames = 5
    MaxConns = 2
    None = None
    Conns = {c1, c2}
    Sessions = {s1, s2}
    Keys = {k1}
    Targets = {t1}
    FrameSizes = {1}
    PendingMax = 1
    MaxInits = 1
    MaxOutput = 1
    EnvDir = FALSE
    Ttls = {0}
    MinTtl = 1
    MaxTtl = 2
    DefaultTtl = 1
    MaxArms = 2
    MaxTime = 1
SYMMETRY Symmetry
INVARIANTS
    LoginIsSafe
    ShellOutputIsShown
    AssistedOnce
PROPERTIES
    ImplementsLife
    RecordingsAreApart
CHECK_DEADLOCK FALSE

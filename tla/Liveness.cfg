SPECIFICATION EndsSpec
CONSTANTS
    None = None
    c1 = c1
    c2 = c2
    s1 = s1
    s2 = s2
    k1 = k1
    k2 = k2
    t1 = t1
    j1 = j1
    j2 = j2
    h1 = h1
    NoHost = NoHost
PROPERTIES
    SessionsSettle
    WaitingEnds
    SpeechEnds
CHECK_DEADLOCK FALSE

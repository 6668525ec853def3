SPECIFICATION SpeechSpec
CONSTANTS
    k1 = k1
    k2 = k2
    k3 = k3
    c1 = c1
    p1 = p1
    p2 = p2
    j1 = j1
    j2 = j2
    None = None
    Keys = {k1, k2, k3}
    Callers = {c1}
    Slots = 1
    MaxRestart = 1
    Calls = {}
    Habits = {{}}
    Playbacks = {j1, j2}
    Insts = {1, 2}
    LastSeg = 2
    Slow = FALSE
INVARIANTS
    SynthesisIsCounted
    HeardIsMeant
PROPERTIES
    AudioIsKeptWhole
CHECK_DEADLOCK FALSE

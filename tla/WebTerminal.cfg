SPECIFICATION TerminalSpec
CONSTANTS
    Servers = {1, 2}
    MaxConnects = 2
    ReconnectLimit = 1
    None = None
    Terminal = Terminal
    MaxLines = 4
    MaxSpeed = 3
    Parts = {"session", "codex", "buffers", "output", "scroll", "touches", "taps", "words", "pauses", "mixed", "viewport", "turned", "float"}
INVARIANTS
    ConnectionIsBounded
    StoreKnowsConnection
    HandWins
PROPERTIES
    LocalEndStopsRetries
    OutputReachesScreen
    TypingArrives
    LayoutFollowsKeyboard
CHECK_DEADLOCK FALSE

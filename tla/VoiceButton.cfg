SPECIFICATION TerminalSpec
CONSTANTS
    Servers = {1, 2}
    MaxConnects = 2
    ReconnectLimit = 1
    None = None
    Terminal = Terminal
    MaxLines = 4
    MaxSpeed = 3
    Parts = {"float"}
INVARIANTS
    ButtonIsNotPushed
CHECK_DEADLOCK FALSE

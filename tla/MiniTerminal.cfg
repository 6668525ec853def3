SPECIFICATION PageSpec
CONSTANTS
    MaxClients = 3
    Retries = 1
    Limit = 2
    Prompt = TRUE
INVARIANTS
    PageIsConnected
    PageIsLaidOut
PROPERTIES
    OutputIsDrawn
    RestIsKept
CHECK_DEADLOCK FALSE

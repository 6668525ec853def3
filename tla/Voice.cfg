SPECIFICATION InputSpec
CONSTANTS
    None = None
    MaxFrames = 5
    MaxAnswers = 2
    MaxRounds = 2
    Calls = {1, 2}
    Habits = {{}, {"overlays", "restarts", "defers", "hides", "breaks"}}
    Playbacks = {}
    Insts = {}
    LastSeg = 1
    Slow = FALSE
    Width = 375
    WindowHeight = 667
    InsetLeft = 16
    InsetBottom = 52
    FallbackHeight = 220
    PanelHeights = {220, 260}
    FallbackOffset = 117
    MaxOffsets = {100}
    Ways <- Drags
    Toggles = FALSE
    MaxRows = 5
    Visible = 2
    Budget = 4
    Plain = 4
    Edge = 1
    Margin = 0
    Heights = {1}
    MaxChains = 1
    MaxEvents = 1
    Places = {0}
    MaxSlices = 1
    MaxAsks = 1
    Torn = FALSE
INVARIANTS
    ServiceSeesOneRound
    DictationIsHeld
    DraftIsEntered
PROPERTIES
    RoundsStayApart
    ButtonStaysInReach
CHECK_DEADLOCK FALSE

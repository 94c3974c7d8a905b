SPECIFICATION FairSpec
CONSTANTS
    GRID_N = 2
    WORLD = 4
    COARSE_SPAN = 2
    QUEUE_LEN = 8
    Origins <- OneOrigin
    Shifts <- EastShift
    Ops = {"recentre", "screen"}
    Results = {"READY"}
    FillPending = FALSE
    MAX_GENERATION = 2
    MAX_WAKES = 2
    MAX_PLACES = 0
    NoTile = NoTile
PROPERTIES
    WakeSharpens
CHECK_DEADLOCK FALSE

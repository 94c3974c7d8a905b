SPECIFICATION FairSpec
CONSTANTS
    GRID_N = 2
    WORLD = 4
    COARSE_SPAN = 2
    QUEUE_LEN = 10
    Origins <- TwoOrigins
    Shifts <- EastShift
    Ops = {"recentre", "palette", "fill", "labels"}
    Results = {"READY"}
    FillPending = TRUE
    MAX_GENERATION = 3
    MAX_WAKES = 0
    MAX_PLACES = 0
    NoTile = NoTile
INVARIANTS
    PendingHasJob
    LabelsNotShared
PROPERTIES
    Sharpens
CHECK_DEADLOCK FALSE

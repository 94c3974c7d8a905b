SPECIFICATION Spec
CONSTANTS
    GRID_N = 2
    WORLD = 4
    COARSE_SPAN = 2
    QUEUE_LEN = 6
    Origins <- TwoOrigins
    Shifts <- ThreeShifts
    Ops = {"recentre", "shift", "palette", "fill"}
    Results = {"READY", "NODATA"}
    FillPending = FALSE
    MAX_GENERATION = 3
    MAX_WAKES = 0
    MAX_PLACES = 0
    NoTile = NoTile
INVARIANTS
    TypeOK
    BufferOwnership
    ReadyFaithful
    IdsFollowOrigin
PROPERTIES
    ReadyKept
    NamesPartOnlyByDrift
CHECK_DEADLOCK FALSE

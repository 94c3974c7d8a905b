SPECIFICATION Spec
CONSTANTS
    GRID_N = 2
    WORLD = 4
    COARSE_SPAN = 2
    QUEUE_LEN = 5
    Origins <- OneOrigin
    Shifts <- EastShift
    Ops = {"recentre", "shift", "screen", "places"}
    Results = {"READY"}
    FillPending = FALSE
    MAX_GENERATION = 3
    MAX_WAKES = 1
    MAX_PLACES = 1
    NoTile = NoTile
PROPERTIES
    PixelsHandedOver
    NamesHandedOver
CHECK_DEADLOCK FALSE

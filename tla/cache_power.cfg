SPECIFICATION Spec
CONSTANTS
    Tiles = {"sea", "park", "town"}
    PayloadSize <- Sizes
    MAX_ENTRIES = 2
    FlushInterval <- Intervals
    WIPE_BYTES = 2
    WIPE_ENTRIES = 2
    BUILDS = 2
    MAX_CELLS = 6
    MAX_PENDING = 2
    Mishaps = {"torn"}
INVARIANTS
    TypeOK
    GetFaithful
    ZeroPendingIsSafeIfSound
PROPERTIES
    SurvivorsKept
CHECK_DEADLOCK FALSE

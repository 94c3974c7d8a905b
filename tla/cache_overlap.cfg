SPECIFICATION Spec
CONSTANTS
    Tiles = {"sea", "park", "town"}
    PayloadSize <- Sizes
    MAX_ENTRIES = 2
    FlushInterval <- Intervals
    WIPE_BYTES = 4
    WIPE_ENTRIES = 2
    BUILDS = 2
    MAX_CELLS = 5
    MAX_PENDING = 2
    Mishaps = {"overlap"}
INVARIANTS
    IndexHeldWhileWritten
CHECK_DEADLOCK FALSE

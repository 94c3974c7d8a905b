SPECIFICATION DeviceSpec
CONSTANTS
    USB_EVENTS = 2
    LAST_WAIT = 1
    MISSES = 3
    REINIT = 2
    BATT_STALE_MS = 6
    MAX_FAULTS = 4
    TILES = 3
    Covered = {3}
    MAX_DAY = 3
    HOSTED = 2
    MAX_PROBE_DAYS = 2
    REFRESH_DAYS = 2
    ARCHIVES = 3
    LTILES = 3
    Deep = {1}
    Roomy = {2}
    Cut = {3}
    SLOTS = 2
    MAX_Z = 2
    WIDTH = 8
    MAX_ENTRIES = 3
    GAPS = {0, 4}
    RUNS = {0, 1, 4}
INVARIANTS
    DeviceTypeOK
    CacheOfBuild
    FloorStored
    LocalFaithful
    FoundIsTheTiles
PROPERTIES
    BootsInTheEnd
    WedgeClears
CHECK_DEADLOCK FALSE

SPECIFICATION AppSpec
CONSTANTS
    Spans = {0, 1}
    Estimates = {1}
    WP_MAX = 2
    PANEL_ROWS = 1
    HEARTBEAT = 1
    CONFIRM = 1
    Grounds = {1, 2}
    SETTLE = 2
    UNTOUCHED = 2
    STIRRED = 1
    ANCHORED = 1
    DWELL = 2
    MAX_VERSION = 3
    Addresses = {a1, a2, a3}
    Spots = {1, 2, 3}
    WIFILOC_MAX = 2
    WIFILOC_MIN_OBS = 2
    WIFILOC_MIN_APS = 2
    WIFILOC_MOBILE_M = 1
    MAGLOG_BUF = 2
    MAGLOG_FLUSH_MS = 3
    MAGLOG_MAX_BYTES = 4
    HELD_TIME = 10
    PORTAL_TICKS = 2
    TURNS = 2
    POINTS = 3
    UNEVEN = 2
    MAX_SWEEPS = 3
INVARIANTS
    AppTypeOK
    TargetFollowsPin
    ScreenTrue
    ThemeTrue
    NoHalfLoaded
    KeptUnlessExposed
    OnlyFixedLocate
    LoggedSoon
    StoredJoins
    RejectedForgotten
PROPERTY
    RateHeld
CHECK_DEADLOCK FALSE

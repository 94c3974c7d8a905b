SPECIFICATION PositionSpec
CONSTANTS
    FRAME = 10
    CAP = 20
    MAX_ITEMS = 4
    MAX_LOST = 1
    Positions = {0, 1, 9}
    Speeds = {0, 100}
    Heights = {0, 1}
    SingleFixChecks = {"clock"}
    UNIT_KMH = 200
    FIX_TICKS = 2
    HOLD = 2
    TRUST_MAX_KMH = 400
    TRUST_SPEED_MIN_KMH = 15
    TRUST_ALT_FREEZE_N = 1
    PassTicks = {1, 2}
    Places = {0, 1, 4}
    LEARN = 1
    LEARN_DISTANCE = 1
    LEARN_SPEED = 1
    LEARN_SLACK = 1
    LOST = 1
    RETRY = 2
    SCAN_TIMEOUT = 1
    WAKE = 1
    LINGER = 1
    PORTAL_TIME = 3
    CLOCK_MAX = 3
    TILE = 24
    SCREEN_W = 24
    SCREEN_H = 12
    OVER = 1
    FixesX = {72, 77, 85, 132}
    FixesY = {72, 82}
    PAN_LIMIT = 18
INVARIANTS
    PositionTypeOK
    CaptureHeld
    CaptureWalks
    SuspicionShown
    LearnedNearby
    MarkerInBand
PROPERTIES
    ScansAgain
CHECK_DEADLOCK FALSE

SPECIFICATION TrustSpec
CONSTANTS
    Positions = {0, 1, 9}
    Speeds = {0, 100}
    Heights = {0, 1}
    SingleFixChecks = {"clock"}
    UNIT_KMH = 200
    FIX_TICKS = 2
    HOLD = 2
    TRUST_MAX_KMH = 400
    TRUST_SPEED_MIN_KMH = 15
    TRUST_ALT_FREEZE_N = 1
    PassTicks = {1, 2}
INVARIANTS
    JumpNoticed
CHECK_DEADLOCK FALSE

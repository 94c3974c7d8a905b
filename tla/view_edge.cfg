SPECIFICATION ViewSpec
CONSTANTS
    TILE = 24
    SCREEN_W = 24
    SCREEN_H = 12
    OVER = 1
    FixesX = {72, 77, 85, 132}
    FixesY = {72, 82}
    PAN_LIMIT = 18
INVARIANT
    ViewOnCanvas

SPECIFICATION ViewSpec
CONSTANTS
    TILE = 24
    SCREEN_W = 24
    SCREEN_H = 12
    OVER = 1
    FixesX = {72, 77}
    FixesY = {72}
    PAN_LIMIT = 18
PROPERTY
    PanMoves

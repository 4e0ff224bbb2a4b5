CONSTANTS
    Tilts <- MCTilts
    MaxMoves = 1
    MaxFaults = 1
SPECIFICATION Spec
PROPERTIES StopHeeded
CHECK_DEADLOCK FALSE

CONSTANTS
    Tilts <- MCTilts
    MaxMoves = 2
    MaxFaults = 1
SPECIFICATION Spec
INVARIANTS TypeOK NoResidue InStep Believed
PROPERTIES Settled
CHECK_DEADLOCK FALSE

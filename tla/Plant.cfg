CONSTANTS
    WordMod = 6
    ByteMod = 4
    ModeUnit = 2
    Levels = 1
    Period = 3
    Tick = 2
    Spread = 1
    MaxBags = 1
    MaxKeys = 2
    Entries <- MCEntries
    Coils <- MCCoils
    Settings <- MCSettings
    Registers <- MCRegisters
    Saved <- MCSaved
SPECIFICATION Spec
INVARIANT TypeOK
INVARIANT StopsAtTop
 
INVARIANT TogglesTruth
INVARIANT OwnWritesSeen
PROPERTY SwitchedOff
CHECK_DEADLOCK FALSE

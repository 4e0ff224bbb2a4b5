CONSTANTS
    Signals = {s1, s2}
    CounterMax = 3
    WordMod = 2
SPECIFICATION Spec
INVARIANTS TypeOK Hysteresis
PROPERTIES ImplementsClean

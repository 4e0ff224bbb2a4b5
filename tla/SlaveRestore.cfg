CONSTANTS
    Bits = 8
    AdcQueueSize = 8
    CounterQueueSize = 8
    PduQueueSize = 50
    SavePeriods = 7
    Apart = 6
    WordMod = 65536
    AddressMod = 65536
    RegistryMod = 256
    SaveAddress = 256
    LoadAddress = 257
    RunAddress = 258
    MaxCoils = 1968
    MaxReadRegisters = 125
    MaxWriteRegisters = 123
    TimerPin <- RealTimerPin
    UserSize = 14
    Requests = {}
    MaxRequests = 0
    Saved <- NinthCounter
SPECIFICATION Spec
INVARIANT CountersRestored

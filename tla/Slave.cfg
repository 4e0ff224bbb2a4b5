CONSTANTS
    Bits = 2
    AdcQueueSize = 2
    CounterQueueSize = 2
    PduQueueSize = 14
    SavePeriods = 3
    Apart = 2
    WordMod = 2
    AddressMod = 256
    RegistryMod = 64
    SaveAddress = 64
    LoadAddress = 65
    RunAddress = 66
    MaxCoils = 90
    MaxReadRegisters = 8
    MaxWriteRegisters = 8
    TimerPin <- MCTimerPin
    UserSize = 1
    Requests <- MCRequests
    MaxRequests = 2
    Saved <- MCSaved
SPECIFICATION Spec
INVARIANT SlaveTypeOK
INVARIANT NothingWaits
INVARIANT CountsChannels
INVARIANT MirrorsFollow
INVARIANT PinsRestored
PROPERTY Answered
PROPERTY ChannelsRead

CONSTANTS
    MaxAlarms = 2
    Period = 2
    Delays = {2, 3}
    MaxTime = 6
    MaxId = 3
    Uses <- MCUses
    Compare = 1
SPECIFICATION TicksSpec
INVARIANT TypeOK
INVARIANT NoAlarmLost
INVARIANT HandlerReady
PROPERTY FiresOnTime
PROPERTY AlarmsFire
CHECK_DEADLOCK FALSE

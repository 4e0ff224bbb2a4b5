CONSTANTS
    addr = addr
    other = other
    none = none
    Char <- MCChar
    Address <- MCAddress
    Reply <- MCReply
    NoChar = none
    QueueSize = 3
    BufferSize = 4
    TxSize = 2
    MaxAlarms = 3
    InterFrame = 3
    Turnaround = 2
    MaxLate = 1
SPECIFICATION Spec
INVARIANT CancelledInTime
CHECK_DEADLOCK FALSE

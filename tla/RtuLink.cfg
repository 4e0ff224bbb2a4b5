CONSTANTS
    crackle = crackle
    none = none
    Char <- MCChar
    Address <- MCAddress
    Reply <- MCReply
    NoChar = none
    QueueSize = 4
    BufferSize = 4
    TxSize = 1
    MaxAlarms = 4
    InterFrame = 3
    Turnaround = 2
    MaxLate = 1
    Lengths = {1, 3}
    Sent <- MCSent
    Noise <- MCNoise
    MaxNoise = 2
    MaxGap = 1
    Quiet = 20
    Between = 6
SPECIFICATION LinkSpec
INVARIANT LinkTypeOK
INVARIANT FramesIntact
INVARIANT SpeaksWhenAsked
INVARIANT OneTimer
PROPERTY Answered

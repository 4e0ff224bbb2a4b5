CONSTANTS
    BufferSize = 2
    RxDepth = 2
    Size = 8
    LAST = 3
    Lines <- MCLines
    MaxLines = 2
SPECIFICATION Spec
INVARIANT TypeOK
INVARIANT HandlersReady
INVARIANT NothingUnsent
INVARIANT LineByLine
INVARIANT NothingStale
PROPERTY Answered
CHECK_DEADLOCK FALSE

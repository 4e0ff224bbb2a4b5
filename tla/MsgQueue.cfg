CONSTANTS
    char1 = char1
    char2 = char2
    timeout = timeout
    Msg <- MCMsg
    Tag <- MCTag
    TagOf <- MCTagOf
    Size = 2
    Usages <- MCUsages
SPECIFICATION DisciplinedSpec
INVARIANT TypeOK
INVARIANT HandlerSeesTruth
PROPERTY ImplementsFifo

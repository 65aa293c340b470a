SPECIFICATION MCSpec
CONSTANTS
    N = 3
    SemValue = 1
    Lag = 3
    IntHalf = 4
    MaxLen = 4
    EntropyMax = 3
    ClockHalf = 131072
    Instants <- MCInstants
    Second = 3
    TimeoutHalf = 8
    Arguments = {0, 1, 4, 15, 18}
    MaxNow = 8
INVARIANTS
    TypeOK
    Conservation
    NoLostWakeup
    PrintedInOrder
    CleanExit
    AllFinished
    SearchIsRight
    KeysAccounted
    ClockReads
    ReportsAddUp
PROPERTIES
    ProgramsEnd

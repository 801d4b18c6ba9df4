CONSTANTS
    Ticks <- MCTicks
    Window = 2
    Limit = 2
    History = 1
    Day = 1
    LastTime = 3
    MaxTrades = 5
    MaxRuns = 2
    StopRate = 25
    CheckEvery = 1
    VolumeDrop = 50
    SumError = 50
SPECIFICATION Spec
CHECK_DEADLOCK FALSE
INVARIANTS
    TypeOK
    ReadsAll
    CacheComplete
    ResultsMatch

CONSTANTS
    Channels = {1, 2}
    Numeric = {1}
    Interval = 2
    MaxAge = 3
    Allowance = 2
    InitialDelay = 1
    MaxDelay = 3
    FloodWaits = {0, 3}
    MaxFaults = 3
SPECIFICATION FairSpec
CHECK_DEADLOCK FALSE
INVARIANTS
    TypeOK
    TroubleIsNoticed
    NoFalseAlarm
    ClosedAtEnd
PROPERTIES
    RefinesPromise
    Recovers

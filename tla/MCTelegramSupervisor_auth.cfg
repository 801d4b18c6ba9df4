CONSTANTS
    Channels = {1, 2}
    Numeric = {1, 2}
    Interval = 2
    MaxAge = 3
    Allowance = 2
    InitialDelay = 1
    MaxDelay = 3
    FloodWaits = {0, 3}
    MaxFaults = 1
SPECIFICATION Spec
CHECK_DEADLOCK FALSE
INVARIANT
    ReadyAuthenticated

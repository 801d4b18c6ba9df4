CONSTANTS
    Channels = {upbit, bithumb}
    Orders = {o1, o2, o3}
    Backlog = 1
SPECIFICATION FairSpec
CHECK_DEADLOCK FALSE
INVARIANTS
    TypeOK
    OnlyAbandonedOutlive
    CleanupComplete
PROPERTIES
    OrdersFindControllerOpen
    SilentOnlyWhenClean
    RunEnds

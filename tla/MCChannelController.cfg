CONSTANTS
    Messages = {m1, m2, m3}
    Sentinel = Sentinel
    Capacity = 2
SPECIFICATION FairSpec
CHECK_DEADLOCK FALSE
INVARIANTS
    TypeOK
    HandledInOrder
    StopDrains
    NobodyLate
PROPERTIES
    RefinesPromise
    StopReturns
    QueuedIsHandled

CONSTANTS
    Channels = {upbit, bithumb}
    Orders = {o1, o2}
    Backlog = 1
SPECIFICATION Spec
SYMMETRY Symmetry
CHECK_DEADLOCK FALSE
INVARIANT
    ClosedWhenDrained

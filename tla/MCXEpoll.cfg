CONSTANTS
    c1 = c1 c2 = c2
    Conns = {c1, c2}
    Listen = Listen
    max_event_number = 2
    max_buffer_size = 1
    Backlog = 2
    FdLimits = {1, 2}
    MaxUnits = 2
SPECIFICATION Spec
INVARIANTS XEpollInv OnlyErrorsEnd OrderlyCloseComplete
PROPERTIES DataRead ConnectionsAccepted
CHECK_DEADLOCK FALSE

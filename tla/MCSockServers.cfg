CONSTANTS
    c1 = c1 c2 = c2 c3 = c3
    Clients = {c1, c2, c3}
    ProcessClients = {c1, c2}
    PartialClients = {c1}
    listenFd = 1
    ListenBacklog = 2
    FdLimits = {4, 6}
    FD_SETSIZE = 4
    OPEN_MAX = 3
    MsgLen = 2
SPECIFICATION Spec
INVARIANTS ServersInv EndsForCause ReplyDelivered
PROPERTIES ReadyNoticed ReadNReturns ZombiesReaped
CHECK_DEADLOCK FALSE

CONSTANTS
    c1 = c1 c2 = c2 SIGHUP = SIGHUP
    Conns = {c1, c2}
    Listen = Listen
    Pipe = Pipe
    NoSession = NoSession
    SIGINT = SIGINT
    SIGALRM = SIGALRM
    PlainSignals = {SIGHUP}
    MaxEvents = 2
    BufSize = 2
    SigBuf = 2
    PipeCap = 2
    Backlog = 2
    MaxFds = 2
    MaxUnits = 3
    MaxSignals = 2
SPECIFICATION BoundedSpec
INVARIANTS LoopInv NoDanglingEvent OneShotAccounted NoLostWakeup StreamIntact OrderlyClientsHarmless
SYMMETRY Perms
CHECK_DEADLOCK FALSE

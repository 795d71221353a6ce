CONSTANTS
    c1 = c1 c2 = c2 SIGHUP = SIGHUP
    Conns = {c1, c2}
    Listen = Listen
    Pipe = Pipe
    NoSession = NoSession
    SIGINT = SIGINT
    SIGALRM = SIGALRM
    PlainSignals = {SIGHUP}
    MaxEvents = 1
    BufSize = 1
    SigBuf = 2
    PipeCap = 2
    Backlog = 2
    MaxFds = 1
    MaxUnits = 2
    MaxSignals = 2
SPECIFICATION BoundedSpec
PROPERTIES DataReceived SmallDataHandled AcceptedUnlessBurst InterruptStops TimersKeepRunning
CHECK_DEADLOCK FALSE

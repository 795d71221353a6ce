CONSTANTS
    Addrs <- MCAddrs
    Intervals <- MCIntervals
    MaxElapsed = 1
SPECIFICATION Spec
INVARIANTS TickInv TimersAccounted CallsAccounted
PROPERTIES PopTakesCurrentOrFresh EveryTimerFires

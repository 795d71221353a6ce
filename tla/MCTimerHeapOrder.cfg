CONSTANTS
    Addrs <- MCAddrs
    Intervals <- MCIntervals
    MaxElapsed = 0
SPECIFICATION Spec
INVARIANT TopIsSoonest

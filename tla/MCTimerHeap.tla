---------------------------- MODULE MCTimerHeap ----------------------------
(* TimerHeap on small instances: three addresses, intervals of 0 to 2       *)
(* seconds.                                                                 *)
EXTENDS TimerHeap
MCAddrs == 1..3
MCIntervals == 0..2
============================================================================

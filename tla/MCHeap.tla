------------------------------- MODULE MCHeap -------------------------------
(* Heap on small instances: addresses 1 to 4, with repetitions. *)
EXTENDS Heap
MCPtrs == 1..4
============================================================================

------------------------------ MODULE PtrQueue ------------------------------
(***************************************************************************)
(* What heap.h promises of a Heap: a collection of pointers, with          *)
(* repetitions, from which Pop takes one that no other precedes.           *)
(*                                                                         *)
(* The order is the one heap.cpp really uses, that of the addresses; what  *)
(* the timers make of it is the subject of module TimerHeap.               *)
(***************************************************************************)
EXTENDS Integers

CONSTANTS
    Ptrs,       \* the addresses of the data, numbers
    Type        \* m_nType: "SmallHeap" or "BigHeap"

VARIABLES
    queue,      \* how often the heap holds each pointer
    popped      \* what the last Pop returned; -1 is the null pointer

qvars == <<queue, popped>>

\* a may come out before b.
Before(a, b) == IF Type = "SmallHeap" THEN a <= b ELSE a >= b

Held == {p \in Ptrs : queue[p] > 0}

Init == queue = [p \in Ptrs |-> 0] /\ popped = -1

Insert(p) ==
    /\ queue' = [queue EXCEPT ![p] = @ + 1]
    /\ UNCHANGED popped

\* Pop of an empty heap returns the null pointer.
Pop ==
    \/ Held = {} /\ popped' = -1 /\ UNCHANGED queue
    \/ \E p \in Held :
           /\ \A q \in Held : Before(p, q)
           /\ popped' = p
           /\ queue' = [queue EXCEPT ![p] = @ - 1]

Next == Pop \/ \E p \in Ptrs : Insert(p)

Spec == Init /\ [][Next]_qvars
============================================================================

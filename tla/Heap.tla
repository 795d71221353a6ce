-------------------------------- MODULE Heap --------------------------------
(***************************************************************************)
(* The binary heap of heap.cpp, which holds the timers.  Insert and Pop do *)
(* their first assignments in one action, and every iteration of the loops *)
(* of ReBuild4Insert and ReBuild4Delete is an action of its own, so that   *)
(* the loops' invariants can be stated and proved.                         *)
(*                                                                         *)
(* The data are pointers and heap.cpp compares the pointers themselves:    *)
(* m_CompareFunc is stored by the constructor and never called.            *)
(***************************************************************************)
EXTENDS Integers, FiniteSets

CONSTANTS
    Ptrs,       \* the addresses of the data, numbers
    Type,       \* m_nType: "SmallHeap" or "BigHeap"
    MaxSize     \* bound: size of the heap

ASSUME HeapAssumption ==
    Ptrs \subseteq Nat /\ Type \in {"SmallHeap", "BigHeap"} /\ MaxSize \in Nat

VARIABLES
    array,      \* m_Array, its first size elements
    size,       \* m_nArraySize
    capacity,   \* m_nArrayCapacity
    pc,         \* "idle", or the loop that is running
    i,          \* the loops' index
    popped      \* what the last Pop returned; -1 is the null pointer

vars == <<array, size, capacity, pc, i, popped>>

Indices == 0..(size - 1)

TypeOK ==
    /\ size \in Nat /\ capacity \in Nat
    /\ array \in [Indices -> Ptrs]
    /\ pc \in {"idle", "ReBuild4Insert", "ReBuild4Delete"}
    /\ i \in Nat /\ (pc # "idle" => i \in Indices) /\ (pc = "ReBuild4Insert" => i # 0)
    /\ popped \in Ptrs \cup {-1}

Init ==
    /\ array = [k \in {} |-> 0] /\ size = 0 /\ capacity = 2
    /\ pc = "idle" /\ i = 0 /\ popped = -1

\* The comparisons of both loops: a stays above b in a heap of this type.
Before(a, b) == IF Type = "SmallHeap" THEN a <= b ELSE a >= b

Swapped(a, j, k) == [a EXCEPT ![j] = a[k], ![k] = a[j]]

HasLeft(k) == k * 2 + 1 < size
HasRight(k) == k * 2 + 2 < size

-----------------------------------------------------------------------------
\* A definition with a suffix after an operation's name is that operation with
\* one plausible mistake; no action uses it.
Grown_never(cap) == cap
Grown(cap) == IF cap = size THEN cap * 2 ELSE cap

Insert(p) ==
    /\ pc = "idle" /\ size < MaxSize
    /\ capacity' = Grown(capacity)
    /\ array' = [k \in 0..size |-> IF k = size THEN p ELSE array[k]]
    /\ size' = size + 1
    /\ i' = size
    /\ pc' = IF size = 0 THEN "idle" ELSE "ReBuild4Insert"
    /\ UNCHANGED popped

\* One iteration of ReBuild4Insert: move the new element above its parent.
Parent_halved(k) == k \div 2
Parent(k) == (k - 1) \div 2

ReBuild4Insert ==
    /\ pc = "ReBuild4Insert"
    /\ IF Before(array[Parent(i)], array[i])
       THEN pc' = "idle" /\ UNCHANGED <<array, i>>
       ELSE /\ array' = Swapped(array, i, Parent(i))
            /\ i' = Parent(i)
            /\ pc' = IF Parent(i) = 0 THEN "idle" ELSE pc
    /\ UNCHANGED <<size, capacity, popped>>

\* Pop returns the root; the last element takes its place.
Pop ==
    /\ pc = "idle"
    /\ IF size = 0
       THEN popped' = -1 /\ UNCHANGED <<array, size, pc, i>>
       ELSE /\ popped' = array[0]
            /\ size' = size - 1
            /\ array' = [k \in 0..(size - 2) |-> IF k = 0 THEN array[size - 1] ELSE array[k]]
            /\ i' = 0
            /\ pc' = IF size = 1 THEN "idle" ELSE "ReBuild4Delete"
    /\ UNCHANGED capacity

\* The child of k that must come above the other.
Child_always_left(k) == 2 * k + 1
Child(k) ==
    IF HasRight(k) /\ ~Before(array[2 * k + 1], array[2 * k + 2])
    THEN 2 * k + 2 ELSE 2 * k + 1

\* One iteration of ReBuild4Delete: move the element below its first child.
ReBuild4Delete ==
    /\ pc = "ReBuild4Delete"
    /\ IF HasLeft(i) /\ ~Before(array[i], array[Child(i)])
       THEN array' = Swapped(array, i, Child(i)) /\ i' = Child(i) /\ UNCHANGED pc
       ELSE pc' = "idle" /\ UNCHANGED <<array, i>>
    /\ UNCHANGED <<size, capacity, popped>>

Next == ReBuild4Insert \/ ReBuild4Delete \/ Pop \/ \E p \in Ptrs : Insert(p)

Spec == Init /\ [][Next]_vars

-----------------------------------------------------------------------------
\* c is a child of p.
ChildOf(c, p) == c = 2 * p + 1 \/ c = 2 * p + 2

\* The heap order, which the loops break at one index: ReBuild4Insert between i
\* and its parent, ReBuild4Delete between i and its children.  Around that index
\* the parent still precedes the children.
HeapOrder ==
    \A p, c \in Indices : ChildOf(c, p) =>
        \/ Before(array[p], array[c])
        \/ pc = "ReBuild4Insert" /\ c = i
        \/ pc = "ReBuild4Delete" /\ p = i

AroundHole ==
    pc # "idle" => \A p, c \in Indices :
        ChildOf(i, p) /\ ChildOf(c, i) => Before(array[p], array[c])

HeapInv == TypeOK /\ HeapOrder /\ AroundHole

\* Between operations Top is an element that no other precedes.
TopIsFirst == pc = "idle" => \A k \in Indices : Before(array[0], array[k])

\* Insert never writes behind the end of m_Array.
WithinCapacity == size <= capacity

\* The heap as a collection: what PtrQueue promises.
Count(p) == Cardinality({k \in Indices : array[k] = p})
Queue == INSTANCE PtrQueue WITH queue <- [p \in Ptrs |-> Count(p)]
QueueSpec == Queue!Spec
============================================================================

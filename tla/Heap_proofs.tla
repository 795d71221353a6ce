---------------------------- MODULE Heap_proofs ----------------------------
(***************************************************************************)
(* Theorems about module Heap, for every set of addresses, both heap types *)
(* and every size.                                                         *)
(***************************************************************************)
EXTENDS Heap, FiniteSetTheorems, NaturalsInduction, WellFoundedInduction, TLAPS

\* Before is a total preorder on addresses, for both types of heap.
LEMMA BeforeOrder ==
    /\ \A a \in Ptrs : Before(a, a)
    /\ \A a, b \in Ptrs : Before(a, b) \/ Before(b, a)
    /\ \A a, b, c \in Ptrs : Before(a, b) /\ Before(b, c) => Before(a, c)
BY HeapAssumption DEF Before

\* Parent and children are each other's inverses.
LEMMA ParentFacts ==
    ASSUME NEW k \in Nat, k # 0
    PROVE  /\ Parent(k) \in Nat /\ Parent(k) < k /\ ChildOf(k, Parent(k))
           /\ \A p \in Nat : ChildOf(k, p) => p = Parent(k)
BY DEF Parent, ChildOf

\* An index has one parent, and comes after it.
LEMMA OneParent ==
    ASSUME NEW p \in Nat, NEW q \in Nat, NEW c \in Nat, ChildOf(c, p)
    PROVE  p < c /\ (ChildOf(c, q) => q = p)
BY DEF ChildOf

\* Init establishes the heap invariant.
LEMMA HeapInitInv == Init => HeapInv
BY HeapAssumption DEF Init, HeapInv, TypeOK, HeapOrder, AroundHole, Indices

\* Appending the new element breaks the order only between it and its parent.
LEMMA InsertInv ==
    ASSUME HeapInv, NEW d \in Ptrs, Insert(d)
    PROVE  HeapInv'
<1> USE DEF HeapInv, Insert, Indices
<1>1. /\ size \in Nat /\ array \in [0..(size - 1) -> Ptrs] /\ pc = "idle"
      /\ size' = size + 1 /\ i' = size
      /\ array' = [k \in 0..size |-> IF k = size THEN d ELSE array[k]]
    BY DEF TypeOK
<1>2. array' \in [0..(size' - 1) -> Ptrs]
    BY <1>1
<1>3. TypeOK'
    BY <1>1, <1>2 DEF TypeOK, Grown
<1>4. /\ \A k \in 0..(size - 1) : array'[k] = array[k]
      /\ array'[size] = d
    BY <1>1
<1>5. \A p, c \in 0..size : ChildOf(c, p) => p < size
    BY <1>1 DEF ChildOf
<1>6. \A p \in 0..size : ~ChildOf(0, p)
    BY <1>1 DEF ChildOf
<1>7. HeapOrder'
    BY <1>1, <1>4, <1>5, <1>6 DEF HeapOrder
<1>8. AroundHole'
    BY <1>1, <1>4, <1>5, <1>6 DEF AroundHole, ChildOf
<1>. QED  BY <1>3, <1>7, <1>8

\* The swap of two elements of the array.
LEMMA SwapFacts ==
    ASSUME TypeOK, NEW j \in Indices, NEW k \in Indices, j # k
    PROVE  /\ Swapped(array, j, k) \in [Indices -> Ptrs]
           /\ Swapped(array, j, k)[j] = array[k] /\ Swapped(array, j, k)[k] = array[j]
           /\ \A x \in Indices \ {j, k} : Swapped(array, j, k)[x] = array[x]
BY DEF TypeOK, Swapped

\* An iteration of ReBuild4Insert moves the hole to the parent, or closes it.
LEMMA ReBuild4InsertInv ==
    ASSUME HeapInv, ReBuild4Insert
    PROVE  HeapInv'
<1> DEFINE h == Parent(i)
<1>1. /\ pc = "ReBuild4Insert" /\ i \in Indices /\ i \in Nat /\ i # 0 /\ size \in Nat
      /\ array \in [Indices -> Ptrs] /\ popped \in Ptrs \cup {-1} /\ capacity \in Nat
    BY DEF HeapInv, ReBuild4Insert, TypeOK
<1>2. h \in Nat /\ h < i /\ ChildOf(i, h) /\ \A p \in Nat : ChildOf(i, p) => p = h
    BY <1>1, ParentFacts
<1>3. h \in Indices /\ Indices \subseteq Nat
    BY <1>1, <1>2 DEF Indices
<1> HIDE DEF h
<1>4. \A p, c \in Indices : ChildOf(c, p) /\ c # i => Before(array[p], array[c])
    BY <1>1 DEF HeapInv, HeapOrder
<1>5. \A c \in Indices : ChildOf(c, i) => Before(array[h], array[c])
    BY <1>1, <1>2, <1>3 DEF HeapInv, AroundHole
<1>6. UNCHANGED <<size, capacity, popped>> /\ Indices' = Indices
    BY DEF ReBuild4Insert, Indices
<1>7. CASE Before(array[h], array[i])
    <2>1. pc' = "idle" /\ UNCHANGED <<array, i>>
        BY <1>7 DEF ReBuild4Insert, h
    <2>2. TypeOK'
        BY <1>1, <1>6, <2>1 DEF TypeOK
    <2>3. HeapOrder'
        BY <1>2, <1>3, <1>4, <1>6, <1>7, <2>1 DEF HeapOrder
    <2>4. AroundHole'
        BY <2>1 DEF AroundHole
    <2>. QED  BY <2>2, <2>3, <2>4 DEF HeapInv
<1>8. CASE ~Before(array[h], array[i])
    <2>1. /\ array' = Swapped(array, i, h) /\ i' = h
          /\ pc' = (IF h = 0 THEN "idle" ELSE "ReBuild4Insert")
        BY <1>1, <1>8 DEF ReBuild4Insert, h
    <2>2. /\ array' \in [Indices -> Ptrs] /\ array'[i] = array[h] /\ array'[h] = array[i]
          /\ \A x \in Indices \ {i, h} : array'[x] = array[x]
        BY <1>1, <1>2, <1>3, <2>1, SwapFacts DEF HeapInv
    <2>3. TypeOK'
        BY <1>1, <1>3, <1>6, <2>1, <2>2 DEF TypeOK
    <2>4. \A k \in Indices : array[k] \in Ptrs
        BY <1>1
    <2>5. Before(array[i], array[h])
        BY <1>1, <1>3, <1>8, <2>4, BeforeOrder
    <2>6. ASSUME NEW p \in Indices, NEW c \in Indices, ChildOf(c, p), c # h
          PROVE  Before(array'[p], array'[c])
        <3>1. CASE c = i
            <4>1. p = h
                BY <1>2, <1>3, <2>6, <3>1
            <4>. QED  BY <2>2, <2>5, <3>1, <4>1
        <3>2. CASE c # i /\ p = h
            <4>1. Before(array[h], array[c])
                BY <1>4, <2>6, <3>2
            <4>. QED  BY <1>1, <1>3, <2>2, <2>4, <2>5, <2>6, <3>2, <4>1, BeforeOrder
        <3>3. CASE c # i /\ p = i
            BY <1>5, <2>2, <2>6, <3>3
        <3>4. CASE c # i /\ p # h /\ p # i
            BY <1>4, <2>2, <2>6, <3>4
        <3>. QED  BY <3>1, <3>2, <3>3, <3>4
    <2>7. \A p \in Indices : ~ChildOf(0, p)
        BY <1>3 DEF ChildOf
    <2>8. HeapOrder'
        BY <1>6, <2>1, <2>6, <2>7 DEF HeapOrder
    <2>9. ASSUME NEW p \in Indices, NEW c \in Indices, ChildOf(h, p), ChildOf(c, h)
          PROVE  Before(array'[p], array'[c])
        <3>1. p < h /\ h < c
            BY <1>2, <1>3, <2>9 DEF ChildOf
        <3>2. Before(array[p], array[h]) /\ array'[p] = array[p]
            BY <1>2, <1>3, <1>4, <2>2, <2>9, <3>1
        <3>3. CASE c = i
            BY <2>2, <3>2, <3>3
        <3>4. CASE c # i
            BY <1>3, <1>4, <2>2, <2>4, <2>9, <3>1, <3>2, <3>4, BeforeOrder
        <3>. QED  BY <3>3, <3>4
    <2>10. AroundHole'
        BY <1>6, <2>1, <2>9 DEF AroundHole
    <2>. QED  BY <2>3, <2>8, <2>10 DEF HeapInv
<1>. QED  BY <1>7, <1>8

\* Pop puts the last element into the root: the order breaks between it and its
\* children.
LEMMA PopInv ==
    ASSUME HeapInv, Pop
    PROVE  HeapInv'
<1>1. /\ size \in Nat /\ array \in [0..(size - 1) -> Ptrs] /\ pc = "idle"
      /\ capacity \in Nat /\ i \in Nat /\ popped \in Ptrs \cup {-1}
      /\ capacity' = capacity
    BY DEF HeapInv, Pop, TypeOK, Indices
<1>2. CASE size = 0
    <2>1. popped' = -1 /\ UNCHANGED <<array, size, capacity, pc, i>>
        BY <1>1, <1>2 DEF Pop
    <2>2. TypeOK'
        BY <1>1, <2>1 DEF TypeOK, Indices
    <2>3. HeapOrder' /\ AroundHole'
        BY <2>1 DEF HeapInv, HeapOrder, AroundHole, Indices
    <2>. QED  BY <2>2, <2>3 DEF HeapInv
<1>3. CASE size # 0
    <2>1. /\ popped' = array[0] /\ size' = size - 1 /\ i' = 0
          /\ array' = [k \in 0..(size - 2) |-> IF k = 0 THEN array[size - 1] ELSE array[k]]
          /\ pc' = (IF size = 1 THEN "idle" ELSE "ReBuild4Delete")
        BY <1>3 DEF Pop
    <2>2. /\ array' \in [0..(size' - 1) -> Ptrs] /\ array[0] \in Ptrs
          /\ \A k \in 1..(size - 2) : array'[k] = array[k]
        BY <1>1, <1>3, <2>1
    <2>3. TypeOK'
        BY <1>1, <1>3, <2>1, <2>2 DEF TypeOK, Indices
    <2>4. \A p, c \in 0..(size - 1) : ChildOf(c, p) => Before(array[p], array[c])
        BY <1>1 DEF HeapInv, HeapOrder, Indices
    <2>5. \A p, c \in 0..(size - 2) : ChildOf(c, p) /\ p # 0 =>
              p \in 1..(size - 2) /\ c \in 1..(size - 2) /\ p \in 0..(size - 1) /\ c \in 0..(size - 1)
        BY <1>1, <1>3 DEF ChildOf
    <2>6. HeapOrder'
        <3>1. CASE size = 1
            BY <2>1, <3>1 DEF HeapOrder, Indices
        <3>2. CASE size # 1
            <4>1. Indices' = 0..(size - 2)
                BY <1>1, <2>1 DEF Indices
            <4>. QED  BY <2>1, <2>2, <2>4, <2>5, <3>2, <4>1 DEF HeapOrder
        <3>. QED  BY <3>1, <3>2
    <2>7. \A p \in Nat : ~ChildOf(0, p)
        BY DEF ChildOf
    <2>8. AroundHole'
        BY <1>1, <2>1, <2>7 DEF AroundHole, Indices
    <2>. QED  BY <2>3, <2>6, <2>8 DEF HeapInv
<1>. QED  BY <1>2, <1>3

\* The child that ReBuild4Delete compares with precedes the other one.
LEMMA ChildFacts ==
    ASSUME TypeOK, NEW k \in Indices, HasLeft(k)
    PROVE  /\ Child(k) \in Indices /\ ChildOf(Child(k), k) /\ k < Child(k)
           /\ \A c \in Indices : ChildOf(c, k) => Before(array[Child(k)], array[c])
<1>1. /\ size \in Nat /\ array \in [Indices -> Ptrs] /\ k \in Nat
      /\ 2 * k + 1 \in Indices /\ (2 * k + 2 \in Indices <=> HasRight(k))
    BY DEF TypeOK, Indices, HasLeft, HasRight
<1>2. Child(k) \in Indices /\ ChildOf(Child(k), k) /\ k < Child(k)
    BY <1>1 DEF Child, ChildOf
<1>3. \A x \in Indices : array[x] \in Ptrs
    BY <1>1
<1>4. CASE ~HasRight(k)
    BY <1>1, <1>3, <1>4, BeforeOrder DEF Child, ChildOf
<1>5. CASE HasRight(k)
    BY <1>1, <1>3, <1>5, BeforeOrder DEF Child, ChildOf
<1>. QED  BY <1>2, <1>4, <1>5

\* An iteration of ReBuild4Delete moves the hole to a child, or closes it.
LEMMA ReBuild4DeleteInv ==
    ASSUME HeapInv, ReBuild4Delete
    PROVE  HeapInv'
<1> DEFINE m == Child(i)
<1>1. /\ pc = "ReBuild4Delete" /\ i \in Indices /\ i \in Nat /\ size \in Nat
      /\ array \in [Indices -> Ptrs] /\ popped \in Ptrs \cup {-1} /\ capacity \in Nat
    BY DEF HeapInv, ReBuild4Delete, TypeOK
<1>2. Indices \subseteq Nat /\ \A k \in Indices : array[k] \in Ptrs
    BY <1>1 DEF Indices
<1>3. UNCHANGED <<size, capacity, popped>> /\ Indices' = Indices
    BY DEF ReBuild4Delete, Indices
<1>4. \A p, c \in Indices : ChildOf(c, p) /\ p # i => Before(array[p], array[c])
    BY <1>1 DEF HeapInv, HeapOrder
<1>5. \A p, c \in Indices : ChildOf(i, p) /\ ChildOf(c, i) => Before(array[p], array[c])
    BY <1>1 DEF HeapInv, AroundHole
<1>6. HasLeft(i) =>
          /\ m \in Indices /\ ChildOf(m, i) /\ i < m
          /\ \A c \in Indices : ChildOf(c, i) => Before(array[m], array[c])
    BY <1>1, ChildFacts DEF HeapInv
<1> HIDE DEF m
<1>7. CASE HasLeft(i) /\ ~Before(array[i], array[m])
    <2>1. array' = Swapped(array, i, m) /\ i' = m /\ pc' = "ReBuild4Delete"
        BY <1>1, <1>7 DEF ReBuild4Delete, m
    <2>2. /\ m \in Indices /\ ChildOf(m, i) /\ i < m
          /\ \A c \in Indices : ChildOf(c, i) => Before(array[m], array[c])
        BY <1>6, <1>7
    <2>3. /\ array' \in [Indices -> Ptrs] /\ array'[i] = array[m] /\ array'[m] = array[i]
          /\ \A x \in Indices \ {i, m} : array'[x] = array[x]
        BY <1>1, <1>2, <2>1, <2>2, SwapFacts DEF HeapInv
    <2>4. TypeOK'
        BY <1>1, <1>2, <1>3, <2>1, <2>2, <2>3 DEF TypeOK
    <2>5. Before(array[m], array[i])
        BY <1>1, <1>2, <1>7, <2>2, BeforeOrder
    <2>6. ASSUME NEW p \in Indices, NEW c \in Indices, ChildOf(c, p), p # m
          PROVE  Before(array'[p], array'[c])
        <3>1. p < c
            BY <1>2, <2>6 DEF ChildOf
        <3>2. CASE p = i /\ c = m
            BY <2>3, <2>5, <3>2
        <3>3. CASE p = i /\ c # m
            BY <1>2, <2>2, <2>3, <2>6, <3>1, <3>3
        <3>4. CASE p # i /\ c = i
            <4>1. Before(array[p], array[m])
                BY <1>5, <2>2, <2>6, <3>4
            <4>. QED  BY <2>3, <2>6, <3>4, <4>1
        <3>5. CASE p # i /\ c = m
            <4>1. p = i
                <5>1. p \in Nat /\ i \in Nat /\ m \in Nat /\ ChildOf(m, p) /\ ChildOf(m, i)
                    BY <1>1, <1>2, <2>2, <2>6, <3>5
                <5>. QED  BY <5>1, OneParent
            <4>. QED  BY <3>5, <4>1
        <3>6. CASE p # i /\ c # i /\ c # m
            BY <1>4, <2>3, <2>6, <3>6
        <3>. QED  BY <3>2, <3>3, <3>4, <3>5, <3>6
    <2>7. HeapOrder'
        BY <1>3, <2>1, <2>6 DEF HeapOrder
    <2>8. ASSUME NEW p \in Indices, NEW c \in Indices, ChildOf(m, p), ChildOf(c, m)
          PROVE  Before(array'[p], array'[c])
        <3>1. p = i /\ m < c
            <4>1. p \in Nat /\ i \in Nat /\ m \in Nat /\ c \in Nat /\ ChildOf(m, i)
                BY <1>1, <1>2, <2>2, <2>8
            <4>. QED  BY <2>8, <4>1, OneParent
        <3>2. Before(array[m], array[c])
            BY <1>4, <2>2, <2>8
        <3>. QED  BY <1>2, <2>2, <2>3, <3>1, <3>2
    <2>9. AroundHole'
        BY <1>3, <2>1, <2>8 DEF AroundHole
    <2>. QED  BY <2>4, <2>7, <2>9 DEF HeapInv
<1>8. CASE ~(HasLeft(i) /\ ~Before(array[i], array[m]))
    <2>1. pc' = "idle" /\ UNCHANGED <<array, i>>
        BY <1>8 DEF ReBuild4Delete, m
    <2>2. TypeOK'
        BY <1>1, <1>3, <2>1 DEF TypeOK
    <2>3. ASSUME NEW c \in Indices, ChildOf(c, i)
          PROVE  Before(array[i], array[c])
        <3>1. HasLeft(i)
            BY <1>1, <2>3 DEF HasLeft, ChildOf, Indices
        <3>2. m \in Indices /\ Before(array[i], array[m]) /\ Before(array[m], array[c])
            BY <1>6, <1>8, <2>3, <3>1
        <3>. QED  BY <1>1, <1>2, <3>2, BeforeOrder
    <2>4. HeapOrder'
        BY <1>3, <1>4, <2>1, <2>3 DEF HeapOrder
    <2>5. AroundHole'
        BY <2>1 DEF AroundHole
    <2>. QED  BY <2>2, <2>4, <2>5 DEF HeapInv
<1>. QED  BY <1>7, <1>8

-----------------------------------------------------------------------------
\* The heap order, with its one hole while a loop runs, is invariant.
THEOREM HeapInvariant == Spec => []HeapInv
<1>1. HeapInv /\ [Next]_vars => HeapInv'
    <2> SUFFICES ASSUME HeapInv, [Next]_vars PROVE HeapInv'
        OBVIOUS
    <2>1. CASE Next
        BY <2>1, InsertInv, PopInv, ReBuild4InsertInv, ReBuild4DeleteInv DEF Next
    <2>2. CASE UNCHANGED vars
        BY <2>2 DEF vars, HeapInv, TypeOK, HeapOrder, AroundHole, Indices
    <2>. QED  BY <2>1, <2>2
<1>. QED  BY <1>1, HeapInitInv, PTL DEF Spec

\* In a heap without a hole nothing precedes the root: the first index whose
\* element does would have a parent that does too.
LEMMA RootIsFirst == HeapInv => TopIsFirst
<1> SUFFICES ASSUME HeapInv, pc = "idle", NEW k \in Indices, ~Before(array[0], array[k])
             PROVE  FALSE
    BY DEF TopIsFirst
<1> DEFINE Bad == {x \in Indices : ~Before(array[0], array[x])}
<1>1. /\ size \in Nat /\ Indices \subseteq Nat /\ 0 \in Indices
      /\ \A x \in Indices : array[x] \in Ptrs
    BY DEF HeapInv, TypeOK, Indices
<1>2. PICK b \in Bad : \A x \in Bad : ~(x < b)
    <2>1. Bad \subseteq Nat /\ Bad # {}
        BY <1>1
    <2>2. PICK b \in Bad : \A x \in Bad : ~(<<x, b>> \in OpToRel(<, Nat))
        BY <2>1, NatLessThanWellFounded, WFMin
    <2>. QED  BY <2>1, <2>2 DEF OpToRel
<1>3. b \in Indices /\ b \in Nat /\ b # 0
    BY <1>1, <1>2, BeforeOrder
<1>4. Parent(b) \in Nat /\ Parent(b) < b /\ ChildOf(b, Parent(b))
    BY <1>3, ParentFacts
<1>5. Parent(b) \in Indices
    BY <1>1, <1>3, <1>4 DEF Indices
<1>6. Before(array[Parent(b)], array[b])
    BY <1>3, <1>4, <1>5 DEF HeapInv, HeapOrder
<1>7. Before(array[0], array[Parent(b)])
    BY <1>1, <1>2, <1>4, <1>5
<1>8. Before(array[0], array[b])
    BY <1>1, <1>3, <1>5, <1>6, <1>7, BeforeOrder
<1>. QED  BY <1>2, <1>8

\* Between operations Heap::Top is an element that no other precedes.
THEOREM TopIsAlwaysFirst == Spec => []TopIsFirst
<1>. QED  BY HeapInvariant, RootIsFirst, PTL

\* Insert grows m_Array before it would write behind its end.
THEOREM AlwaysWithinCapacity == Spec => []WithinCapacity
<1> DEFINE Inv == size \in Nat /\ capacity \in Nat \ {0} /\ WithinCapacity
<1>1. Init => Inv
    BY DEF Init, WithinCapacity
<1>2. Inv /\ [Next]_vars => Inv'
    <2> SUFFICES ASSUME Inv, [Next]_vars PROVE Inv'
        OBVIOUS
    <2>1. CASE \E p \in Ptrs : Insert(p)
        BY <2>1 DEF Insert, Grown, WithinCapacity
    <2>2. CASE Pop
        BY <2>2 DEF Pop, WithinCapacity
    <2>3. CASE ReBuild4Insert \/ ReBuild4Delete \/ UNCHANGED vars
        BY <2>3 DEF ReBuild4Insert, ReBuild4Delete, vars, WithinCapacity
    <2>. QED  BY <2>1, <2>2, <2>3 DEF Next
<1>3. Inv => WithinCapacity
    OBVIOUS
<1>. QED  BY <1>1, <1>2, <1>3, PTL DEF Spec

-----------------------------------------------------------------------------
(* The heap implements PtrQueue: its elements are a bag, which the loops    *)
(* only rearrange.                                                         *)

\* Where the first n elements of a are p.
Places(a, n, p) == {k \in 0..(n - 1) : a[k] = p}

\* There are finitely many such places.
LEMMA PlacesFacts ==
    ASSUME NEW a, NEW n \in Nat, NEW p
    PROVE  /\ IsFiniteSet(Places(a, n, p)) /\ Cardinality(Places(a, n, p)) \in Nat
           /\ Cardinality(Places(a, n, p)) > 0 <=> \E k \in 0..(n - 1) : a[k] = p
<1> DEFINE P == Places(a, n, p)
<1>1. P \subseteq 0..(n - 1)
    BY DEF Places
<1>2. IsFiniteSet(0..(n - 1))
    BY FS_Interval
<1>3. IsFiniteSet(P)
    BY <1>1, <1>2, FS_Subset
<1> HIDE DEF P
<1>4. Cardinality(P) \in Nat
    BY <1>3, FS_CardinalityType
<1>5. Cardinality(P) = 0 <=> P = {}
    BY <1>3, FS_EmptySet
<1>6. P # {} <=> \E k \in 0..(n - 1) : a[k] = p
    BY DEF P, Places
<1>. QED  BY <1>3, <1>4, <1>5, <1>6 DEF P

\* A swap takes no element out and puts none in.
LEMMA SwapRearranges ==
    ASSUME NEW n \in Nat, NEW a \in [0..(n - 1) -> Ptrs], NEW p,
           NEW j \in 0..(n - 1), NEW k \in 0..(n - 1)
    PROVE  Cardinality(Places(Swapped(a, j, k), n, p)) = Cardinality(Places(a, n, p))
<1> DEFINE s == Swapped(a, j, k)
           P == Places(a, n, p)
           Q == Places(s, n, p)
<1>1. /\ s[j] = a[k] /\ s[k] = a[j]
      /\ \A x \in 0..(n - 1) : x # j /\ x # k => s[x] = a[x]
    BY DEF Swapped
<1>2. IsFiniteSet(P) /\ IsFiniteSet(Q) /\ Cardinality(P) \in Nat /\ Cardinality(Q) \in Nat
    BY PlacesFacts
<1>3. \A x \in 0..(n - 1) : (x \in P <=> a[x] = p) /\ (x \in Q <=> s[x] = p)
    BY DEF Places
<1>4. P \subseteq 0..(n - 1) /\ Q \subseteq 0..(n - 1)
    BY DEF Places
<1> HIDE DEF P, Q, s
<1>5. CASE a[j] # a[k] /\ a[j] = p
    <2>1. /\ Q = (P \ {j}) \cup {k} /\ j \in P /\ k \notin P \ {j}
        BY <1>1, <1>3, <1>4, <1>5
    <2>2. IsFiniteSet(P \ {j}) /\ Cardinality(P \ {j}) = Cardinality(P) - 1
        BY <1>2, <2>1, FS_RemoveElement
    <2>3. Cardinality(Q) = Cardinality(P \ {j}) + 1
        BY <2>1, <2>2, FS_AddElement
    <2>. QED  BY <1>2, <2>2, <2>3 DEF P, Q, s
<1>6. CASE a[j] # a[k] /\ a[k] = p
    <2>1. /\ Q = (P \ {k}) \cup {j} /\ k \in P /\ j \notin P \ {k}
        BY <1>1, <1>3, <1>4, <1>6
    <2>2. IsFiniteSet(P \ {k}) /\ Cardinality(P \ {k}) = Cardinality(P) - 1
        BY <1>2, <2>1, FS_RemoveElement
    <2>3. Cardinality(Q) = Cardinality(P \ {k}) + 1
        BY <2>1, <2>2, FS_AddElement
    <2>. QED  BY <1>2, <2>2, <2>3 DEF P, Q, s
<1>7. CASE a[j] # p /\ a[k] # p
    <2>1. P = Q
        BY <1>1, <1>3, <1>4, <1>7
    <2>. QED  BY <2>1 DEF P, Q, s
<1>8. CASE a[j] = a[k]
    <2>1. P = Q
        BY <1>1, <1>3, <1>4, <1>8
    <2>. QED  BY <2>1 DEF P, Q, s
<1>. QED  BY <1>5, <1>6, <1>7, <1>8

\* What Count counts.
LEMMA CountFacts ==
    ASSUME TypeOK, NEW p
    PROVE  /\ Count(p) = Cardinality(Places(array, size, p)) /\ Count(p) \in Nat
           /\ Count(p) > 0 <=> \E k \in Indices : array[k] = p
<1>1. Count(p) = Cardinality(Places(array, size, p)) /\ Indices = 0..(size - 1)
    BY DEF Count, Places, Indices
<1>. QED  BY <1>1, PlacesFacts DEF TypeOK

\* An iteration of a loop leaves the bag as it is.
LEMMA LoopsRearrange ==
    ASSUME TypeOK, NEW j \in Indices, NEW k \in Indices, size' = size, TypeOK',
           array' = Swapped(array, j, k), NEW p
    PROVE  Count(p)' = Count(p)
<1>1. size \in Nat /\ array \in [0..(size - 1) -> Ptrs] /\ j \in 0..(size - 1) /\ k \in 0..(size - 1)
    BY DEF TypeOK, Indices
<1>2. Cardinality(Places(Swapped(array, j, k), size, p)) = Cardinality(Places(array, size, p))
    BY <1>1, SwapRearranges
<1>3. Count(p) = Cardinality(Places(array, size, p))
    BY CountFacts
<1>4. (Count(p) = Cardinality(Places(array, size, p)))'
    BY DEF Count, Places, Indices
<1>. QED  BY <1>2, <1>3, <1>4

\* Insert adds one element.
LEMMA InsertAdds ==
    ASSUME TypeOK, NEW d \in Ptrs, Insert(d), NEW p
    PROVE  Count(p)' = IF p = d THEN Count(p) + 1 ELSE Count(p)
<1> DEFINE P == Places(array, size, p)
<1>1. /\ size \in Nat /\ size' = size + 1
      /\ \A k \in 0..(size - 1) : array'[k] = array[k]
      /\ array'[size] = d
    BY DEF TypeOK, Insert
<1>2. Count(p)' = Cardinality(Places(array', size', p))
    BY DEF Count, Places, Indices
<1>3. Count(p) = Cardinality(P) /\ IsFiniteSet(P) /\ size \notin P
    <2>1. size \notin P
        BY <1>1 DEF Places
    <2>. QED  BY <1>1, <2>1, CountFacts, PlacesFacts
<1>4. 0..(size' - 1) = 0..(size - 1) \cup {size}
    BY <1>1
<1>5. Places(array', size', p) = IF p = d THEN P \cup {size} ELSE P
    BY <1>1, <1>4 DEF Places
<1> HIDE DEF P
<1>6. Cardinality(P \cup {size}) = Cardinality(P) + 1
    BY <1>3, FS_AddElement
<1>. QED  BY <1>2, <1>3, <1>5, <1>6

\* Pop of a heap that is not empty takes out the root: it and the last element
\* change places, and the last place goes.
LEMMA PopTakes ==
    ASSUME TypeOK, Pop, size # 0, NEW p
    PROVE  Count(p)' = IF p = array[0] THEN Count(p) - 1 ELSE Count(p)
<1> DEFINE last == size - 1
           s == Swapped(array, 0, last)
           P == Places(s, size, p)
<1>1. /\ size \in Nat /\ last \in 0..(size - 1) /\ 0 \in 0..(size - 1) /\ size' = last
      /\ array \in [0..(size - 1) -> Ptrs]
      /\ array' = [k \in 0..(size - 2) |-> IF k = 0 THEN array[last] ELSE array[k]]
    BY DEF TypeOK, Pop, Indices
<1>2. s[last] = array[0] /\ \A k \in 0..(size - 2) : s[k] = array'[k]
    BY <1>1 DEF Swapped
<1>3. Count(p)' = Cardinality(Places(array', last, p))
    BY <1>1 DEF Count, Places, Indices
<1>4. Count(p) = Cardinality(P)
    BY <1>1, SwapRearranges, CountFacts
<1>5. IsFiniteSet(P)
    BY <1>1, PlacesFacts
<1>6. last \in P <=> p = array[0]
    BY <1>1, <1>2 DEF Places
<1>7. Places(array', last, p) = P \ {last}
    <2>1. 0..(size - 1) = 0..(size - 2) \cup {last} /\ last \notin 0..(size - 2)
        BY <1>1
    <2>2. 0..(last - 1) = 0..(size - 2)
        BY <1>1
    <2> HIDE DEF s, last
    <2>. QED  BY <1>2, <2>1, <2>2 DEF Places
<1> HIDE DEF P, s, last
<1>8. Cardinality(P \ {last}) = IF last \in P THEN Cardinality(P) - 1 ELSE Cardinality(P)
    BY <1>5, FS_RemoveElement
<1>. QED  BY <1>3, <1>4, <1>6, <1>7, <1>8

\* A step of the heap is one of the queue, or leaves it as it is.
LEMMA StepOfQueue ==
    ASSUME HeapInv, [Next]_vars
    PROVE  [Queue!Next]_(Queue!qvars)
<1> DEFINE queue == [p \in Ptrs |-> Count(p)]
<1>1. TypeOK /\ TypeOK' /\ TopIsFirst
    <2>1. CASE Next
        BY <2>1, InsertInv, PopInv, ReBuild4InsertInv, ReBuild4DeleteInv, RootIsFirst
           DEF Next, HeapInv
    <2>2. CASE UNCHANGED vars
        BY <2>2, RootIsFirst DEF vars, HeapInv, TypeOK, Indices
    <2>. QED  BY <2>1, <2>2
<1>2. ASSUME \A p \in Ptrs : Count(p)' = Count(p), popped' = popped
      PROVE  UNCHANGED Queue!qvars
    BY <1>2 DEF Queue!qvars
<1>3. CASE ReBuild4Insert
    <2>1. i \in Indices /\ Parent(i) \in Indices /\ size' = size /\ popped' = popped
        <3>1. i \in Indices /\ i \in Nat /\ i # 0 /\ size \in Nat
            BY <1>1, <1>3 DEF TypeOK, ReBuild4Insert
        <3>2. Parent(i) \in Nat /\ Parent(i) < i
            BY <3>1, ParentFacts
        <3>. QED  BY <1>3, <3>1, <3>2 DEF ReBuild4Insert, Indices
    <2>2. array' = array \/ array' = Swapped(array, i, Parent(i))
        BY <1>3 DEF ReBuild4Insert
    <2>3. \A p \in Ptrs : Count(p)' = Count(p)
        <3>1. CASE array' = array
            BY <2>1, <3>1 DEF Count, Indices
        <3>2. CASE array' = Swapped(array, i, Parent(i))
            BY <1>1, <2>1, <3>2, LoopsRearrange
        <3>. QED  BY <2>2, <3>1, <3>2
    <2>. QED  BY <1>2, <2>1, <2>3
<1>4. CASE ReBuild4Delete
    <2>1. i \in Indices /\ size' = size /\ popped' = popped
        BY <1>1, <1>4 DEF TypeOK, ReBuild4Delete
    <2>2. array' = array \/ (Child(i) \in Indices /\ array' = Swapped(array, i, Child(i)))
        BY <1>1, <1>4, <2>1, ChildFacts DEF ReBuild4Delete
    <2>3. \A p \in Ptrs : Count(p)' = Count(p)
        <3>1. CASE array' = array
            BY <2>1, <3>1 DEF Count, Indices
        <3>2. CASE Child(i) \in Indices /\ array' = Swapped(array, i, Child(i))
            BY <1>1, <2>1, <3>2, LoopsRearrange
        <3>. QED  BY <2>2, <3>1, <3>2
    <2>. QED  BY <1>2, <2>1, <2>3
<1>5. ASSUME NEW d \in Ptrs, Insert(d) PROVE Queue!Next
    <2>1. \A p \in Ptrs : Count(p)' = IF p = d THEN Count(p) + 1 ELSE Count(p)
        BY <1>1, <1>5, InsertAdds
    <2>2. [p \in Ptrs |-> Count(p)]' = [queue EXCEPT ![d] = @ + 1]
        BY <2>1
    <2>3. Queue!Insert(d)
        BY <1>5, <2>2 DEF Queue!Insert, Insert
    <2>. QED  BY <2>3 DEF Queue!Next
<1>6. CASE Pop
    <2>1. \A p \in Ptrs : p \in Queue!Held <=> \E k \in Indices : array[k] = p
        BY <1>1, CountFacts DEF Queue!Held
    <2>2. CASE size = 0
        <3>1. popped' = -1 /\ UNCHANGED <<array, size>>
            BY <1>6, <2>2 DEF Pop
        <3>2. \A p \in Ptrs : Count(p)' = Count(p)
            BY <3>1 DEF Count, Indices
        <3>3. Queue!Held = {}
            BY <2>1, <2>2 DEF Queue!Held, Indices
        <3>. QED  BY <3>1, <3>2, <3>3 DEF Queue!Next, Queue!Pop
    <2>3. CASE size # 0
        <3> DEFINE r == array[0]
        <3>1. /\ pc = "idle" /\ popped' = r /\ 0 \in Indices /\ r \in Ptrs
              /\ \A k \in Indices : array[k] \in Ptrs
            BY <1>1, <1>6, <2>3 DEF Pop, TypeOK, Indices
        <3>2. r \in Queue!Held
            BY <2>1, <3>1
        <3>3. \A q \in Queue!Held : Queue!Before(r, q)
            BY <1>1, <2>1, <3>1 DEF TopIsFirst, Before, Queue!Before, Queue!Held
        <3>4. \A p \in Ptrs : Count(p)' = IF p = r THEN Count(p) - 1 ELSE Count(p)
            BY <1>1, <1>6, <2>3, PopTakes
        <3>5. [p \in Ptrs |-> Count(p)]' = [queue EXCEPT ![r] = @ - 1]
            BY <3>1, <3>4
        <3> HIDE DEF r
        <3>6. Queue!Pop
            BY <3>1, <3>2, <3>3, <3>5 DEF Queue!Pop
        <3>. QED  BY <3>6 DEF Queue!Next
    <2>. QED  BY <2>2, <2>3
<1>7. CASE UNCHANGED vars
    BY <1>2, <1>7 DEF vars, Count, Indices
<1>. QED  BY <1>3, <1>4, <1>5, <1>6, <1>7 DEF Next

\* Heap implements the queue the timers are modelled with: no pointer is lost or
\* doubled by the loops, and Pop takes out one that no other precedes.
THEOREM ImplementsPtrQueue == Spec => QueueSpec
<1>1. Init => Queue!Init
    <2> SUFFICES ASSUME Init PROVE Queue!Init
        OBVIOUS
    <2>1. TypeOK /\ Indices = {} /\ popped = -1
        BY HeapInitInv DEF HeapInv, Init, Indices
    <2>2. \A p \in Ptrs : Count(p) = 0
        BY <2>1, CountFacts
    <2>. QED  BY <2>1, <2>2 DEF Queue!Init
<1>2. HeapInv /\ [Next]_vars => [Queue!Next]_(Queue!qvars)
    BY StepOfQueue
<1>. QED  BY <1>1, <1>2, HeapInvariant, PTL DEF Spec, QueueSpec, Queue!Spec
============================================================================

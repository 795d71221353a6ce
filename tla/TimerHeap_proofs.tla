-------------------------- MODULE TimerHeap_proofs --------------------------
(***************************************************************************)
(* Theorems about the timers of module TimerHeap, for any addresses and    *)
(* intervals and whatever addresses the allocator gives to the timers that *)
(* handlers register.                                                      *)
(*                                                                         *)
(* The argument counts: heap and temp hold each timer as often as they     *)
(* should (Owed), where a Pop that takes out another timer than the one    *)
(* called moves one unit from what is owed of the first to the second.     *)
(* It needs to know that only a timer the running handler registered can   *)
(* be taken out in this way, and that this one is in the heap once.        *)
(***************************************************************************)
EXTENDS TimerHeap, SeqFacts, FiniteSetTheorems, WellFoundedInduction, FunctionTheorems

-----------------------------------------------------------------------------
(* How often a sequence holds an element.                                  *)

Spots(s, x) == {i \in DOMAIN s : s[i] = x}

\* A sequence holds an element at finitely many indexes.
LEMMA SpotsFacts ==
    ASSUME NEW S, NEW s \in Seq(S), NEW x
    PROVE  /\ Spots(s, x) \subseteq 1..Len(s) /\ IsFiniteSet(Spots(s, x))
           /\ Cardinality(Spots(s, x)) \in Nat
           /\ x \notin S => Spots(s, x) = {}
<1>1. Spots(s, x) \subseteq 1..Len(s) /\ Len(s) \in Nat
    BY DEF Spots
<1>2. IsFiniteSet(1..Len(s))
    BY <1>1, FS_Interval
<1>3. IsFiniteSet(Spots(s, x))
    BY <1>1, <1>2, FS_Subset
<1>4. x \notin S => Spots(s, x) = {}
    BY DEF Spots
<1>. QED  BY <1>1, <1>3, <1>4, FS_CardinalityType

\* Append adds one index for the element it appends.
LEMMA SpotsAppend ==
    ASSUME NEW S, NEW s \in Seq(S), NEW y \in S, NEW x
    PROVE  Cardinality(Spots(Append(s, y), x))
               = Cardinality(Spots(s, x)) + IF x = y THEN 1 ELSE 0
<1> DEFINE n == Len(s) + 1
<1>1. n \notin 1..Len(s) /\ DOMAIN Append(s, y) = 1..Len(s) \cup {n}
    OBVIOUS
<1>2. Append(s, y)[n] = y /\ \A i \in 1..Len(s) : Append(s, y)[i] = s[i]
    OBVIOUS
<1>3. Spots(Append(s, y), x) = IF x = y THEN Spots(s, x) \cup {n} ELSE Spots(s, x)
    <2>. HIDE DEF n
    <2>. QED  BY <1>1, <1>2 DEF Spots
<1>4. /\ n \notin Spots(s, x) /\ IsFiniteSet(Spots(s, x))
      /\ Cardinality(Spots(s, x)) \in Nat
    BY <1>1, SpotsFacts
<1>5. Cardinality(Spots(s, x) \cup {n}) = Cardinality(Spots(s, x)) + 1
    BY <1>4, FS_AddElement
<1>. HIDE DEF n
<1>. QED  BY <1>3, <1>4, <1>5

\* Tail takes away one index of the first element.
LEMMA SpotsTail ==
    ASSUME NEW S, NEW s \in Seq(S), s # <<>>, NEW x
    PROVE  Cardinality(Spots(s, x))
               = Cardinality(Spots(Tail(s), x)) + IF x = Head(s) THEN 1 ELSE 0
<1> DEFINE P == Spots(Tail(s), x)
           Q == Spots(s, x) \ {1}
           f == [i \in P |-> i + 1]
<1>1. /\ Tail(s) \in Seq(S) /\ Len(s) \in Nat \ {0} /\ Head(s) = s[1]
      /\ Len(Tail(s)) = Len(s) - 1 /\ \A i \in 1..(Len(s) - 1) : Tail(s)[i] = s[i + 1]
    OBVIOUS
<1>2. /\ P = {i \in 1..(Len(s) - 1) : s[i + 1] = x}
      /\ Q = {i \in 2..Len(s) : s[i] = x}
      /\ 1 \in Spots(s, x) <=> x = Head(s)
    BY <1>1 DEF Spots
<1>3. IsFiniteSet(P) /\ IsFiniteSet(Spots(s, x)) /\ Cardinality(Spots(s, x)) \in Nat
    BY <1>1, SpotsFacts
<1>4. ExistsBijection(P, Q)
    <2>1. f \in [P -> Q]
        BY <1>1, <1>2
    <2>2. \A a, b \in P : f[a] = f[b] => a = b
        BY <1>2
    <2>3. ASSUME NEW t \in Q PROVE \E a \in P : f[a] = t
        <3>1. t - 1 \in P /\ f[t - 1] = t
            BY <1>1, <1>2, <2>3
        <3>. QED  BY <3>1
    <2>. HIDE DEF f, P, Q
    <2>4. f \in Bijection(P, Q)
        BY <2>1, <2>2, <2>3, Fun_IsBij
    <2>. QED  BY <2>4 DEF ExistsBijection
<1>5. Cardinality(Q) = Cardinality(P)
    BY <1>3, <1>4, FS_Bijection
<1>6. Cardinality(Q) = IF 1 \in Spots(s, x) THEN Cardinality(Spots(s, x)) - 1
                       ELSE Cardinality(Spots(s, x))
    BY <1>3, FS_RemoveElement
<1>. HIDE DEF P, Q
<1>. QED  BY <1>2, <1>3, <1>5, <1>6 DEF P

-----------------------------------------------------------------------------
(* The counts.                                                             *)

\* What is counted is a number.
LEMMA CountFacts ==
    ASSUME TypeOK, NEW p \in Addrs
    PROVE  /\ heap[p] \in Nat /\ InTemp(p) \in Nat /\ Copies(p) \in Nat
           /\ Copies(p) = heap[p] + InTemp(p)
           /\ IsFiniteSet(Overtakers(p)) /\ Cardinality(Overtakers(p)) \in Nat
           /\ Overtakers(p) = {} => Cardinality(Overtakers(p)) = 0
           /\ Owed(p) \in Nat
           /\ p \in Nat /\ p # -1 /\ repeat[p] \in BOOLEAN
<1>1. heap[p] \in Nat /\ temp \in Seq(Addrs)
    BY DEF TypeOK
<1>2. InTemp(p) \in Nat
    BY <1>1, SpotsFacts DEF InTemp, Spots
<1>3. Overtakers(p) \subseteq Addrs /\ IsFiniteSet(Addrs)
    BY TimerAssumption DEF Overtakers
<1>4. IsFiniteSet(Overtakers(p))
    BY <1>3, FS_Subset
<1>5. Cardinality(Overtakers(p)) \in Nat
    BY <1>4, FS_CardinalityType
<1>6. Overtakers(p) = {} => Cardinality(Overtakers(p)) = 0
    BY FS_EmptySet
<1>7. p \in Nat /\ p # -1
    BY TimerAssumption
<1>8. repeat[p] \in BOOLEAN
    BY DEF TypeOK
<1>. QED  BY <1>1, <1>2, <1>4, <1>5, <1>6, <1>7, <1>8 DEF Copies, Owed

\* Timers in the heap or in temp are registered and were not taken out.
LEMMA HeldFacts ==
    ASSUME TickInv, NEW p \in Addrs, heap[p] > 0
    PROVE  p \in registered /\ overtook[p] = -1
<1>1. TypeOK /\ Copies(p) <= Owed(p)
    BY DEF TickInv, TimersAccounted
<1>2. heap[p] \in Nat /\ InTemp(p) \in Nat /\ Copies(p) = heap[p] + InTemp(p)
    BY <1>1, CountFacts
<1>3. Owed(p) # 0
    BY <1>1, <1>2
<1>. QED  BY <1>3 DEF Owed

\* The heap holds addresses.
LEMMA HeldIn ==
    ASSUME TickInv
    PROVE  \A p : p \in PQ!Held <=> p \in Addrs /\ heap[p] > 0
BY DEF PQ!Held

\* The top of a heap that is not empty is in it and no address lies below.
LEMMA TopFacts ==
    ASSUME PQ!Held # {}
    PROVE  Top \in PQ!Held /\ \A q \in PQ!Held : PQ!Before(Top, q)
<1>1. PQ!Held \subseteq Nat
    BY TimerAssumption DEF PQ!Held
<1>2. PICK p \in PQ!Held : \A q \in PQ!Held : ~(<<q, p>> \in OpToRel(<, Nat))
    BY <1>1, NatLessThanWellFounded, WFMin
<1>3. \A q \in PQ!Held : ~(q < p)
    BY <1>1, <1>2 DEF OpToRel
<1>4. \A q \in PQ!Held : p <= q
    BY <1>1, <1>3
<1>. QED  BY <1>4 DEF Top, PQ!Before

\* Insert puts an address in once more.
LEMMA InsertFacts ==
    ASSUME heap \in [Addrs -> Nat], NEW p \in Addrs, PQ!Insert(p)
    PROVE  /\ heap' \in [Addrs -> Nat] /\ popped' = popped
           /\ heap'[p] = heap[p] + 1
           /\ \A q \in Addrs : q # p => heap'[q] = heap[q]
           /\ PQ!Held' = PQ!Held \cup {p}
<1>1. heap' = [heap EXCEPT ![p] = @ + 1] /\ popped' = popped
    BY DEF PQ!Insert
<1>2. heap[p] \in Nat
    OBVIOUS
<1>3. /\ heap' \in [Addrs -> Nat] /\ heap'[p] = heap[p] + 1
      /\ \A q \in Addrs : q # p => heap'[q] = heap[q]
    BY <1>1, <1>2
<1>. QED  BY <1>1, <1>2, <1>3 DEF PQ!Held

\* Pop after a handler takes out its timer, or one the handler registered below it.
LEMMA PopFacts ==
    ASSUME TickInv, pc = "handler", PQ!Pop
    PROVE  /\ popped' \in Addrs /\ heap[popped'] > 0 /\ heap' \in [Addrs -> Nat]
           /\ heap'[popped'] = heap[popped'] - 1
           /\ \A q \in Addrs : q # popped' => heap'[q] = heap[q]
           /\ popped' = cur \/ (popped' \in fresh /\ popped' < cur)
           /\ cur \in Addrs /\ heap[cur] > 0
<1>1. heap \in [Addrs -> Nat]
    BY DEF TickInv, TypeOK
<1>2. /\ cur \in PQ!Held /\ \A q \in PQ!Held \ fresh : PQ!Before(cur, q)
      /\ cur \notin fresh
    BY DEF TickInv, Phases
<1>3. PICK p \in PQ!Held : /\ \A q \in PQ!Held : PQ!Before(p, q)
                           /\ popped' = p
                           /\ heap' = [heap EXCEPT ![p] = @ - 1]
    BY <1>2 DEF PQ!Pop
<1>4. p \in Addrs /\ heap[p] > 0 /\ heap[p] \in Nat /\ cur \in Addrs /\ heap[cur] > 0
    BY <1>1, <1>2, <1>3 DEF PQ!Held
<1>5. p = cur \/ (p \in fresh /\ p < cur)
    <2>1. p \in Nat /\ cur \in Nat
        BY <1>4, TimerAssumption
    <2>2. p <= cur
        BY <1>2, <1>3 DEF PQ!Before
    <2>3. p \notin fresh => cur <= p
        BY <1>2 DEF PQ!Before
    <2>. QED  BY <2>1, <2>2, <2>3
<1>6. /\ heap' \in [Addrs -> Nat] /\ heap'[p] = heap[p] - 1
      /\ \A q \in Addrs : q # p => heap'[q] = heap[q]
    BY <1>1, <1>3, <1>4
<1>. QED  BY <1>3, <1>4, <1>5, <1>6

-----------------------------------------------------------------------------
\* No timer is registered at first.
LEMMA TickInit == Init => TickInv
<1> SUFFICES ASSUME Init PROVE TickInv
    OBVIOUS
<1> USE DEF Init
<1>1. TypeOK
    <2>1. repeat \in [Addrs -> BOOLEAN] /\ rang \in BOOLEAN
        OBVIOUS
    <2>2. heap \in [Addrs -> Nat] /\ left \in [Addrs -> Nat]
          /\ interval \in [Addrs -> Intervals \cup {0}]
        OBVIOUS
    <2>3. elapsed \in 0..MaxElapsed
        BY TimerAssumption
    <2>4. temp \in Seq(Addrs) /\ registered \subseteq Addrs
          /\ popped \in Addrs \cup {-1} /\ cur \in Addrs \cup {-1}
        OBVIOUS
    <2>5. fresh \subseteq Addrs /\ overtook \in [Addrs -> Addrs \cup {-1}]
        OBVIOUS
    <2>. QED  BY <2>1, <2>2, <2>3, <2>4, <2>5 DEF TypeOK
<1>2. ASSUME NEW p \in Addrs PROVE Copies(p) = 0 /\ Owed(p) = 0
    <2>1. {i \in DOMAIN temp : temp[i] = p} = {}
        OBVIOUS
    <2>2. InTemp(p) = 0
        BY <2>1, FS_EmptySet DEF InTemp
    <2>. QED  BY <2>2 DEF Copies, Owed
<1>3. TimersAccounted
    BY <1>2 DEF TimersAccounted
<1>4. Phases
    BY DEF Phases
<1>. QED  BY <1>1, <1>3, <1>4 DEF TickInv

\* A step that leaves what is counted alone keeps the accounts.
LEMMA Untouched ==
    ASSUME TickInv, UNCHANGED <<heap, temp, registered, repeat, overtook>>
    PROVE  /\ TimersAccounted' /\ PQ!Held' = PQ!Held
           /\ \A p : Overtakers(p)' = Overtakers(p)
BY DEF TickInv, TimersAccounted, PQ!Held, Copies, InTemp, Owed, Overtakers

\* lazy_register_timer keeps the invariant, called from outside tick() or from a
\* handler.
LEMMA RegisterStep ==
    ASSUME TickInv, NEW p \in Addrs, NEW s \in Intervals, NEW b \in BOOLEAN,
           lazy_register_timer(p, s, b),
           \/ pc = "idle" /\ fresh' = fresh
           \/ pc = "handler" /\ fresh' = fresh \cup {p}
    PROVE  TickInv'
<1>1. /\ p \notin registered /\ registered' = registered \cup {p}
      /\ left' = [left EXCEPT ![p] = elapsed + s]
      /\ interval' = [interval EXCEPT ![p] = s]
      /\ repeat' = [repeat EXCEPT ![p] = b]
      /\ PQ!Insert(p)
      /\ rang' = rang /\ pc' = pc /\ cur' = cur /\ temp' = temp /\ elapsed' = elapsed
      /\ overtook' = overtook
    BY DEF lazy_register_timer, tickVars
<1>2. /\ heap' \in [Addrs -> Nat] /\ popped' = popped
      /\ heap'[p] = heap[p] + 1
      /\ \A q \in Addrs : q # p => heap'[q] = heap[q]
      /\ PQ!Held' = PQ!Held \cup {p}
    BY <1>1, InsertFacts DEF TickInv, TypeOK
<1>3. TypeOK'
    <2>1. repeat' \in [Addrs -> BOOLEAN]
        BY <1>1 DEF TickInv, TypeOK
    <2>2. left' \in [Addrs -> Nat]
        <3>1. left \in [Addrs -> Nat] /\ elapsed + s \in Nat
            BY TimerAssumption DEF TickInv, TypeOK
        <3>. QED  BY <1>1, <3>1
    <2>3. interval' \in [Addrs -> Intervals \cup {0}] /\ registered' \subseteq Addrs
        BY <1>1 DEF TickInv, TypeOK
    <2>4. fresh' \subseteq Addrs
        BY DEF TickInv, TypeOK
    <2>. QED  BY <1>1, <1>2, <2>1, <2>2, <2>3, <2>4 DEF TickInv, TypeOK
<1>4. Overtakers(p) = {} /\ overtook[p] = -1 /\ \A q : Overtakers(q)' = Overtakers(q)
    <2>1. \A q \in Addrs : overtook[q] # -1 => {q, overtook[q]} \subseteq registered
        BY DEF TickInv, Phases
    <2>2. p # -1
        BY TimerAssumption
    <2>. QED  BY <1>1, <2>1, <2>2 DEF Overtakers
<1>5. heap[p] = 0 /\ InTemp(p) = 0
    <2>1. Owed(p) = 0 /\ Copies(p) <= Owed(p)
        BY <1>1 DEF Owed, TickInv, TimersAccounted
    <2>2. TypeOK
        BY DEF TickInv
    <2>. QED  BY <2>1, <2>2, CountFacts
<1>6. TimersAccounted'
    <2>1. ASSUME NEW q \in Addrs
          PROVE  /\ Copies(q)' <= Owed(q)' /\ (repeat[q]' => Copies(q)' = Owed(q)')
        <3>1. InTemp(q)' = InTemp(q)
            BY <1>1 DEF InTemp
        <3>2. CASE q = p
            <4>1. Copies(p)' = 1
                BY <1>2, <1>5, <3>1, <3>2 DEF Copies
            <4>2. Owed(p)' = 1
                BY <1>1, <1>4, FS_EmptySet DEF Owed
            <4>. QED  BY <3>2, <4>1, <4>2
        <3>3. CASE q # p
            <4>1. Copies(q)' = Copies(q)
                BY <1>2, <3>1, <3>3 DEF Copies
            <4>2. Owed(q)' = Owed(q)
                BY <1>1, <1>4, <3>3 DEF Owed
            <4>3. repeat'[q] = repeat[q]
                BY <1>1, <3>3 DEF TickInv, TypeOK
            <4>. QED  BY <4>1, <4>2, <4>3 DEF TickInv, TimersAccounted
        <3>. QED  BY <3>2, <3>3
    <2>. QED  BY <2>1 DEF TimersAccounted
<1>7. Phases'
    <2>1. ASSUME pc = "handler"
          PROVE  /\ cur \in PQ!Held' /\ \A q \in PQ!Held' \ fresh' : PQ!Before(cur, q)
                 /\ cur \notin fresh'
        <3>1. /\ cur \in PQ!Held /\ \A q \in PQ!Held \ fresh : PQ!Before(cur, q)
              /\ cur \notin fresh
            BY <2>1 DEF TickInv, Phases
        <3>2. cur # p
            BY <1>5, <3>1 DEF PQ!Held
        <3>. QED  BY <1>2, <2>1, <3>1, <3>2
    <2>2. pc # "handler" => fresh' = {} /\ cur = -1
        BY DEF TickInv, Phases
    <2>3. fresh' \subseteq registered'
        BY <1>1 DEF TickInv, Phases
    <2>4. ASSUME NEW q \in fresh' PROVE Overtakers(q)' = {} /\ heap'[q] = 1
        <3>1. CASE q = p
            BY <1>2, <1>4, <1>5, <3>1
        <3>2. CASE q # p
            <4>1. q \in fresh /\ q \in Addrs
                BY <3>2 DEF TickInv, TypeOK
            <4>. QED  BY <1>2, <1>4, <3>2, <4>1 DEF TickInv, Phases
        <3>. QED  BY <3>1, <3>2
    <2>5. \A q \in Addrs : overtook'[q] # -1 => {q, overtook'[q]} \subseteq registered'
        BY <1>1 DEF TickInv, Phases
    <2>6. /\ pc = "idle" => temp = <<>> /\ elapsed = 0
          /\ pc = "handler" <=> cur # -1
        BY DEF TickInv, Phases
    <2>. QED  BY <1>1, <2>1, <2>2, <2>3, <2>4, <2>5, <2>6 DEF Phases, PQ!Before
<1>. QED  BY <1>3, <1>6, <1>7 DEF TickInv

\* A second passes.
LEMMA ClockStep ==
    ASSUME TickInv, Clock PROVE TickInv'
<1>1. /\ UNCHANGED <<heap, popped, registered, interval, repeat, fresh, overtook>>
      /\ pc' = pc /\ cur' = cur /\ temp' = temp
    BY DEF Clock, tickVars, historyVars
<1>2. /\ TimersAccounted' /\ PQ!Held' = PQ!Held
      /\ \A p : Overtakers(p)' = Overtakers(p)
    BY <1>1, Untouched
<1>3. left' \in [Addrs -> Nat] /\ rang' \in BOOLEAN /\ elapsed' \in 0..MaxElapsed
    <2>1. left \in [Addrs -> Nat] /\ elapsed \in 0..MaxElapsed /\ rang \in BOOLEAN
          /\ MaxElapsed \in Nat
        BY TimerAssumption DEF TickInv, TypeOK
    <2>2. ASSUME pc = "idle" PROVE <1>3!:
        <3>1. /\ left' = [p \in Addrs |-> IF left[p] > 0 THEN left[p] - 1 ELSE 0]
              /\ rang' = TRUE /\ elapsed' = elapsed
            BY <2>2 DEF Clock, Second
        <3>. QED  BY <2>1, <3>1
    <2>3. ASSUME pc # "idle" PROVE <1>3!:
        BY <2>1, <2>3 DEF Clock, Second
    <2>. QED  BY <2>2, <2>3
<1>4. TypeOK'
    BY <1>1, <1>3 DEF TickInv, TypeOK
<1>5. pc = "idle" => elapsed' = elapsed
    BY DEF Clock, Second
<1>6. Phases'
    BY <1>1, <1>2, <1>5 DEF TickInv, Phases, PQ!Before
<1>. QED  BY <1>2, <1>4, <1>6 DEF TickInv

\* The handler has returned: its timer is put into temp, and leaves the heap unless
\* one that the handler registered leaves it in its place.
LEMMA PopTimerStep ==
    ASSUME TickInv, PopTimer PROVE TickInv'
<1> DEFINE q == popped'
<1>1. /\ pc = "handler" /\ PQ!Pop
      /\ temp' = Append(temp, cur) /\ pc' = "tick" /\ cur' = -1 /\ fresh' = {}
      /\ overtook' = IF q = cur THEN overtook ELSE [overtook EXCEPT ![q] = cur]
      /\ UNCHANGED <<registered, left, interval, repeat, rang, elapsed>>
    BY DEF PopTimer, HandlerReturned
<1>2. /\ q \in Addrs /\ heap[q] > 0 /\ heap' \in [Addrs -> Nat]
      /\ heap'[q] = heap[q] - 1
      /\ \A p \in Addrs : p # q => heap'[p] = heap[p]
      /\ q = cur \/ (q \in fresh /\ q < cur)
      /\ cur \in Addrs /\ heap[cur] > 0
    BY <1>1, PopFacts
<1>3. /\ cur \in registered /\ overtook[cur] = -1 /\ q \in registered /\ overtook[q] = -1
    BY <1>2, HeldFacts
<1>4. TypeOK /\ temp \in Seq(Addrs) /\ overtook \in [Addrs -> Addrs \cup {-1}]
    BY DEF TickInv, TypeOK
<1>. HIDE DEF q
<1>5. temp' \in Seq(Addrs) /\ overtook' \in [Addrs -> Addrs \cup {-1}]
    BY <1>1, <1>2, <1>4, AppendFacts
<1>6. TypeOK'
    <2>1. popped' \in Addrs
        BY <1>2 DEF q
    <2>. QED  BY <1>1, <1>2, <1>5, <2>1 DEF TickInv, TypeOK
<1>7. ASSUME NEW p \in Addrs
      PROVE  InTemp(p)' = InTemp(p) + IF p = cur THEN 1 ELSE 0
    <2>1. InTemp(p) = Cardinality(Spots(temp, p))
        BY DEF InTemp, Spots
    <2>2. InTemp(p)' = Cardinality(Spots(Append(temp, cur), p))
        BY <1>1 DEF InTemp, Spots
    <2>3. Cardinality(Spots(Append(temp, cur), p))
              = Cardinality(Spots(temp, p)) + IF p = cur THEN 1 ELSE 0
        BY <1>2, <1>4, SpotsAppend
    <2>. QED  BY <2>1, <2>2, <2>3
<1>8. ASSUME NEW p \in Addrs
      PROVE  Overtakers(p)' = IF p = cur /\ q # cur THEN Overtakers(p) \cup {q}
                              ELSE Overtakers(p)
    <2>1. overtook[q] # p
        BY <1>3, TimerAssumption
    <2>. QED  BY <1>1, <1>2, <1>4, <2>1 DEF Overtakers
<1>9. TimersAccounted'
    <2>1. ASSUME NEW p \in Addrs
          PROVE  Copies(p)' <= Owed(p)' /\ (repeat[p]' => Copies(p)' = Owed(p)')
        <3>1. /\ heap[p] \in Nat /\ InTemp(p) \in Nat /\ Copies(p) = heap[p] + InTemp(p)
              /\ IsFiniteSet(Overtakers(p)) /\ Cardinality(Overtakers(p)) \in Nat
              /\ Copies(p) <= Owed(p) /\ (repeat[p] => Copies(p) = Owed(p))
              /\ repeat'[p] = repeat[p]
            BY <1>1, <1>4, CountFacts DEF TickInv, TimersAccounted
        <3>2. Copies(p)' = heap'[p] + InTemp(p)'
            BY DEF Copies
        <3>3. CASE p = cur
            <4>1. CASE q = cur
                <5>1. Copies(p)' = Copies(p)
                    BY <1>2, <1>7, <3>1, <3>2, <3>3, <4>1
                <5>2. Owed(p)' = Owed(p)
                    BY <1>1, <1>8, <4>1 DEF Owed
                <5>. QED  BY <3>1, <5>1, <5>2
            <4>2. CASE q # cur
                <5>1. Copies(p)' = Copies(p) + 1
                    BY <1>2, <1>7, <3>1, <3>2, <3>3, <4>2
                <5>2. q \notin Overtakers(p)
                    BY <1>3, TimerAssumption DEF Overtakers
                <5>3. Cardinality(Overtakers(p)') = Cardinality(Overtakers(p)) + 1
                    BY <1>8, <3>1, <3>3, <4>2, <5>2, FS_AddElement
                <5>4. Owed(p) = 1 + Cardinality(Overtakers(p))
                    BY <1>3, <3>3 DEF Owed
                <5>5. overtook'[p] = -1
                    BY <1>1, <1>2, <1>3, <1>4, <3>3, <4>2
                <5>6. Owed(p)' = 1 + Cardinality(Overtakers(p)')
                    BY <1>1, <1>3, <3>3, <5>5 DEF Owed
                <5>. QED  BY <3>1, <5>1, <5>3, <5>4, <5>6
            <4>. QED  BY <4>1, <4>2
        <3>4. CASE p = q /\ q # cur
            <4>1. Overtakers(p) = {} /\ heap[p] = 1
                BY <1>2, <3>4 DEF TickInv, Phases
            <4>2. Owed(p) = 1
                BY <1>3, <3>4, <4>1, FS_EmptySet DEF Owed
            <4>3. InTemp(p) = 0
                BY <3>1, <4>1, <4>2
            <4>4. Copies(p)' = 0
                BY <1>2, <1>7, <3>2, <3>4, <4>1, <4>3
            <4>5. overtook'[p] = cur /\ cur # -1
                BY <1>1, <1>2, <1>4, <3>4, TimerAssumption
            <4>6. Owed(p)' = 0
                BY <4>5 DEF Owed
            <4>. QED  BY <4>4, <4>6
        <3>5. CASE p # q /\ p # cur
            <4>1. Copies(p)' = Copies(p)
                BY <1>2, <1>7, <3>1, <3>2, <3>5
            <4>2. overtook'[p] = overtook[p]
                BY <1>1, <1>4, <3>5
            <4>3. Owed(p)' = Owed(p)
                BY <1>1, <1>8, <3>5, <4>2 DEF Owed
            <4>. QED  BY <3>1, <4>1, <4>3
        <3>. QED  BY <3>3, <3>4, <3>5
    <2>. QED  BY <2>1 DEF TimersAccounted
<1>10. \A p \in Addrs : overtook'[p] # -1 => {p, overtook'[p]} \subseteq registered'
    <2>1. \A p \in Addrs : overtook[p] # -1 => {p, overtook[p]} \subseteq registered
        BY DEF TickInv, Phases
    <2>. QED  BY <1>1, <1>2, <1>3, <1>4, <2>1
<1>11. Phases'
    BY <1>1, <1>10 DEF Phases
<1>. QED  BY <1>6, <1>9, <1>11 DEF TickInv

\* A called timer that repeats returns to the heap.
LEMMA RearmStep ==
    ASSUME TickInv, Rearm PROVE TickInv'
<1> DEFINE p == Head(temp)
<1>1. /\ pc = "rearm" /\ temp # <<>> /\ temp' = Tail(temp)
      /\ UNCHANGED <<registered, interval, repeat, rang, pc, cur, elapsed, fresh, overtook>>
    BY DEF Rearm, historyVars
<1>2. TypeOK /\ temp \in Seq(Addrs) /\ heap \in [Addrs -> Nat]
    BY DEF TickInv, TypeOK
<1>3. p \in Addrs /\ temp' \in Seq(Addrs)
    BY <1>1, <1>2, TailFacts
<1>4. ASSUME NEW q \in Addrs
      PROVE  InTemp(q) = InTemp(q)' + IF q = p THEN 1 ELSE 0
    <2>1. InTemp(q) = Cardinality(Spots(temp, q))
        BY DEF InTemp, Spots
    <2>2. InTemp(q)' = Cardinality(Spots(Tail(temp), q))
        BY <1>1 DEF InTemp, Spots
    <2>3. Cardinality(Spots(temp, q))
              = Cardinality(Spots(Tail(temp), q)) + IF q = Head(temp) THEN 1 ELSE 0
        BY <1>1, <1>2, SpotsTail
    <2>. QED  BY <2>1, <2>2, <2>3
<1>. HIDE DEF p
<1>5. /\ heap' \in [Addrs -> Nat] /\ popped' = popped
      /\ heap'[p] = heap[p] + IF repeat[p] THEN 1 ELSE 0
      /\ \A q \in Addrs : q # p => heap'[q] = heap[q]
    <2>1. ASSUME repeat[p] PROVE <1>5!:
        <3>1. PQ!Insert(p)
            BY <2>1 DEF Rearm, Rearmed, p
        <3>. QED  BY <1>2, <1>3, <2>1, <3>1, InsertFacts
    <2>2. ASSUME ~repeat[p] PROVE <1>5!:
        <3>1. heap' = heap /\ popped' = popped
            BY <2>2 DEF Rearm, Rearmed, p
        <3>2. heap[p] \in Nat
            BY <1>2, <1>3
        <3>. QED  BY <1>2, <2>2, <3>1, <3>2
    <2>. QED  BY <2>1, <2>2
<1>6. left' \in [Addrs -> Nat]
    <2>1. left \in [Addrs -> Nat] /\ elapsed + interval[p] \in Nat
        <3>1. /\ left \in [Addrs -> Nat] /\ interval \in [Addrs -> Intervals \cup {0}]
              /\ elapsed \in 0..MaxElapsed /\ MaxElapsed \in Nat
            BY TimerAssumption DEF TickInv, TypeOK
        <3>2. interval[p] \in Intervals \cup {0}
            BY <1>3, <3>1
        <3>3. Intervals \cup {0} \subseteq Nat
            BY TimerAssumption
        <3>4. interval[p] \in Nat
            BY <3>2, <3>3
        <3>. QED  BY <3>1, <3>4
    <2>2. left' = left \/ left' = [left EXCEPT ![p] = elapsed + interval[p]]
        BY DEF Rearm, p
    <2>. QED  BY <2>1, <2>2
<1>7. TypeOK'
    BY <1>1, <1>3, <1>5, <1>6 DEF TickInv, TypeOK
<1>8. TimersAccounted'
    <2>1. ASSUME NEW q \in Addrs
          PROVE  Copies(q)' <= Owed(q)' /\ (repeat[q]' => Copies(q)' = Owed(q)')
        <3>1. /\ heap[q] \in Nat /\ InTemp(q) \in Nat /\ Copies(q) = heap[q] + InTemp(q)
              /\ Owed(q) \in Nat
              /\ Copies(q) <= Owed(q) /\ (repeat[q] => Copies(q) = Owed(q))
            BY <1>2, CountFacts DEF TickInv, TimersAccounted
        <3>2. Copies(q)' = heap'[q] + InTemp(q)' /\ heap'[q] \in Nat /\ InTemp(q)' \in Nat
            <4>1. InTemp(q)' \in Nat
                BY <1>3, SpotsFacts DEF InTemp, Spots
            <4>. QED  BY <1>5, <4>1 DEF Copies
        <3>3. Owed(q)' = Owed(q)
            BY <1>1 DEF Owed, Overtakers
        <3>4. Copies(q)' = IF q = p /\ ~repeat[q] THEN Copies(q) - 1 ELSE Copies(q)
            BY <1>4, <1>5, <3>1, <3>2
        <3>. QED  BY <1>1, <3>1, <3>3, <3>4
    <2>. QED  BY <2>1 DEF TimersAccounted
<1>9. Phases'
    <2>1. fresh = {}
        BY <1>1 DEF TickInv, Phases
    <2>. QED  BY <1>1, <2>1 DEF TickInv, Phases
<1>. QED  BY <1>7, <1>8, <1>9 DEF TickInv

\* tick() returns, and the time it took is subtracted from what is left.
LEMMA EndTickStep ==
    ASSUME TickInv, EndTick PROVE TickInv'
<1>1. /\ pc = "rearm" /\ temp = <<>> /\ pc' = "idle" /\ elapsed' = 0
      /\ left' = [p \in Addrs |-> IF left[p] > elapsed THEN left[p] - elapsed ELSE 0]
      /\ UNCHANGED <<heap, popped, registered, interval, repeat, rang, cur, temp,
                     fresh, overtook>>
    BY DEF EndTick, historyVars
<1>2. /\ TimersAccounted' /\ PQ!Held' = PQ!Held
      /\ \A p : Overtakers(p)' = Overtakers(p)
    BY <1>1, Untouched
<1>3. left' \in [Addrs -> Nat] /\ elapsed' \in 0..MaxElapsed
    BY <1>1, TimerAssumption DEF TickInv, TypeOK
<1>4. TypeOK'
    BY <1>1, <1>3 DEF TickInv, TypeOK
<1>5. Phases'
    BY <1>1, <1>2 DEF TickInv, Phases
<1>. QED  BY <1>2, <1>4, <1>5 DEF TickInv

\* The steps of tick() that leave the heap and temp alone.
LEMMA LoopSteps ==
    ASSUME TickInv, BeginTick \/ CallHandler \/ EndLoop PROVE TickInv'
<1>1. /\ UNCHANGED <<heap, popped, registered, left, interval, repeat, temp, elapsed,
                     fresh, overtook>>
      /\ rang' \in BOOLEAN
    BY DEF BeginTick, CallHandler, EndLoop, timerVars, historyVars, TickInv, TypeOK
<1>2. /\ TimersAccounted' /\ PQ!Held' = PQ!Held
      /\ \A p : Overtakers(p)' = Overtakers(p)
    BY <1>1, Untouched
<1>3. pc # "handler" /\ fresh = {} /\ cur = -1
    BY DEF BeginTick, CallHandler, EndLoop, TickInv, Phases
<1>4. ASSUME CallHandler PROVE TypeOK' /\ Phases'
    <2>1. PQ!Held # {} /\ cur' = Top /\ pc' = "handler"
        BY <1>4 DEF CallHandler, TopIsDue
    <2>2. cur' \in PQ!Held /\ \A q \in PQ!Held : PQ!Before(cur', q)
        BY <2>1, TopFacts
    <2>3. cur' \in Addrs /\ cur' # -1
        BY <2>2, TimerAssumption DEF PQ!Held
    <2>4. TypeOK'
        BY <1>1, <2>1, <2>3 DEF TickInv, TypeOK
    <2>5. Phases'
        BY <1>1, <1>2, <1>3, <2>1, <2>2, <2>3 DEF TickInv, Phases, PQ!Before
    <2>. QED  BY <2>4, <2>5
<1>5. ASSUME BeginTick \/ EndLoop PROVE TypeOK' /\ Phases'
    <2>1. pc \in {"idle", "tick"} /\ pc' \in {"idle", "tick", "rearm"} /\ cur' = cur
          /\ (pc' = "idle" => pc = "idle")
        BY <1>5 DEF BeginTick, EndLoop
    <2>2. TypeOK'
        BY <1>1, <2>1 DEF TickInv, TypeOK
    <2>3. Phases'
        BY <1>1, <1>2, <1>3, <2>1 DEF TickInv, Phases
    <2>. QED  BY <2>2, <2>3
<1>. QED  BY <1>2, <1>4, <1>5 DEF TickInv

\* Every step keeps the invariant.
LEMMA TickNext ==
    ASSUME TickInv, [Next]_vars PROVE TickInv'
<1>1. ASSUME Register PROVE TickInv'
    BY <1>1, RegisterStep DEF Register
<1>2. ASSUME RegisterInHandler PROVE TickInv'
    BY <1>2, RegisterStep DEF RegisterInHandler
<1>3. ASSUME UNCHANGED vars PROVE TickInv'
    <2>1. UNCHANGED <<heap, popped, registered, left, interval, repeat, rang, pc, cur, temp,
                      elapsed, fresh, overtook>>
        BY <1>3 DEF vars, timerVars, tickVars, historyVars
    <2>2. /\ TimersAccounted' /\ PQ!Held' = PQ!Held
          /\ \A p : Overtakers(p)' = Overtakers(p)
        BY <2>1, Untouched
    <2>3. TypeOK'
        BY <2>1 DEF TickInv, TypeOK
    <2>4. Phases'
        BY <2>1, <2>2 DEF TickInv, Phases, PQ!Before
    <2>. QED  BY <2>2, <2>3, <2>4 DEF TickInv
<1>. QED
    BY <1>1, <1>2, <1>3, ClockStep, PopTimerStep, RearmStep, EndTickStep, LoopSteps
    DEF Next, Tick

-----------------------------------------------------------------------------
\* The accounts of tick() and lazy_register_timer are kept, and while a handler runs
\* only what it registers itself comes before its timer.
THEOREM TickInvariant == Spec => []TickInv
<1>1. Init => TickInv
    BY TickInit
<1>2. TickInv /\ [Next]_vars => TickInv'
    BY TickNext
<1>. QED  BY <1>1, <1>2, PTL DEF Spec

\* Heap and temp hold every timer as often as they should: none is lost or doubled
\* but by a Pop that takes out another timer than the one called.
THEOREM TimersStayAccounted == Spec => []TimersAccounted
<1>1. TickInv => TimersAccounted
    BY DEF TickInv
<1>. QED  BY <1>1, TickInvariant, PTL

\* One tick calls a handler once, and again at most as often as Pop took out another
\* timer in the place of its own.
THEOREM CallsStayAccounted == Spec => []CallsAccounted
<1>1. TickInv => CallsAccounted
    <2> SUFFICES ASSUME TickInv, pc = "handler"
                 PROVE  InTemp(cur) <= Cardinality(Overtakers(cur))
        BY DEF CallsAccounted
    <2>1. cur \in Addrs /\ heap[cur] > 0
        BY DEF TickInv, Phases, PQ!Held
    <2>2. TypeOK /\ Copies(cur) <= Owed(cur)
        BY <2>1 DEF TickInv, TimersAccounted
    <2>3. /\ heap[cur] \in Nat /\ InTemp(cur) \in Nat /\ Copies(cur) = heap[cur] + InTemp(cur)
          /\ Cardinality(Overtakers(cur)) \in Nat
        BY <2>1, <2>2, CountFacts
    <2>4. Owed(cur) = 1 + Cardinality(Overtakers(cur))
        BY <2>1, HeldFacts DEF Owed
    <2>. QED  BY <2>1, <2>2, <2>3, <2>4
<1>. QED  BY <1>1, TickInvariant, PTL

\* Pop takes out the timer whose handler returned, or one that the handler registered
\* at a lower address.
THEOREM PopsTakeCurrentOrFresh == Spec => PopTakesCurrentOrFresh
<1> DEFINE Taken == popped' = cur \/ (popped' \in fresh /\ popped' < cur)
<1>1. TickInv /\ [Next]_vars => [pc = "handler" /\ pc' = "tick" => Taken]_vars
    <2> SUFFICES ASSUME TickInv, Next, pc = "handler", pc' = "tick" PROVE Taken
        OBVIOUS
    <2>1. PopTimer
        BY DEF Next, Tick, BeginTick, CallHandler, EndLoop, Rearm, EndTick, Register,
               RegisterInHandler, lazy_register_timer, Clock, tickVars
    <2>. QED  BY <2>1, PopFacts DEF PopTimer, HandlerReturned
<1>. QED  BY <1>1, TickInvariant, PTL DEF Spec, PopTakesCurrentOrFresh

\* As long as no handler registers a timer below its own one that is taken out, every
\* timer is in the heap or in temp at most once, and tick() calls it once.
THEOREM OrdinaryTimers ==
    Spec => []((\A p \in Addrs : overtook[p] = -1) =>
                   \A p \in registered :
                       /\ Copies(p) <= 1 /\ (repeat[p] => Copies(p) = 1)
                       /\ pc = "handler" /\ cur = p => InTemp(p) = 0)
<1> DEFINE Usual == (\A p \in Addrs : overtook[p] = -1) =>
                   \A p \in registered :
                       /\ Copies(p) <= 1 /\ (repeat[p] => Copies(p) = 1)
                       /\ pc = "handler" /\ cur = p => InTemp(p) = 0
<1>1. TickInv => Usual
    <2> SUFFICES ASSUME TickInv, \A p \in Addrs : overtook[p] = -1, NEW p \in registered
                 PROVE  /\ Copies(p) <= 1 /\ (repeat[p] => Copies(p) = 1)
                        /\ pc = "handler" /\ cur = p => InTemp(p) = 0
        OBVIOUS
    <2>1. p \in Addrs /\ TypeOK
        BY DEF TickInv, TypeOK
    <2>2. Overtakers(p) = {}
        BY <2>1, CountFacts DEF Overtakers
    <2>3. Owed(p) = 1
        BY <2>1, <2>2, FS_EmptySet DEF Owed
    <2>4. /\ heap[p] \in Nat /\ InTemp(p) \in Nat /\ Copies(p) = heap[p] + InTemp(p)
          /\ Copies(p) <= Owed(p) /\ (repeat[p] => Copies(p) = Owed(p))
        BY <2>1, CountFacts DEF TickInv, TimersAccounted
    <2>5. pc = "handler" /\ cur = p => heap[p] > 0
        BY DEF TickInv, Phases, PQ!Held
    <2>. QED  BY <2>3, <2>4, <2>5
<1>. QED  BY <1>1, TickInvariant, PTL
============================================================================

------------------------------ MODULE SeqFacts ------------------------------
(***************************************************************************)
(* Lemmas about sequences that the proofs share: what they contain, for    *)
(* the ready list, the backlog, the list of called timers and the lists of *)
(* Buffers; and what a sequence of sequences is when its parts are put one *)
(* behind the other (FlattenSeq), for the streams of units and for what a  *)
(* poll of the ready list selects.                                         *)
(*                                                                         *)
(* FlattenSeq is recursive. What is said of it for every length is shown   *)
(* with the least counterexample, or with a set of numbers that 0 is in    *)
(* and that is closed under + 1.                                           *)
(***************************************************************************)
EXTENDS Integers, Sequences, SequencesExt, SequenceTheorems, WellFoundedInduction,
        TLAPS

\* The elements of a sequence over S are in S.
LEMMA ToSetFacts ==
    ASSUME NEW S, NEW s \in Seq(S)
    PROVE  /\ ToSet(s) \subseteq S
           /\ \A x : x \in ToSet(s) <=> \E i \in 1..Len(s) : s[i] = x
           /\ ToSet(s) = {} <=> s = <<>>
BY DEF ToSet

\* A sequence over S is one over every larger set.
LEMMA SeqIn ==
    ASSUME NEW S, NEW T, S \subseteq T, NEW s \in Seq(S)
    PROVE  /\ s \in Seq(T) /\ Len(s) \in Nat /\ DOMAIN s = 1..Len(s)
           /\ \A i \in 1..Len(s) : s[i] \in S
OBVIOUS

\* Append adds one element at the end, and repeats none if it is new.
LEMMA AppendFacts ==
    ASSUME NEW S, NEW s \in Seq(S), NEW x \in S
    PROVE  /\ Append(s, x) \in Seq(S) /\ Append(s, x) # <<>>
           /\ Len(Append(s, x)) = Len(s) + 1
           /\ ToSet(Append(s, x)) = ToSet(s) \cup {x}
           /\ IsInjective(s) /\ x \notin ToSet(s) => IsInjective(Append(s, x))
<1>1. /\ Append(s, x) \in Seq(S) /\ Append(s, x) # <<>>
      /\ Len(Append(s, x)) = Len(s) + 1
      /\ \A i \in 1..Len(s) : Append(s, x)[i] = s[i]
      /\ Append(s, x)[Len(s) + 1] = x
    BY AppendProperties
<1>2. ToSet(Append(s, x)) = ToSet(s) \cup {x}
    BY <1>1 DEF ToSet
<1>3. IsInjective(s) /\ x \notin ToSet(s) => IsInjective(Append(s, x))
    BY <1>1 DEF ToSet, IsInjective
<1>. QED  BY <1>1, <1>2, <1>3

\* What is left after the first n elements are taken off.
LEMMA RestFacts ==
    ASSUME NEW S, NEW s \in Seq(S), NEW n \in 0..Len(s)
    PROVE  LET rest == SubSeq(s, n + 1, Len(s))
           IN  /\ rest \in Seq(S) /\ Len(rest) = Len(s) - n
               /\ \A i \in 1..Len(rest) : rest[i] = s[n + i]
               /\ ToSet(s) = ToSet(rest) \cup {s[i] : i \in 1..n}
               /\ IsInjective(s) => /\ IsInjective(rest)
                                    /\ \A i \in 1..n : s[i] \notin ToSet(rest)
<1> DEFINE rest == SubSeq(s, n + 1, Len(s))
<1>1. /\ rest \in Seq(S) /\ Len(rest) = Len(s) - n
      /\ \A i \in 1..Len(rest) : rest[i] = s[n + i]
    BY SubSeqProperties
<1> HIDE DEF rest
<1>2. ToSet(s) = ToSet(rest) \cup {s[i] : i \in 1..n}
    <2>1. \A i \in 1..Len(s) : i \in 1..n \/ (i - n \in 1..Len(rest) /\ s[i] = rest[i - n])
        BY <1>1
    <2>2. \A i \in 1..Len(rest) : i + n \in 1..Len(s) /\ rest[i] = s[i + n]
        BY <1>1
    <2>3. ASSUME NEW x
          PROVE  x \in ToSet(s) <=> x \in ToSet(rest) \/ \E i \in 1..n : s[i] = x
        <3>1. x \in ToSet(s) <=> \E i \in 1..Len(s) : s[i] = x
            BY ToSetFacts
        <3>2. x \in ToSet(rest) <=> \E i \in 1..Len(rest) : rest[i] = x
            BY <1>1, ToSetFacts
        <3>3. 1..n \subseteq 1..Len(s)
            OBVIOUS
        <3>. QED  BY <2>1, <2>2, <3>1, <3>2, <3>3
    <2>. QED  BY <2>3
<1>3. ASSUME IsInjective(s) PROVE IsInjective(rest)
    <2>1. ASSUME NEW i \in 1..Len(rest), NEW j \in 1..Len(rest), rest[i] = rest[j]
          PROVE  i = j
        <3>1. n + i \in DOMAIN s /\ n + j \in DOMAIN s /\ s[n + i] = s[n + j]
            BY <1>1, <2>1
        <3>2. n + i = n + j
            BY <1>3, <3>1 DEF IsInjective
        <3>. QED  BY <3>2
    <2>. QED  BY <1>1, <2>1 DEF IsInjective
<1>4. ASSUME IsInjective(s) PROVE \A i \in 1..n : s[i] \notin ToSet(rest)
    <2>1. ASSUME NEW i \in 1..n, NEW j \in 1..Len(rest), s[i] = rest[j]
          PROVE  FALSE
        <3>1. i \in DOMAIN s /\ n + j \in DOMAIN s /\ s[i] = s[n + j] /\ i # n + j
            BY <1>1, <2>1
        <3>. QED  BY <1>4, <3>1 DEF IsInjective
    <2>. QED  BY <1>1, <2>1, ToSetFacts
<1>. QED  BY <1>1, <1>2, <1>3, <1>4 DEF rest

\* The first element of a sequence and the others.
LEMMA TailFacts ==
    ASSUME NEW S, NEW s \in Seq(S), s # <<>>
    PROVE  /\ Head(s) \in S /\ Tail(s) \in Seq(S) /\ Len(Tail(s)) = Len(s) - 1
           /\ Head(s) \in ToSet(s)
           /\ ToSet(s) = ToSet(Tail(s)) \cup {Head(s)}
           /\ IsInjective(s) => IsInjective(Tail(s)) /\ Head(s) \notin ToSet(Tail(s))
<1>1. /\ Head(s) \in S /\ Tail(s) \in Seq(S) /\ Len(Tail(s)) = Len(s) - 1
      /\ 1 \in 1..Len(s) /\ Head(s) = s[1] /\ Len(s) \in Nat
      /\ \A i \in 1..Len(Tail(s)) : Tail(s)[i] = s[i + 1]
    OBVIOUS
<1>2. ToSet(s) = ToSet(Tail(s)) \cup {Head(s)}
    <2>1. \A i \in 1..Len(s) : i = 1 \/ (i - 1 \in 1..Len(Tail(s)) /\ s[i] = Tail(s)[i - 1])
        BY <1>1
    <2>2. \A i \in 1..Len(Tail(s)) : i + 1 \in 1..Len(s) /\ Tail(s)[i] = s[i + 1]
        BY <1>1
    <2>3. ASSUME NEW x
          PROVE  x \in ToSet(s) <=> x \in ToSet(Tail(s)) \/ x = Head(s)
        <3>1. x \in ToSet(s) <=> \E i \in 1..Len(s) : s[i] = x
            BY ToSetFacts
        <3>2. x \in ToSet(Tail(s)) <=> \E i \in 1..Len(Tail(s)) : Tail(s)[i] = x
            BY <1>1, ToSetFacts
        <3>. QED  BY <1>1, <2>1, <2>2, <3>1, <3>2
    <2>. QED  BY <2>3
<1>3. ASSUME IsInjective(s) PROVE IsInjective(Tail(s)) /\ Head(s) \notin ToSet(Tail(s))
    <2>1. DOMAIN s = 1..Len(s) /\ DOMAIN Tail(s) = 1..Len(Tail(s))
        BY <1>1
    <2>2. \A i, j \in 1..Len(Tail(s)) : Tail(s)[i] = Tail(s)[j] => i = j
        BY <1>1, <1>3, <2>1 DEF IsInjective
    <2>3. \A i \in 1..Len(Tail(s)) : Tail(s)[i] # Head(s)
        BY <1>1, <1>3, <2>1 DEF IsInjective
    <2>. QED  BY <1>1, <2>1, <2>2, <2>3, ToSetFacts DEF IsInjective
<1>. QED  BY <1>1, <1>2, <1>3

\* l is s with t behind it.
Joins(l, s, t) ==
    /\ Len(l) = Len(s) + Len(t)
    /\ \A i \in 1..Len(s) : l[i] = s[i]
    /\ \A i \in 1..Len(t) : l[Len(s) + i] = t[i]
    /\ ToSet(l) = ToSet(s) \cup ToSet(t)
    /\ IsInjective(l) <=> /\ IsInjective(s) /\ IsInjective(t)
                          /\ ToSet(s) \cap ToSet(t) = {}

\* What concatenation does to length, elements and injectivity.
LEMMA JoinFacts ==
    ASSUME NEW S, NEW s \in Seq(S), NEW t \in Seq(S)
    PROVE  s \o t \in Seq(S) /\ Joins(s \o t, s, t)
<1> DEFINE l == s \o t
           m == Len(s)
           n == Len(t)
<1>1. /\ l \in Seq(S) /\ Len(l) = m + n /\ m \in Nat /\ n \in Nat
      /\ \A i \in 1..m : l[i] = s[i]
      /\ \A i \in 1..n : l[m + i] = t[i]
    OBVIOUS
<1>2. /\ DOMAIN l = 1..(m + n) /\ DOMAIN s = 1..m /\ DOMAIN t = 1..n
    BY <1>1
<1>3. /\ \A x : x \in ToSet(l) <=> \E i \in 1..(m + n) : l[i] = x
      /\ \A x : x \in ToSet(s) <=> \E i \in 1..m : s[i] = x
      /\ \A x : x \in ToSet(t) <=> \E i \in 1..n : t[i] = x
    BY <1>2, Zenon DEF ToSet
<1> HIDE DEF l, m, n
<1>4. \A i \in 1..(m + n) : i \in 1..m \/ \E j \in 1..n : i = m + j
    <2>1. ASSUME NEW i \in 1..(m + n), i \notin 1..m PROVE \E j \in 1..n : i = m + j
        <3>1. i - m \in 1..n /\ i = m + (i - m)
            BY <1>1, <2>1
        <3>. QED  BY <3>1
    <2>. QED  BY <2>1
<1>5. (\A i \in 1..m : i \in 1..(m + n)) /\ (\A i \in 1..n : m + i \in 1..(m + n))
    BY <1>1
<1>6. ASSUME NEW x PROVE x \in ToSet(l) <=> x \in ToSet(s) \/ x \in ToSet(t)
    <2>1. ASSUME NEW i \in 1..(m + n), l[i] = x PROVE x \in ToSet(s) \/ x \in ToSet(t)
        <3>1. CASE i \in 1..m
            BY <1>1, <1>3, <2>1, <3>1, Zenon
        <3>2. ASSUME NEW j \in 1..n, i = m + j PROVE x \in ToSet(t)
            BY <1>1, <1>3, <2>1, <3>2, Zenon
        <3>. QED  BY <1>4, <3>1, <3>2, Zenon
    <2>2. ASSUME NEW i \in 1..m, s[i] = x PROVE x \in ToSet(l)
        BY <1>1, <1>3, <1>5, <2>2, Zenon
    <2>3. ASSUME NEW i \in 1..n, t[i] = x PROVE x \in ToSet(l)
        BY <1>1, <1>3, <1>5, <2>3, Zenon
    <2>. QED  BY <1>3, <2>1, <2>2, <2>3, Zenon
<1>7. ASSUME IsInjective(l)
      PROVE  IsInjective(s) /\ IsInjective(t) /\ ToSet(s) \cap ToSet(t) = {}
    <2>1. \A i, j \in 1..(m + n) : l[i] = l[j] => i = j
        BY <1>2, <1>7, Zenon DEF IsInjective
    <2>2. IsInjective(s)
        BY <1>1, <1>2, <1>5, <2>1, Zenon DEF IsInjective
    <2>3. ASSUME NEW i \in 1..n, NEW j \in 1..n, t[i] = t[j] PROVE i = j
        <3>1. m + i = m + j
            BY <1>1, <1>5, <2>1, <2>3, Zenon
        <3>. QED  BY <1>1, <3>1
    <2>4. ASSUME NEW i \in 1..m, NEW j \in 1..n PROVE s[i] # t[j]
        <3>1. i # m + j
            BY <1>1
        <3>. QED  BY <1>1, <1>5, <2>1, <3>1, Zenon
    <2>5. IsInjective(t)
        BY <1>2, <2>3, Zenon DEF IsInjective
    <2>6. ASSUME NEW x, x \in ToSet(s), x \in ToSet(t) PROVE FALSE
        <3>1. PICK i \in 1..m : s[i] = x
            BY <1>3, <2>6, Zenon
        <3>2. PICK j \in 1..n : t[j] = x
            BY <1>3, <2>6, Zenon
        <3>. QED  BY <2>4, <3>1, <3>2, Zenon
    <2>. QED  BY <2>2, <2>5, <2>6
<1>8. ASSUME IsInjective(s), IsInjective(t), ToSet(s) \cap ToSet(t) = {}
      PROVE  IsInjective(l)
    <2>1. \A i, j \in 1..m : s[i] = s[j] => i = j
        BY <1>2, <1>8, Zenon DEF IsInjective
    <2>2. \A i, j \in 1..n : t[i] = t[j] => i = j
        BY <1>2, <1>8, Zenon DEF IsInjective
    <2>3. \A i \in 1..m, j \in 1..n : s[i] # t[j]
        <3>1. \A x : ~(x \in ToSet(s) /\ x \in ToSet(t))
            BY <1>8
        <3>. QED  BY <1>3, <3>1, Zenon
    <2>4. ASSUME NEW i \in 1..(m + n), NEW j \in 1..(m + n), l[i] = l[j] PROVE i = j
        <3>1. CASE i \in 1..m /\ j \in 1..m
            BY <1>1, <2>1, <2>4, <3>1, Zenon
        <3>2. ASSUME NEW v \in 1..n, j = m + v, i \in 1..m PROVE FALSE
            BY <1>1, <2>3, <2>4, <3>2, Zenon
        <3>3. ASSUME NEW u \in 1..n, i = m + u, j \in 1..m PROVE FALSE
            BY <1>1, <2>3, <2>4, <3>3, Zenon
        <3>4. ASSUME NEW u \in 1..n, i = m + u, NEW v \in 1..n, j = m + v PROVE i = j
            <4>1. l[m + u] = t[u] /\ l[m + v] = t[v]
                BY <1>1
            <4>2. t[u] = t[v]
                BY <2>4, <3>4, <4>1, Zenon
            <4>3. u = v
                BY <2>2, <4>2, Zenon
            <4>. QED  BY <3>4, <4>3, Zenon
        <3>. QED  BY <1>4, <3>1, <3>2, <3>3, <3>4, Zenon
    <2>. QED  BY <1>2, <2>4, Zenon DEF IsInjective
<1>9. ToSet(l) = ToSet(s) \cup ToSet(t)
    BY <1>6
<1>10. Len(l) = Len(s) + Len(t) /\ (\A i \in 1..Len(s) : l[i] = s[i])
       /\ \A i \in 1..Len(t) : l[Len(s) + i] = t[i]
    BY <1>1, Zenon DEF m, n
<1>11. Joins(l, s, t)
    BY <1>7, <1>8, <1>9, <1>10, Zenon DEF Joins
<1>. QED  BY <1>1, <1>11 DEF l

\* A sequence is its first n elements with the others behind them.
IsCut(s, first, rest) == s = first \o rest

\* Every position cuts a sequence into such parts.
LEMMA CutFacts ==
    ASSUME NEW S, NEW s \in Seq(S), NEW n \in 0..Len(s)
    PROVE  IsCut(s, SubSeq(s, 1, n), SubSeq(s, n + 1, Len(s)))
<1> DEFINE a == SubSeq(s, 1, n)
           z == SubSeq(s, n + 1, Len(s))
           l == a \o z
<1>1. a \in Seq(S) /\ Len(a) = n /\ \A i \in 1..n : a[i] = s[i]
    OBVIOUS
<1>2. z \in Seq(S) /\ Len(z) = Len(s) - n /\ \A i \in 1..Len(z) : z[i] = s[n + i]
    BY RestFacts
<1>3. Len(s) \in Nat /\ n \in Nat
    OBVIOUS
<1> HIDE DEF a, z
<1>4. l \in Seq(S) /\ Joins(l, a, z)
    BY <1>1, <1>2, JoinFacts
<1> HIDE DEF l
<1>5. /\ Len(l) = Len(a) + Len(z) /\ \A i \in 1..Len(a) : l[i] = a[i]
      /\ \A i \in 1..Len(z) : l[Len(a) + i] = z[i]
    BY <1>4, Zenon DEF Joins
<1>6. ASSUME NEW i \in 1..Len(s) PROVE l[i] = s[i]
    <2>1. CASE i <= n
        BY <1>1, <1>3, <1>5, <2>1
    <2>2. CASE ~(i <= n)
        <3> DEFINE j == i - n
        <3>1. j \in 1..Len(z) /\ n + j = i
            BY <1>2, <1>3, <2>2
        <3> HIDE DEF j
        <3>. QED  BY <1>1, <1>2, <1>5, <3>1, Zenon
    <2>. QED  BY <2>1, <2>2
<1>7. s = l
    BY <1>1, <1>2, <1>3, <1>4, <1>5, <1>6, SeqEqual
<1>. QED  BY <1>7, Zenon DEF IsCut, l, a, z

-----------------------------------------------------------------------------
\* A set of numbers that is not empty has a least one.
LEMMA LeastFact ==
    ASSUME NEW T \in SUBSET Nat, T # {}
    PROVE  \E m \in T : \A n \in T : m <= n
<1>1. PICK m \in T : \A n \in T : ~(<<n, m>> \in OpToRel(<, Nat))
    BY NatLessThanWellFounded, WFMin
<1>2. \A n \in T : ~(n < m)
    BY <1>1 DEF OpToRel
<1>. QED  BY <1>2

\* g[i] is what the first i sequences of ss are, one behind the other.
Flattens(g, ss) ==
    g = [i \in 1..Len(ss) |-> IF i = 1 THEN ss[i] ELSE g[i - 1] \o ss[i]]

\* Only one function flattens a sequence.
LEMMA FlattensOne ==
    ASSUME NEW ss, Len(ss) \in Nat, NEW g, Flattens(g, ss), NEW h, Flattens(h, ss)
    PROVE  \A n \in 1..Len(ss) : g[n] = h[n]
<1> DEFINE Bad == {i \in 1..Len(ss) : g[i] # h[i]}
<1>1. SUFFICES ASSUME Bad # {} PROVE FALSE
    OBVIOUS
<1>0. /\ \A i \in 1..Len(ss) : g[i] = IF i = 1 THEN ss[i] ELSE g[i - 1] \o ss[i]
      /\ \A i \in 1..Len(ss) : h[i] = IF i = 1 THEN ss[i] ELSE h[i - 1] \o ss[i]
    BY DEF Flattens
<1>2. PICK m \in Bad : \A i \in Bad : m <= i
    <2>1. Bad \in SUBSET Nat
        OBVIOUS
    <2>. QED  BY <1>1, <2>1, LeastFact, Zenon
<1>3. CASE m = 1
    BY <1>0, <1>3
<1>4. CASE m # 1
    <2>1. m \in 1..Len(ss) /\ m - 1 \in 1..Len(ss) /\ m - 1 \notin Bad
        BY <1>2, <1>4
    <2>2. g[m - 1] = h[m - 1]
        BY <2>1
    <2>. QED  BY <1>0, <1>4, <2>1, <2>2
<1>. QED  BY <1>3, <1>4

\* There is such a function.
FlattensTo(n, g, ss) ==
    g = [i \in 1..n |-> IF i = 1 THEN ss[i] ELSE g[i - 1] \o ss[i]]

\* Some function flattens a sequence: else there is a shortest part none does.
LEMMA FlattensExists ==
    ASSUME NEW S, NEW ss \in Seq(Seq(S))
    PROVE  \E g \in [1..Len(ss) -> Seq(S)] : Flattens(g, ss)
<1> DEFINE Bad == {n \in 0..Len(ss) : ~\E g \in [1..n -> Seq(S)] : FlattensTo(n, g, ss)}
<1>0. Len(ss) \in Nat /\ Len(ss) \in 0..Len(ss)
    OBVIOUS
<1>1. SUFFICES ASSUME Bad # {} PROVE FALSE
    <2>1. ASSUME Bad = {} PROVE \E g \in [1..Len(ss) -> Seq(S)] : FlattensTo(Len(ss), g, ss)
        BY <1>0, <2>1, Zenon
    <2>. QED  BY <2>1, Zenon DEF Flattens, FlattensTo
<1>2. PICK m \in Bad : \A n \in Bad : m <= n
    <2>1. Bad \in SUBSET Nat
        OBVIOUS
    <2>. QED  BY <1>1, <2>1, LeastFact, Zenon
<1>3. m # 0
    <2>1. <<>> \in [1..0 -> Seq(S)] /\ FlattensTo(0, <<>>, ss)
        BY DEF FlattensTo
    <2>. QED  BY <1>2, <2>1, Zenon
<1> DEFINE l == m - 1
<1>4. m \in 1..Len(ss) /\ l \in 0..Len(ss) /\ l \notin Bad /\ ss[m] \in Seq(S)
    <2>1. m \in 0..Len(ss) /\ m # 0
        BY <1>3
    <2>2. m \in 1..Len(ss) /\ l \in 0..Len(ss) /\ ~(m <= l)
        BY <2>1, <1>0
    <2>3. ss[m] \in Seq(S)
        BY <2>2
    <2> HIDE DEF l
    <2>. QED  BY <1>2, <2>2, <2>3, Zenon
<1>5. PICK g \in [1..l -> Seq(S)] : FlattensTo(l, g, ss)
    BY <1>4, Zenon
<1> DEFINE x == IF m = 1 THEN ss[1] ELSE g[l] \o ss[m]
           h == [i \in 1..m |-> IF i < m THEN g[i] ELSE x]
<1>6. x \in Seq(S)
    BY <1>4, <1>5
<1>7. h \in [1..m -> Seq(S)]
    <2> HIDE DEF x
    <2>. QED  BY <1>4, <1>5, <1>6
<1>8. ASSUME NEW i \in 1..m PROVE h[i] = IF i = 1 THEN ss[i] ELSE h[i - 1] \o ss[i]
    <2>1. CASE i = m
        BY <2>1, <1>4
    <2>2. CASE i < m
        <3>1. \A j \in 1..l : g[j] = IF j = 1 THEN ss[j] ELSE g[j - 1] \o ss[j]
            BY <1>5 DEF FlattensTo
        <3>2. h[i] = g[i] /\ i \in 1..l /\ (i # 1 => h[i - 1] = g[i - 1])
            BY <2>2, <1>4
        <3>. QED  BY <3>1, <3>2
    <2>. QED  BY <2>1, <2>2, <1>4
<1>9. FlattensTo(m, h, ss)
    <2>1. h = [i \in 1..m |-> h[i]]
        OBVIOUS
    <2> HIDE DEF h
    <2>. QED  BY <2>1, <1>8 DEF FlattensTo
<1> HIDE DEF h
<1>. QED  BY <1>2, <1>7, <1>9, Zenon

\* Whoever flattens ss computes FlattenSeq(ss).
LEMMA FlattenFacts ==
    ASSUME NEW S, NEW ss \in Seq(Seq(S)), NEW h, Flattens(h, ss)
    PROVE  FlattenSeq(ss) = IF ss = <<>> THEN <<>> ELSE h[Len(ss)]
<1>1. CASE ss = <<>>
    BY <1>1 DEF FlattenSeq
<1>2. CASE ss # <<>>
    <2>1. Len(ss) \in Nat /\ Len(ss) # 0 /\ Len(ss) \in 1..Len(ss)
        BY <1>2
    <2>3. PICK g : /\ g = [i \in 1..Len(ss) |-> IF i = 1 THEN ss[i] ELSE g[i - 1] \o ss[i]]
                   /\ FlattenSeq(ss) = g[Len(ss)]
        BY <2>1, Zenon DEF FlattenSeq, Flattens
    <2>4. Flattens(g, ss)
        BY <2>3, Zenon DEF Flattens
    <2>5. g[Len(ss)] = h[Len(ss)]
        BY <2>1, <2>4, FlattensOne, Zenon
    <2>. QED  BY <1>2, <2>3, <2>5, Zenon
<1>. QED  BY <1>1, <1>2

\* What flattening gives is a sequence of the elements, and flattening with one
\* more sequence puts that sequence behind it.
LEMMA FlattenAppend ==
    ASSUME NEW S
    PROVE  /\ FlattenSeq(<<>>) = <<>>
           /\ \A ss \in Seq(Seq(S)) : FlattenSeq(ss) \in Seq(S)
           /\ \A ss \in Seq(Seq(S)), x \in Seq(S) :
                 FlattenSeq(Append(ss, x)) = FlattenSeq(ss) \o x
<1>1. FlattenSeq(<<>>) = <<>>
    BY DEF FlattenSeq
<1>2. ASSUME NEW ss \in Seq(Seq(S)) PROVE FlattenSeq(ss) \in Seq(S)
    <2>1. PICK g \in [1..Len(ss) -> Seq(S)] : Flattens(g, ss)
        BY FlattensExists
    <2>2. FlattenSeq(ss) = IF ss = <<>> THEN <<>> ELSE g[Len(ss)]
        BY <2>1, FlattenFacts, Zenon
    <2>3. ss # <<>> => Len(ss) \in 1..Len(ss)
        OBVIOUS
    <2>. QED  BY <2>2, <2>3
<1>3. ASSUME NEW ss \in Seq(Seq(S)), NEW x \in Seq(S)
      PROVE  FlattenSeq(Append(ss, x)) = FlattenSeq(ss) \o x
    <2> DEFINE tt == Append(ss, x)
    <2>1. /\ tt \in Seq(Seq(S)) /\ tt # <<>> /\ Len(tt) = Len(ss) + 1 /\ Len(ss) \in Nat
          /\ \A i \in 1..Len(ss) : tt[i] = ss[i]
          /\ tt[Len(ss) + 1] = x
        BY AppendProperties
    <2> HIDE DEF tt
    <2>2. PICK g \in [1..Len(tt) -> Seq(S)] : Flattens(g, tt)
        BY <2>1, FlattensExists
    <2>3. \A i \in 1..Len(tt) : g[i] = IF i = 1 THEN tt[i] ELSE g[i - 1] \o tt[i]
        BY <2>2 DEF Flattens
    <2>4. FlattenSeq(tt) = g[Len(ss) + 1]
        <3>1. FlattenSeq(tt) = g[Len(tt)]
            BY <2>1, <2>2, FlattenFacts, Zenon
        <3>. QED  BY <2>1, <3>1
    <2> DEFINE h == [i \in 1..Len(ss) |-> g[i]]
    <2>5. Flattens(h, ss)
        <3>1. ASSUME NEW i \in 1..Len(ss)
              PROVE  h[i] = IF i = 1 THEN ss[i] ELSE h[i - 1] \o ss[i]
            <4>1. i \in 1..Len(tt) /\ tt[i] = ss[i] /\ h[i] = g[i]
                BY <2>1
            <4>2. i # 1 => h[i - 1] = g[i - 1]
                BY <2>1
            <4>. QED  BY <2>3, <4>1, <4>2
        <3>2. h = [i \in 1..Len(ss) |-> h[i]]
            OBVIOUS
        <3> HIDE DEF h
        <3>. QED  BY <3>1, <3>2 DEF Flattens
    <2>6. FlattenSeq(ss) = IF ss = <<>> THEN <<>> ELSE h[Len(ss)]
        BY <2>5, FlattenFacts, Zenon
    <2>7. CASE ss = <<>>
        <3>1. g[Len(ss) + 1] = x
            BY <2>1, <2>3, <2>7
        <3>2. <<>> \o x = x
            OBVIOUS
        <3>. QED  BY <2>4, <2>6, <2>7, <3>1, <3>2, Zenon DEF tt
    <2>8. CASE ss # <<>>
        <3>1. g[Len(ss) + 1] = g[Len(ss)] \o x /\ h[Len(ss)] = g[Len(ss)]
            <4> DEFINE l == Len(ss)
            <4>1. l \in 1..Len(ss) /\ l + 1 \in 1..Len(tt) /\ l + 1 # 1 /\ (l + 1) - 1 = l
                BY <2>1, <2>8
            <4>2. tt[l + 1] = x /\ h[l] = g[l]
                BY <2>1, <4>1
            <4> HIDE DEF l, h
            <4>3. g[l + 1] = g[l] \o tt[l + 1]
                BY <2>3, <4>1
            <4>. QED  BY <4>2, <4>3 DEF l
        <3>. QED  BY <2>4, <2>6, <2>8, <3>1, Zenon DEF tt
    <2>. QED  BY <2>7, <2>8
<1>. QED  BY <1>1, <1>2, <1>3

\* A set that has 0, and with a number the next one, has every number.
LEMMA SetInduction ==
    ASSUME NEW T, 0 \in T, \A n \in Nat : n \in T => n + 1 \in T
    PROVE  Nat \subseteq T
<1> DEFINE Bad == Nat \ T
<1>1. SUFFICES ASSUME Bad # {} PROVE FALSE
    OBVIOUS
<1>2. PICK m \in Bad : \A n \in Bad : m <= n
    <2>1. Bad \in SUBSET Nat
        OBVIOUS
    <2>. QED  BY <1>1, <2>1, LeastFact, Zenon
<1>3. m - 1 \in Nat /\ m - 1 \notin Bad
    BY <1>2
<1>. QED  BY <1>2, <1>3

\* The first i of a sequence and the next one.
LEMMA FirstFacts ==
    ASSUME NEW S, NEW s \in Seq(S), NEW i \in 0..(Len(s) - 1)
    PROVE  /\ SubSeq(s, 1, i) \in Seq(S) /\ s[i + 1] \in S
           /\ SubSeq(s, 1, i + 1) = Append(SubSeq(s, 1, i), s[i + 1])
OBVIOUS

\* Append and concatenation.
LEMMA ConcatAppend ==
    ASSUME NEW S, NEW s \in Seq(S), NEW t \in Seq(S), NEW x \in S
    PROVE  s \o t \in Seq(S) /\ s \o Append(t, x) = Append(s \o t, x)
OBVIOUS

\* Concatenation is associative (under a name, for the provers).
Associates(s, t, u) == (s \o t) \o u = s \o (t \o u)

\* Concatenation is associative.
LEMMA ConcatAssociates ==
    ASSUME NEW S, NEW s \in Seq(S), NEW t \in Seq(S), NEW u \in Seq(S)
    PROVE  Associates(s, t, u)
BY ConcatAssociative DEF Associates

\* Flattening distributes over concatenation.
LEMMA FlattenConcatOne ==
    ASSUME NEW S, NEW ss \in Seq(Seq(S)), NEW tt \in Seq(Seq(S)), NEW x \in Seq(S)
    PROVE  FlattenSeq(ss \o tt) = FlattenSeq(ss) \o FlattenSeq(tt) =>
           FlattenSeq(ss \o Append(tt, x)) = FlattenSeq(ss) \o FlattenSeq(Append(tt, x))
<1>0. ss \o tt \in Seq(Seq(S)) /\ ss \o Append(tt, x) = Append(ss \o tt, x)
    <2> DEFINE SS == Seq(S)
    <2>1. ss \in Seq(SS) /\ tt \in Seq(SS) /\ x \in SS
        OBVIOUS
    <2> HIDE DEF SS
    <2>2. ss \o tt \in Seq(SS) /\ ss \o Append(tt, x) = Append(ss \o tt, x)
        BY <2>1, ConcatAppend
    <2>. QED  BY <2>2 DEF SS
<1> DEFINE f == FlattenSeq(ss)
           g == FlattenSeq(tt)
<1>1. f \in Seq(S) /\ g \in Seq(S) /\ FlattenSeq(Append(tt, x)) = g \o x
    BY FlattenAppend, Zenon
<1>2. FlattenSeq(Append(ss \o tt, x)) = FlattenSeq(ss \o tt) \o x
    BY <1>0, FlattenAppend, Zenon
<1> HIDE DEF f, g
<1>3. Associates(f, g, x)
    BY <1>1, ConcatAssociates
<1> HAVE FlattenSeq(ss \o tt) = FlattenSeq(ss) \o FlattenSeq(tt)
<1>. QED  BY <1>0, <1>1, <1>2, <1>3, Zenon DEF f, g, Associates

\* By induction on the second sequence.
LEMMA FlattenConcat ==
    ASSUME NEW S, NEW ss \in Seq(Seq(S)), NEW tt \in Seq(Seq(S))
    PROVE  FlattenSeq(ss \o tt) = FlattenSeq(ss) \o FlattenSeq(tt)
<1> DEFINE T == {n \in Nat : n <= Len(tt) =>
                   FlattenSeq(ss \o SubSeq(tt, 1, n))
                       = FlattenSeq(ss) \o FlattenSeq(SubSeq(tt, 1, n))}
<1>0. FlattenSeq(ss) \in Seq(S)
    BY FlattenAppend
<1>1. 0 \in T
    <2>1. SubSeq(tt, 1, 0) = <<>> /\ ss \o <<>> = ss /\ FlattenSeq(ss) \o <<>> = FlattenSeq(ss)
        BY <1>0
    <2>2. FlattenSeq(<<>>) = <<>>
        BY FlattenAppend, Zenon
    <2>. QED  BY <2>1, <2>2
<1>2. ASSUME NEW n \in Nat, n \in T PROVE n + 1 \in T
    <2>1. SUFFICES ASSUME n + 1 <= Len(tt)
                   PROVE  FlattenSeq(ss \o SubSeq(tt, 1, n + 1))
                              = FlattenSeq(ss) \o FlattenSeq(SubSeq(tt, 1, n + 1))
        OBVIOUS
    <2> DEFINE pre == SubSeq(tt, 1, n)
               x == tt[n + 1]
    <2>2. pre \in Seq(Seq(S)) /\ x \in Seq(S) /\ SubSeq(tt, 1, n + 1) = Append(pre, x)
        <3>1. n \in 0..(Len(tt) - 1)
            BY <2>1
        <3>. QED  BY <3>1, FirstFacts, Zenon
    <2>3. FlattenSeq(ss \o pre) = FlattenSeq(ss) \o FlattenSeq(pre)
        BY <1>2, <2>1
    <2> HIDE DEF pre, x
    <2>4. FlattenSeq(ss \o Append(pre, x)) = FlattenSeq(ss) \o FlattenSeq(Append(pre, x))
        BY <2>2, <2>3, FlattenConcatOne, Zenon
    <2>. QED  BY <2>2, <2>4, Zenon
<1>3. Nat \subseteq T
    <2> HIDE DEF T
    <2>. QED  BY <1>1, <1>2, SetInduction, Zenon
<1>4. Len(tt) \in T /\ SubSeq(tt, 1, Len(tt)) = tt
    BY <1>3
<1>5. Len(tt) \in Nat /\ Len(tt) <= Len(tt)
    OBVIOUS
<1>6. FlattenSeq(ss \o SubSeq(tt, 1, Len(tt)))
          = FlattenSeq(ss) \o FlattenSeq(SubSeq(tt, 1, Len(tt)))
    <2>1. Len(tt) \in T
        BY <1>4
    <2>. QED  BY <2>1, <1>5, Zenon
<1>. QED  BY <1>4, <1>6, Zenon

\* Flattening starts with the first sequence, and the last one can be taken off.
LEMMA FlattenHead ==
    ASSUME NEW S, NEW ss \in Seq(Seq(S)), ss # <<>>
    PROVE  FlattenSeq(ss) = Head(ss) \o FlattenSeq(Tail(ss))
<1>1. /\ Head(ss) \in Seq(S) /\ Tail(ss) \in Seq(Seq(S)) /\ <<>> \in Seq(Seq(S))
      /\ <<Head(ss)>> \in Seq(Seq(S)) /\ ss = <<Head(ss)>> \o Tail(ss)
      /\ <<Head(ss)>> = Append(<<>>, Head(ss))
    OBVIOUS
<1>2. FlattenSeq(<<Head(ss)>>) = <<>> \o Head(ss)
    BY <1>1, FlattenAppend, Zenon
<1>3. <<>> \o Head(ss) = Head(ss)
    BY <1>1
<1>. QED  BY <1>1, <1>2, <1>3, FlattenConcat, Zenon

\* tt is ss with x behind its last sequence.
ExtendsLast(tt, ss, x) ==
    /\ ss # <<>> /\ Len(tt) = Len(ss) /\ tt[Len(ss)] = ss[Len(ss)] \o x
    /\ \A i \in 1..(Len(ss) - 1) : tt[i] = ss[i]

EndsIn(ss, pre, x) == ss = Append(pre, x)

\* Two sequences that differ in the last element only have the others in common.
LEMMA ExtendsLastFacts ==
    ASSUME NEW S, NEW ss \in Seq(Seq(S)), NEW tt \in Seq(Seq(S)), NEW x \in Seq(S),
           ExtendsLast(tt, ss, x)
    PROVE  \E pre \in Seq(Seq(S)), y \in Seq(S) :
               EndsIn(ss, pre, y) /\ EndsIn(tt, pre, y \o x)
<1> DEFINE l == Len(ss) - 1
           pre == SubSeq(ss, 1, l)
           y == ss[Len(ss)]
           z == y \o x
<1>1. l \in Nat /\ Len(ss) = l + 1 /\ Len(tt) = l + 1
    BY DEF ExtendsLast
<1>2. pre \in Seq(Seq(S)) /\ Len(pre) = l /\ \A i \in 1..l : pre[i] = ss[i]
    BY <1>1
<1>3. y \in Seq(S) /\ z \in Seq(S)
    BY <1>1
<1>4. tt[l + 1] = z /\ ss[l + 1] = y /\ \A i \in 1..l : tt[i] = ss[i]
    BY <1>1 DEF ExtendsLast
<1> HIDE DEF l, pre, y, z
<1>5. /\ Append(pre, y) \in Seq(Seq(S)) /\ Len(Append(pre, y)) = l + 1
      /\ \A i \in 1..l : Append(pre, y)[i] = ss[i]
      /\ Append(pre, y)[l + 1] = y
    BY <1>1, <1>2, <1>3, <1>4
<1>6. /\ Append(pre, z) \in Seq(Seq(S)) /\ Len(Append(pre, z)) = l + 1
      /\ \A i \in 1..l : Append(pre, z)[i] = tt[i]
      /\ Append(pre, z)[l + 1] = z
    BY <1>1, <1>2, <1>3, <1>4
<1>7. EndsIn(ss, pre, y)
    BY <1>1, <1>4, <1>5, SeqEqual DEF EndsIn
<1>8. EndsIn(tt, pre, z)
    BY <1>1, <1>4, <1>6, SeqEqual DEF EndsIn
<1>. QED  BY <1>2, <1>3, <1>7, <1>8 DEF z

\* What is put behind the last element comes last.
LEMMA FlattenSplit ==
    ASSUME NEW S, NEW ss \in Seq(Seq(S)), NEW tt \in Seq(Seq(S)),
           NEW pre \in Seq(Seq(S)), NEW y \in Seq(S), NEW x \in Seq(S),
           EndsIn(ss, pre, y), EndsIn(tt, pre, y \o x)
    PROVE  FlattenSeq(tt) = FlattenSeq(ss) \o x
<1> DEFINE f == FlattenSeq(pre)
<1>1. y \o x \in Seq(S) /\ f \in Seq(S)
    BY FlattenAppend
<1>2. FlattenSeq(Append(pre, y)) = f \o y /\ FlattenSeq(Append(pre, y \o x)) = f \o (y \o x)
    BY <1>1, FlattenAppend, Zenon
<1>3. FlattenSeq(ss) = f \o y /\ FlattenSeq(tt) = f \o (y \o x)
    BY <1>2, Zenon DEF EndsIn
<1> HIDE DEF f
<1>4. Associates(f, y, x)
    BY <1>1, ConcatAssociates
<1>. QED  BY <1>3, <1>4, Zenon DEF Associates

\* The same, without the parts being named.
LEMMA FlattenLast ==
    ASSUME NEW S, NEW ss \in Seq(Seq(S)), NEW tt \in Seq(Seq(S)), NEW x \in Seq(S),
           ExtendsLast(tt, ss, x)
    PROVE  FlattenSeq(tt) = FlattenSeq(ss) \o x
BY ExtendsLastFacts, FlattenSplit

\* Of sequences that are empty but for one, that one is left.
LEMMA FlattenOnly ==
    ASSUME NEW S, NEW ss \in Seq(Seq(S))
    PROVE  /\ (\A i \in 1..Len(ss) : ss[i] = <<>>) => FlattenSeq(ss) = <<>>
           /\ \A j \in 1..Len(ss) :
                  (\A i \in 1..Len(ss) : i # j => ss[i] = <<>>) => FlattenSeq(ss) = ss[j]
<1>1. ASSUME \A i \in 1..Len(ss) : ss[i] = <<>> PROVE FlattenSeq(ss) = <<>>
    <2> DEFINE g == [i \in 1..Len(ss) |-> <<>>]
    <2>1. Flattens(g, ss)
        <3>1. ASSUME NEW i \in 1..Len(ss)
              PROVE  g[i] = IF i = 1 THEN ss[i] ELSE g[i - 1] \o ss[i]
            <4>1. ss[i] = <<>> /\ g[i] = <<>> /\ (i # 1 => g[i - 1] = <<>>)
                BY <1>1
            <4>2. <<>> \o <<>> = <<>>
                OBVIOUS
            <4>. QED  BY <4>1, <4>2, Zenon
        <3>2. g = [i \in 1..Len(ss) |-> g[i]]
            OBVIOUS
        <3> HIDE DEF g
        <3>. QED  BY <3>1, <3>2 DEF Flattens
    <2> HIDE DEF g
    <2>2. FlattenSeq(ss) = IF ss = <<>> THEN <<>> ELSE g[Len(ss)]
        BY <2>1, FlattenFacts, Zenon
    <2>3. ss # <<>> => g[Len(ss)] = <<>>
        BY DEF g
    <2>. QED  BY <2>2, <2>3, Zenon
<1>2. ASSUME NEW j \in 1..Len(ss), \A i \in 1..Len(ss) : i # j => ss[i] = <<>>
      PROVE  FlattenSeq(ss) = ss[j]
    <2> DEFINE g == [i \in 1..Len(ss) |-> IF i < j THEN <<>> ELSE ss[j]]
    <2>0. ss[j] \in Seq(S)
        OBVIOUS
    <2>1. Flattens(g, ss)
        <3>1. ASSUME NEW i \in 1..Len(ss)
              PROVE  g[i] = IF i = 1 THEN ss[i] ELSE g[i - 1] \o ss[i]
            <4>1. CASE i < j
                <5>1. ss[i] = <<>> /\ g[i] = <<>> /\ (i # 1 => g[i - 1] = <<>>)
                    BY <1>2, <4>1
                <5>. QED  BY <5>1
            <4>2. CASE i = j
                <5>1. g[i] = ss[i] /\ (i # 1 => g[i - 1] = <<>>) /\ ss[i] \in Seq(S)
                    BY <2>0, <4>2
                <5>2. <<>> \o ss[i] = ss[i]
                    BY <5>1
                <5>. QED  BY <5>1, <5>2, Zenon
            <4>3. CASE i > j
                <5>1. ss[i] = <<>> /\ g[i] = ss[j] /\ i # 1 /\ g[i - 1] = ss[j]
                    BY <1>2, <4>3
                <5> HIDE DEF g
                <5>. QED  BY <2>0, <5>1
            <4>. QED  BY <4>1, <4>2, <4>3
        <3>2. g = [i \in 1..Len(ss) |-> g[i]]
            OBVIOUS
        <3> HIDE DEF g
        <3>. QED  BY <3>1, <3>2 DEF Flattens
    <2>2. ss # <<>> /\ g[Len(ss)] = ss[j]
        OBVIOUS
    <2> HIDE DEF g
    <2>. QED  BY <2>1, <2>2, FlattenFacts, Zenon
<1>. QED  BY <1>1, <1>2

\* The first n + 1 sequences flattened.
LEMMA FlattenPrefix ==
    ASSUME NEW S, NEW ss \in Seq(Seq(S)), NEW n \in 0..(Len(ss) - 1)
    PROVE  /\ FlattenSeq(SubSeq(ss, 1, n)) \in Seq(S) /\ ss[n + 1] \in Seq(S)
           /\ FlattenSeq(SubSeq(ss, 1, n + 1)) = FlattenSeq(SubSeq(ss, 1, n)) \o ss[n + 1]
<1> DEFINE pre == SubSeq(ss, 1, n)
           x == ss[n + 1]
<1>1. pre \in Seq(Seq(S)) /\ x \in Seq(S) /\ SubSeq(ss, 1, n + 1) = Append(pre, x)
    BY FirstFacts, Zenon
<1> HIDE DEF pre, x
<1>2. FlattenSeq(pre) \in Seq(S) /\ FlattenSeq(Append(pre, x)) = FlattenSeq(pre) \o x
    BY <1>1, FlattenAppend, Zenon
<1>. QED  BY <1>1, <1>2, Zenon DEF pre, x

-----------------------------------------------------------------------------
\* p is what is left of s when some of its elements are left out.
Thinned(p, s) ==
    \E e \in [1..Len(p) -> 1..Len(s)] :
        /\ \A i \in 1..Len(p) : p[i] = s[e[i]]
        /\ \A i, j \in 1..Len(p) : i < j => e[i] < e[j]

\* The first elements of a sequence are what is left when the others are left out,
\* and leaving none out changes nothing.
LEMMA ThinnedPrefix ==
    ASSUME NEW S, NEW s \in Seq(S)
    PROVE  /\ \A n \in 0..Len(s) : Thinned(SubSeq(s, 1, n), s)
           /\ Thinned(s, s)
<1>1. ASSUME NEW n \in 0..Len(s) PROVE Thinned(SubSeq(s, 1, n), s)
    <2> DEFINE p == SubSeq(s, 1, n)
               e == [i \in 1..n |-> i]
    <2>1. Len(p) = n /\ \A i \in 1..n : p[i] = s[i]
        OBVIOUS
    <2>2. e \in [1..n -> 1..Len(s)] /\ \A i \in 1..n : e[i] = i
        OBVIOUS
    <2> HIDE DEF p, e
    <2>3. /\ e \in [1..Len(p) -> 1..Len(s)]
          /\ \A i \in 1..Len(p) : p[i] = s[e[i]]
          /\ \A i, j \in 1..Len(p) : i < j => e[i] < e[j]
        BY <2>1, <2>2
    <2>4. Thinned(p, s)
        BY <2>3 DEF Thinned
    <2>. QED  BY <2>4 DEF p
<1>2. Len(s) \in 0..Len(s) /\ SubSeq(s, 1, Len(s)) = s
    OBVIOUS
<1>. QED  BY <1>1, <1>2

\* It may be done piece by piece.
LEMMA ThinnedConcat ==
    ASSUME NEW S, NEW s \in Seq(S), NEW t \in Seq(S), NEW p \in Seq(S), NEW q \in Seq(S),
           Thinned(p, s), Thinned(q, t)
    PROVE  Thinned(p \o q, s \o t)
<1>1. PICK e \in [1..Len(p) -> 1..Len(s)] :
          /\ \A i \in 1..Len(p) : p[i] = s[e[i]]
          /\ \A i, j \in 1..Len(p) : i < j => e[i] < e[j]
    BY Zenon DEF Thinned
<1>2. PICK f \in [1..Len(q) -> 1..Len(t)] :
          /\ \A i \in 1..Len(q) : q[i] = t[f[i]]
          /\ \A i, j \in 1..Len(q) : i < j => f[i] < f[j]
    BY Zenon DEF Thinned
<1> DEFINE l == Len(p)
           m == Len(q)
           k == Len(s)
           n == Len(t)
           g == [i \in 1..(l + m) |-> IF i <= l THEN e[i] ELSE k + f[i - l]]
           pq == p \o q
           st == s \o t
<1>0. k \in Nat /\ n \in Nat
    OBVIOUS
<1>3. /\ l \in Nat /\ m \in Nat /\ k \in Nat /\ n \in Nat
      /\ Len(pq) = l + m /\ Len(st) = k + n
      /\ \A i \in 1..l : pq[i] = p[i]
      /\ \A i \in 1..m : pq[l + i] = q[i]
      /\ \A i \in 1..k : st[i] = s[i]
      /\ \A i \in 1..n : st[k + i] = t[i]
    OBVIOUS
<1>4. /\ \A i \in 1..l : e[i] \in 1..k /\ p[i] = s[e[i]]
      /\ \A i, j \in 1..l : i < j => e[i] < e[j]
      /\ \A i \in 1..m : f[i] \in 1..n /\ q[i] = t[f[i]]
      /\ \A i, j \in 1..m : i < j => f[i] < f[j]
    BY <1>1, <1>2
<1> HIDE DEF l, m, k, n, pq, st
<1>5. /\ \A i \in 1..l : g[i] = e[i]
      /\ \A i \in 1..m : g[l + i] = k + f[i]
      /\ \A i \in 1..(l + m) : i \in 1..l \/ \E j \in 1..m : i = l + j
    <2>1. \A i \in 1..l : g[i] = e[i]
        BY <1>3
    <2>2. \A i \in 1..m : g[l + i] = k + f[i]
        BY <1>3
    <2>3. ASSUME NEW i \in 1..(l + m), i \notin 1..l PROVE \E j \in 1..m : i = l + j
        <3>1. i - l \in 1..m /\ i = l + (i - l)
            BY <1>3, <2>3
        <3>. QED  BY <3>1
    <2>. QED  BY <2>1, <2>2, <2>3
<1>6. g \in [1..(l + m) -> 1..(k + n)]
    <2>1. ASSUME NEW i \in 1..(l + m)
          PROVE  (IF i <= l THEN e[i] ELSE k + f[i - l]) \in 1..(k + n)
        <3>1. CASE i <= l
            <4>1. i \in 1..l
                BY <1>3, <3>1
            <4>2. e[i] \in 1..k
                BY <1>4, <4>1
            <4>. QED  BY <1>0, <3>1, <4>2
        <3>2. CASE ~(i <= l)
            <4>1. i - l \in 1..m
                BY <1>3, <3>2
            <4>2. f[i - l] \in 1..n
                BY <1>4, <4>1
            <4>. QED  BY <1>0, <3>2, <4>2
        <3>. QED  BY <3>1, <3>2
    <2>. QED  BY <2>1
<1> HIDE DEF g
<1>7. ASSUME NEW i \in 1..(l + m) PROVE pq[i] = st[g[i]]
    <2>1. CASE i \in 1..l
        <3>1. g[i] = e[i] /\ e[i] \in 1..k /\ p[i] = s[e[i]]
            BY <1>4, <1>5, <2>1
        <3>2. pq[i] = p[i] /\ st[e[i]] = s[e[i]]
            BY <1>3, <2>1, <3>1
        <3>. QED  BY <3>1, <3>2, Zenon
    <2>2. ASSUME NEW u \in 1..m, i = l + u PROVE pq[i] = st[g[i]]
        <3>1. g[i] = k + f[u] /\ f[u] \in 1..n /\ q[u] = t[f[u]]
            BY <1>4, <1>5, <2>2
        <3>2. pq[i] = q[u] /\ st[k + f[u]] = t[f[u]]
            BY <1>3, <2>2, <3>1
        <3>. QED  BY <3>1, <3>2, Zenon
    <2>. QED  BY <1>5, <2>1, <2>2
<1>8. ASSUME NEW i \in 1..(l + m), NEW j \in 1..(l + m), i < j PROVE g[i] < g[j]
    <2>1. CASE j \in 1..l
        <3>1. i \in 1..l
            BY <1>3, <1>8, <2>1
        <3>. QED  BY <1>4, <1>5, <1>8, <2>1, <3>1
    <2>2. ASSUME NEW v \in 1..m, j = l + v PROVE g[i] < g[j]
        <3>1. CASE i \in 1..l
            <4>1. g[i] \in 1..k /\ f[v] \in 1..n /\ g[j] = k + f[v]
                BY <1>4, <1>5, <2>2, <3>1
            <4>. QED  BY <1>0, <4>1
        <3>2. ASSUME NEW u \in 1..m, i = l + u PROVE g[i] < g[j]
            <4>1. u < v
                BY <1>3, <1>8, <2>2, <3>2
            <4>2. f[u] < f[v] /\ f[u] \in 1..n /\ f[v] \in 1..n
                BY <1>4, <4>1
            <4>3. g[i] = k + f[u] /\ g[j] = k + f[v]
                BY <1>5, <2>2, <3>2
            <4>4. ASSUME NEW x \in Nat, NEW y \in Nat, x < y PROVE k + x < k + y
                BY <1>0, <4>4
            <4>5. f[u] \in Nat /\ f[v] \in Nat
                BY <1>0, <4>2
            <4>. QED  BY <4>2, <4>3, <4>4, <4>5
        <3>. QED  BY <1>5, <3>1, <3>2
    <2>. QED  BY <1>5, <2>1, <2>2
<1>9. /\ g \in [1..Len(pq) -> 1..Len(st)]
      /\ \A i \in 1..Len(pq) : pq[i] = st[g[i]]
      /\ \A i, j \in 1..Len(pq) : i < j => g[i] < g[j]
    BY <1>3, <1>6, <1>7, <1>8
<1>10. Thinned(pq, st)
    BY <1>9, Zenon DEF Thinned
<1>. QED  BY <1>10 DEF pq, st

\* Flattening thinned sequences thins what they flatten to.
LEMMA FlattenThinned ==
    ASSUME NEW S, NEW ss \in Seq(Seq(S)), NEW pp \in Seq(Seq(S)), Len(pp) = Len(ss),
           \A i \in 1..Len(ss) : Thinned(pp[i], ss[i])
    PROVE  Thinned(FlattenSeq(pp), FlattenSeq(ss))
<1> DEFINE T == {n \in Nat : n <= Len(ss) =>
                   Thinned(FlattenSeq(SubSeq(pp, 1, n)), FlattenSeq(SubSeq(ss, 1, n)))}
<1>1. 0 \in T
    <2>1. SubSeq(pp, 1, 0) = <<>> /\ SubSeq(ss, 1, 0) = <<>> /\ <<>> \in Seq(S)
        OBVIOUS
    <2>2. FlattenSeq(<<>>) = <<>>
        BY FlattenAppend, Zenon
    <2>3. Thinned(<<>>, <<>>)
        BY <2>1, ThinnedPrefix, Zenon
    <2>. QED  BY <2>1, <2>2, <2>3
<1>2. ASSUME NEW n \in Nat, n \in T PROVE n + 1 \in T
    <2>1. SUFFICES ASSUME n + 1 <= Len(ss)
                   PROVE  Thinned(FlattenSeq(SubSeq(pp, 1, n + 1)),
                                  FlattenSeq(SubSeq(ss, 1, n + 1)))
        OBVIOUS
    <2>2. n \in 0..(Len(ss) - 1) /\ n \in 0..(Len(pp) - 1) /\ n + 1 \in 1..Len(ss)
        BY <2>1
    <2> DEFINE fp == FlattenSeq(SubSeq(pp, 1, n))
               fs == FlattenSeq(SubSeq(ss, 1, n))
               p == pp[n + 1]
               s == ss[n + 1]
    <2>3. fp \in Seq(S) /\ p \in Seq(S) /\ FlattenSeq(SubSeq(pp, 1, n + 1)) = fp \o p
        BY <2>2, FlattenPrefix, Zenon
    <2>4. fs \in Seq(S) /\ s \in Seq(S) /\ FlattenSeq(SubSeq(ss, 1, n + 1)) = fs \o s
        BY <2>2, FlattenPrefix, Zenon
    <2>5. Thinned(fp, fs) /\ Thinned(p, s)
        <3>1. n <= Len(ss)
            BY <2>1
        <3>2. Thinned(fp, fs)
            BY <1>2, <3>1
        <3>3. Thinned(p, s)
            BY <2>2, Zenon
        <3>. QED  BY <3>2, <3>3
    <2> HIDE DEF fp, fs, p, s
    <2>6. Thinned(fp \o p, fs \o s)
        BY <2>3, <2>4, <2>5, ThinnedConcat, Zenon
    <2>. QED  BY <2>3, <2>4, <2>6, Zenon
<1>3. Nat \subseteq T
    <2> HIDE DEF T
    <2>. QED  BY <1>1, <1>2, SetInduction, Zenon
<1>4. Len(ss) \in Nat /\ Len(ss) <= Len(ss) /\ SubSeq(ss, 1, Len(ss)) = ss
      /\ SubSeq(pp, 1, Len(ss)) = pp
    OBVIOUS
<1>5. Thinned(FlattenSeq(SubSeq(pp, 1, Len(ss))), FlattenSeq(SubSeq(ss, 1, Len(ss))))
    BY <1>3, <1>4
<1>. QED  BY <1>4, <1>5, Zenon

-----------------------------------------------------------------------------
\* q holds the elements of s that are in T, and repeats none if s does not.
Selects(q, s, T) ==
    /\ ToSet(q) = ToSet(s) \cap T
    /\ IsInjective(s) => IsInjective(q)

\* One more element of s: it is put behind what was selected, or it is left out.
LEMMA SelectsOneMore ==
    ASSUME NEW S, NEW s \in Seq(S), NEW x \in S, NEW T, NEW q \in Seq(S),
           Selects(q, s, T)
    PROVE  /\ x \in T => Selects(q \o <<x>>, Append(s, x), T)
           /\ x \notin T => Selects(q \o <<>>, Append(s, x), T)
<1> DEFINE t == Append(s, x)
           l == Len(s)
<1>1. /\ t \in Seq(S) /\ l \in Nat /\ Len(t) = l + 1 /\ DOMAIN t = 1..(l + 1)
      /\ DOMAIN s = 1..l /\ t[l + 1] = x /\ \A i \in 1..l : t[i] = s[i]
    OBVIOUS
<1>2. ToSet(t) = ToSet(s) \cup {x}
    BY AppendFacts
<1> HIDE DEF t
<1>3. IsInjective(t) => IsInjective(s) /\ x \notin ToSet(s)
    <2> HAVE IsInjective(t)
    <2>1. \A i, j \in 1..(l + 1) : t[i] = t[j] => i = j
        BY <1>1 DEF IsInjective
    <2>2. \A i, j \in 1..l : s[i] = s[j] => i = j
        BY <1>1, <2>1
    <2>3. \A i \in 1..l : s[i] # x
        BY <1>1, <2>1
    <2>. QED  BY <1>1, <2>2, <2>3 DEF IsInjective, ToSet
<1>4. ASSUME x \in T PROVE Selects(q \o <<x>>, t, T)
    <2> DEFINE o == <<x>>
               r == q \o o
    <2>1. o \in Seq(S) /\ ToSet(o) = {x} /\ IsInjective(o)
        BY DEF ToSet, IsInjective
    <2> HIDE DEF o
    <2>2. Joins(r, q, o)
        BY <2>1, JoinFacts, Zenon
    <2> HIDE DEF r
    <2>3. ToSet(r) = ToSet(q) \cup {x} /\ (IsInjective(q) /\ x \notin ToSet(q) => IsInjective(r))
        BY <2>1, <2>2 DEF Joins
    <2>4. Selects(r, t, T)
        BY <1>2, <1>3, <1>4, <2>3 DEF Selects
    <2>. QED  BY <2>4 DEF r, o
<1>5. ASSUME x \notin T PROVE Selects(q \o <<>>, t, T)
    <2>1. q \o <<>> = q
        OBVIOUS
    <2>2. Selects(q, t, T)
        BY <1>2, <1>3, <1>5 DEF Selects
    <2>. QED  BY <2>1, <2>2, Zenon
<1>. QED  BY <1>4, <1>5, Zenon DEF t

\* What is kept of each element of s, one behind the other, is the elements in T.
LEMMA FlattenSelects ==
    ASSUME NEW S, NEW s \in Seq(S), NEW T, NEW ss,
           ss = [i \in 1..Len(s) |-> IF s[i] \in T THEN <<s[i]>> ELSE <<>>]
    PROVE  FlattenSeq(ss) \in Seq(S) /\ Selects(FlattenSeq(ss), s, T)
<1> DEFINE U == {n \in Nat : n <= Len(s) =>
                   /\ FlattenSeq(SubSeq(ss, 1, n)) \in Seq(S)
                   /\ Selects(FlattenSeq(SubSeq(ss, 1, n)), SubSeq(s, 1, n), T)}
<1>1. /\ ss \in Seq(Seq(S)) /\ Len(ss) = Len(s) /\ Len(s) \in Nat
      /\ SubSeq(ss, 1, Len(s)) = ss /\ SubSeq(s, 1, Len(s)) = s
    <2>1. \A i \in 1..Len(s) : ss[i] \in Seq(S)
        OBVIOUS
    <2>2. ss \in [1..Len(s) -> Seq(S)] /\ Len(s) \in Nat
        BY <2>1
    <2>3. ss \in Seq(Seq(S)) /\ Len(ss) = Len(s)
        BY <2>2
    <2>. QED  BY <2>2, <2>3
<1>2. 0 \in U
    <2>1. SubSeq(ss, 1, 0) = <<>> /\ SubSeq(s, 1, 0) = <<>>
        BY <1>1
    <2>2. FlattenSeq(<<>>) = <<>>
        BY FlattenAppend, Zenon
    <2>3. <<>> \in Seq(S) /\ Selects(<<>>, <<>>, T)
        BY DEF Selects, ToSet
    <2>. QED  BY <2>1, <2>2, <2>3
<1>3. ASSUME NEW n \in Nat, n \in U PROVE n + 1 \in U
    <2> SUFFICES ASSUME n + 1 <= Len(s)
                 PROVE  /\ FlattenSeq(SubSeq(ss, 1, n + 1)) \in Seq(S)
                        /\ Selects(FlattenSeq(SubSeq(ss, 1, n + 1)), SubSeq(s, 1, n + 1), T)
        OBVIOUS
    <2> DEFINE f == FlattenSeq(SubSeq(ss, 1, n))
               p == SubSeq(s, 1, n)
               x == s[n + 1]
    <2>1. n \in 0..(Len(s) - 1) /\ n \in 0..(Len(ss) - 1) /\ n + 1 \in 1..Len(s) /\ n <= Len(s)
        BY <1>1
    <2>2. f \in Seq(S) /\ Selects(f, p, T)
        BY <1>3, <2>1
    <2>3. FlattenSeq(SubSeq(ss, 1, n + 1)) = f \o ss[n + 1]
        BY <1>1, <2>1, FlattenPrefix, Zenon
    <2>4. p \in Seq(S) /\ x \in S /\ SubSeq(s, 1, n + 1) = Append(p, x)
        BY <2>1, FirstFacts, Zenon
    <2>5. ss[n + 1] = IF x \in T THEN <<x>> ELSE <<>>
        BY <2>1
    <2>6. ss[n + 1] \in Seq(S)
        BY <2>4, <2>5
    <2> HIDE DEF f, p, x
    <2>7. f \o ss[n + 1] \in Seq(S)
        BY <2>2, <2>6
    <2>8. Selects(f \o ss[n + 1], Append(p, x), T)
        <3>1. CASE x \in T
            <4>1. Selects(f \o <<x>>, Append(p, x), T)
                BY <2>2, <2>4, <3>1, SelectsOneMore, Zenon
            <4>. QED  BY <2>5, <3>1, <4>1, Zenon
        <3>2. CASE x \notin T
            <4>1. Selects(f \o <<>>, Append(p, x), T)
                BY <2>2, <2>4, <3>2, SelectsOneMore, Zenon
            <4>. QED  BY <2>5, <3>2, <4>1, Zenon
        <3>. QED  BY <3>1, <3>2
    <2>. QED  BY <2>3, <2>4, <2>7, <2>8, Zenon
<1> HIDE DEF U
<1>4. Nat \subseteq U
    BY <1>2, <1>3, SetInduction, Zenon
<1>5. Len(s) \in U /\ Len(s) <= Len(s)
    BY <1>1, <1>4
<1>. QED  BY <1>1, <1>5, Zenon DEF U
============================================================================

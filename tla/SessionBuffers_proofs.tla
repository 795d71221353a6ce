----------------------- MODULE SessionBuffers_proofs -----------------------
(***************************************************************************)
(* Theorems about the Buffers of the sessions, for every number of         *)
(* sessions, every size of a Buffer and every growth of the pool: each     *)
(* Buffer has one owner, and no session is given, or sends, a byte of      *)
(* another one.                                                            *)
(*                                                                         *)
(* The inductive invariant says who owns what one list at a time (Owned),  *)
(* so that a step on one session leaves the lists of the others and what   *)
(* is in their Buffers alone (Others), and adds that handle_read, which    *)
(* hands over the first Buffer of its list without a look, has one.        *)
(***************************************************************************)
EXTENDS SessionBuffers, SeqFacts

USE BuffersAssumption

-----------------------------------------------------------------------------
(* Streams.                                                                *)

\* The units of a stream, one by one.
LEMMA StreamFacts ==
    ASSUME NEW s \in Sessions, NEW from \in Nat, NEW n \in Nat
    PROVE  /\ Stream(s, from, n) \in Seq(Units) /\ Len(Stream(s, from, n)) = n
           /\ \A k \in 1..n : Stream(s, from, n)[k] = <<s, from + k>>
<1>1. \A k \in 1..n : <<s, from + k>> \in Units
    BY DEF Units
<1>. QED  BY <1>1 DEF Stream

\* A stream goes on where it stopped.
GoesOn(s, from, m, n) ==
    Stream(s, from, m) \o Stream(s, from + m, n) = Stream(s, from, m + n)

\* Two parts of a stream that follow on each other are one part.
LEMMA StreamConcat ==
    ASSUME NEW s \in Sessions, NEW from \in Nat, NEW m \in Nat, NEW n \in Nat
    PROVE  GoesOn(s, from, m, n)
<1> DEFINE a == Stream(s, from, m)
           b == Stream(s, from + m, n)
           c == Stream(s, from, m + n)
<1>1. /\ a \in Seq(Units) /\ Len(a) = m /\ \A k \in 1..m : a[k] = <<s, from + k>>
      /\ b \in Seq(Units) /\ Len(b) = n /\ \A k \in 1..n : b[k] = <<s, from + m + k>>
      /\ c \in Seq(Units) /\ Len(c) = m + n /\ \A k \in 1..(m + n) : c[k] = <<s, from + k>>
    <2>1. from + m \in Nat /\ m + n \in Nat
        OBVIOUS
    <2>2. /\ a \in Seq(Units) /\ Len(a) = m /\ \A k \in 1..m : a[k] = <<s, from + k>>
        BY StreamFacts, Zenon
    <2>3. /\ b \in Seq(Units) /\ Len(b) = n /\ \A k \in 1..n : b[k] = <<s, from + m + k>>
        BY <2>1, StreamFacts, Zenon
    <2>4. /\ c \in Seq(Units) /\ Len(c) = m + n
          /\ \A k \in 1..(m + n) : c[k] = <<s, from + k>>
        BY <2>1, StreamFacts, Zenon
    <2>. QED  BY <2>2, <2>3, <2>4
<1> HIDE DEF a, b, c
<1>2. /\ a \o b \in Seq(Units) /\ Len(a \o b) = m + n
      /\ \A k \in 1..(m + n) : (a \o b)[k] = IF k <= m THEN a[k] ELSE b[k - m]
    BY <1>1, ConcatProperties
<1>3. ASSUME NEW k \in 1..(m + n) PROVE (a \o b)[k] = c[k]
    <2>1. CASE k <= m
        <3>1. (a \o b)[k] = a[k] /\ k \in 1..m
            BY <1>2, <2>1
        <3>. QED  BY <1>1, <3>1, Zenon
    <2>2. CASE ~(k <= m)
        <3>1. k - m \in 1..n /\ from + m + (k - m) = from + k
            BY <2>2
        <3>2. b[k - m] = <<s, from + m + (k - m)>>
            BY <1>1, <3>1, Zenon
        <3>3. (a \o b)[k] = b[k - m]
            BY <1>2, <2>2
        <3>. QED  BY <1>1, <3>1, <3>2, <3>3, Zenon
    <2>. QED  BY <2>1, <2>2
<1>4. a \o b = c
    BY <1>1, <1>2, <1>3, SeqEqual
<1>. QED  BY <1>4, Zenon DEF GoesOn, a, b, c

\* What Write puts into the Buffers behind the first one is, one behind the other,
\* the stream from where the first one ended.
Chunks(s, from, n, more) ==
    [i \in 1..more |-> Stream(s, from + (i - 1) * BufSize,
                              IF i < more THEN BufSize ELSE n - (i - 1) * BufSize)]

\* Where the i-th of the chunks begins, and that it fits into a Buffer.
LEMMA ChunkFacts ==
    ASSUME NEW s \in Sessions, NEW from \in Nat, NEW n \in Nat, NEW more \in Nat \ {0},
           (more - 1) * BufSize <= n, n <= more * BufSize, NEW i \in 1..more
    PROVE  /\ (i - 1) * BufSize \in Nat /\ i * BufSize = (i - 1) * BufSize + BufSize
           /\ (i - 1) * BufSize <= n
           /\ i < more => i * BufSize <= n
           /\ i = more => n - (i - 1) * BufSize \in 0..BufSize
<1>1. \A x, y \in Nat : x <= y => x * BufSize <= y * BufSize
    <2>1. ASSUME NEW x \in Nat, NEW y \in Nat, x <= y PROVE x * BufSize <= y * BufSize
        <3>1. (y - x) * BufSize \in Nat /\ y * BufSize = x * BufSize + (y - x) * BufSize
            BY <2>1
        <3>2. x * BufSize \in Nat
            OBVIOUS
        <3>. QED  BY <3>1, <3>2
    <2>. QED  BY <2>1
<1>2. i - 1 \in Nat /\ i \in Nat /\ more - 1 \in Nat /\ i - 1 <= more - 1
    OBVIOUS
<1>3. (i - 1) * BufSize \in Nat /\ i * BufSize \in Nat /\ (more - 1) * BufSize \in Nat
    BY <1>2
<1>4. i * BufSize = (i - 1) * BufSize + BufSize
    OBVIOUS
<1>5. (i - 1) * BufSize <= (more - 1) * BufSize
    BY <1>1, <1>2
<1>6. i < more => i * BufSize <= (more - 1) * BufSize
    BY <1>1, <1>2
<1>. QED  BY <1>3, <1>4, <1>5, <1>6

AreChunks(c, s, from, n, more) ==
    /\ c \in Seq(Seq(Units)) /\ Len(c) = more
    /\ \A i \in 1..more : Len(c[i]) <= BufSize
    /\ \A i \in 1..(more - 1) : Len(c[i]) = BufSize
    /\ FlattenSeq(c) = Stream(s, from, n)

\* The chunks, one behind the other, are the part of the stream they are of.
LEMMA ChunksFlatten ==
    ASSUME NEW s \in Sessions, NEW from \in Nat, NEW n \in Nat, NEW more \in Nat \ {0},
           (more - 1) * BufSize <= n, n <= more * BufSize
    PROVE  AreChunks(Chunks(s, from, n, more), s, from, n, more)
<1> DEFINE c == Chunks(s, from, n, more)
           size(i) == IF i < more THEN BufSize ELSE n - (i - 1) * BufSize
           upto(i) == IF i < more THEN i * BufSize ELSE n
           g == [i \in 1..more |-> Stream(s, from, upto(i))]
<1>1. ASSUME NEW i \in 1..more
      PROVE  /\ size(i) \in 0..BufSize /\ upto(i) \in Nat
             /\ from + (i - 1) * BufSize \in Nat
             /\ i = 1 => upto(i) = size(i) /\ from + (i - 1) * BufSize = from
             /\ i # 1 => upto(i - 1) \in Nat /\ upto(i) = upto(i - 1) + size(i)
                         /\ upto(i - 1) = (i - 1) * BufSize
    BY ChunkFacts
<1>2. \A i \in 1..more : c[i] = Stream(s, from + (i - 1) * BufSize, size(i))
    BY DEF Chunks
<1>3. \A i \in 1..more : c[i] \in Seq(Units) /\ Len(c[i]) = size(i)
    <2> SUFFICES ASSUME NEW i \in 1..more PROVE c[i] \in Seq(Units) /\ Len(c[i]) = size(i)
        OBVIOUS
    <2> DEFINE x == from + (i - 1) * BufSize
               y == size(i)
    <2>1. x \in Nat /\ y \in Nat
        BY <1>1
    <2>2. c[i] = Stream(s, x, y)
        BY <1>2, Zenon
    <2> HIDE DEF x, y, c
    <2>3. Stream(s, x, y) \in Seq(Units) /\ Len(Stream(s, x, y)) = y
        BY <2>1, StreamFacts, Zenon
    <2>. QED  BY <2>2, <2>3, Zenon DEF y
<1>4. c \in Seq(Seq(Units)) /\ Len(c) = more
    <2> DEFINE U == Seq(Units)
    <2>1. c = [i \in 1..more |-> c[i]]
        BY DEF Chunks
    <2>2. \A i \in 1..more : c[i] \in U
        BY <1>3, Zenon
    <2> HIDE DEF c, U
    <2>3. c \in Seq(U) /\ Len(c) = more
        BY <2>1, <2>2
    <2>. QED  BY <2>3 DEF U
<1>5. \A i \in 1..more : g[i] = IF i = 1 THEN c[i] ELSE g[i - 1] \o c[i]
    <2> SUFFICES ASSUME NEW i \in 1..more
                 PROVE  g[i] = IF i = 1 THEN c[i] ELSE g[i - 1] \o c[i]
        OBVIOUS
    <2>1. CASE i = 1
        <3>1. upto(i) = size(i) /\ from + (i - 1) * BufSize = from
            BY <1>1, <2>1
        <3>2. g[i] = Stream(s, from, upto(i))
            OBVIOUS
        <3>3. c[i] = Stream(s, from + (i - 1) * BufSize, size(i))
            BY <1>2, Zenon
        <3> HIDE DEF g, c, upto, size
        <3>. QED  BY <2>1, <3>1, <3>2, <3>3, Zenon
    <2>2. CASE i # 1
        <3>1. i - 1 \in 1..more /\ g[i - 1] = Stream(s, from, upto(i - 1))
            BY <2>2
        <3>2. g[i] = Stream(s, from, upto(i)) /\ c[i] = Stream(s, from + upto(i - 1), size(i))
            BY <1>1, <1>2, <2>2
        <3>3. upto(i - 1) \in Nat /\ size(i) \in Nat /\ upto(i) = upto(i - 1) + size(i)
            BY <1>1, <2>2
        <3> HIDE DEF g, c, upto, size
        <3>4. GoesOn(s, from, upto(i - 1), size(i))
            BY <3>3, StreamConcat, Zenon
        <3>. QED  BY <2>2, <3>1, <3>2, <3>3, <3>4, Zenon DEF GoesOn
    <2>. QED  BY <2>1, <2>2
<1>6. Flattens(g, c)
    <2>1. g = [i \in 1..more |-> g[i]]
        OBVIOUS
    <2> HIDE DEF g, c
    <2>. QED  BY <1>4, <1>5, <2>1 DEF Flattens
<1>7. c # <<>> /\ g[Len(c)] = Stream(s, from, n)
    <2>1. c # <<>> /\ more \in 1..more /\ upto(more) = n
        BY <1>4
    <2>2. g[more] = Stream(s, from, upto(more))
        BY <2>1
    <2> HIDE DEF g, c, upto
    <2>. QED  BY <1>4, <2>1, <2>2, Zenon
<1>8. FlattenSeq(c) = Stream(s, from, n)
    <2> HIDE DEF g, c
    <2>. QED  BY <1>4, <1>6, <1>7, FlattenFacts, Zenon
<1>9. \A i \in 1..more : Len(c[i]) <= BufSize /\ (i < more => Len(c[i]) = BufSize)
    BY <1>1, <1>3
<1> HIDE DEF c
<1>10. /\ c \in Seq(Seq(Units)) /\ Len(c) = more
       /\ \A i \in 1..more : Len(c[i]) <= BufSize
       /\ \A i \in 1..(more - 1) : Len(c[i]) = BufSize
       /\ FlattenSeq(c) = Stream(s, from, n)
    BY <1>4, <1>8, <1>9
<1>. QED  BY <1>10, Zenon DEF c, AreChunks

-----------------------------------------------------------------------------
(* What the Buffers of a list hold, d being the contents of the Buffers.   *)

ContentsOf(d, list) == [i \in DOMAIN list |-> d[list[i]]]
Content(d, list) == FlattenSeq(ContentsOf(d, list))

Fits(d, list) ==
    list \in Seq(Int) /\ \A i \in 1..Len(list) : d[list[i]] \in Seq(Units)

\* c is what the Buffers of list hold, one by one.
Shows(c, d, list) ==
    /\ c \in Seq(Seq(Units)) /\ Len(c) = Len(list) /\ Len(list) \in Nat
    /\ \A i \in 1..Len(list) : c[i] = d[list[i]]

\* A list of Buffers that exist can be read.
LEMMA FitsFacts ==
    ASSUME NEW n \in Nat, NEW d \in [1..n -> Seq(Units)], NEW list \in Seq(1..n)
    PROVE  Fits(d, list)
<1>1. \A i \in 1..Len(list) : list[i] \in 1..n
    OBVIOUS
<1>. QED  BY <1>1 DEF Fits

\* Reading a list Buffer by Buffer gives a sequence of sequences of units.
LEMMA ContentsFacts ==
    ASSUME NEW d, NEW list, Fits(d, list)
    PROVE  Shows(ContentsOf(d, list), d, list) /\ Content(d, list) \in Seq(Units)
<1> DEFINE c == ContentsOf(d, list)
           U == Seq(Units)
<1>1. /\ Len(list) \in Nat /\ DOMAIN list = 1..Len(list)
      /\ \A i \in 1..Len(list) : d[list[i]] \in U
    BY DEF Fits
<1>2. /\ c \in Seq(U) /\ Len(c) = Len(list) /\ Len(list) \in Nat
      /\ \A i \in 1..Len(list) : c[i] = d[list[i]]
    <2> HIDE DEF U
    <2>. QED  BY <1>1 DEF ContentsOf
<1> HIDE DEF c
<1>3. FlattenSeq(c) \in Seq(Units)
    BY <1>2, FlattenAppend, Zenon
<1>. QED  BY <1>2, <1>3 DEF c, Content, Shows

\* A list holds the same as long as its Buffers do.
LEMMA ContentKept ==
    ASSUME NEW d, NEW list, Fits(d, list), NEW e, \A b \in ToSet(list) : e[b] = d[b]
    PROVE  Fits(e, list) /\ Content(e, list) = Content(d, list)
<1>1. DOMAIN list = 1..Len(list) /\ \A i \in 1..Len(list) : list[i] \in ToSet(list)
    BY ToSetFacts DEF Fits
<1>2. ContentsOf(e, list) = ContentsOf(d, list)
    BY <1>1 DEF ContentsOf
<1>3. Fits(e, list)
    BY <1>1 DEF Fits
<1>. QED  BY <1>2, <1>3, Zenon DEF Content

\* Two lists, one behind the other.
LEMMA ContentConcat ==
    ASSUME NEW d, NEW s, NEW t, Fits(d, s), Fits(d, t)
    PROVE  Fits(d, s \o t) /\ Content(d, s \o t) = Content(d, s) \o Content(d, t)
<1> DEFINE c == ContentsOf(d, s)
           k == ContentsOf(d, t)
           st == s \o t
           ck == c \o k
           r == ContentsOf(d, st)
           U == Seq(Units)
<1>1. /\ st \in Seq(Int) /\ Len(st) = Len(s) + Len(t) /\ Len(s) \in Nat /\ Len(t) \in Nat
      /\ \A i \in 1..(Len(s) + Len(t)) :
             st[i] = IF i <= Len(s) THEN s[i] ELSE t[i - Len(s)]
    BY ConcatProperties DEF Fits
<1> HIDE DEF st
<1>2. Fits(d, st)
    <2>1. ASSUME NEW i \in 1..(Len(s) + Len(t)) PROVE d[st[i]] \in Seq(Units)
        <3>1. CASE i <= Len(s)
            <4>1. i \in 1..Len(s) /\ st[i] = s[i]
                BY <1>1, <3>1
            <4>. QED  BY <4>1, Zenon DEF Fits
        <3>2. CASE ~(i <= Len(s))
            <4>1. i - Len(s) \in 1..Len(t) /\ st[i] = t[i - Len(s)]
                BY <1>1, <3>2
            <4>. QED  BY <4>1, Zenon DEF Fits
        <3>. QED  BY <3>1, <3>2
    <2>. QED  BY <1>1, <2>1 DEF Fits
<1>3. Shows(c, d, s) /\ Shows(k, d, t) /\ Shows(r, d, st)
    BY <1>2, ContentsFacts
<1> HIDE DEF c, k, r
<1>4. ck \in Seq(U) /\ Len(ck) = Len(s) + Len(t)
      /\ \A i \in 1..(Len(s) + Len(t)) :
             ck[i] = IF i <= Len(s) THEN c[i] ELSE k[i - Len(s)]
    <2>1. c \in Seq(U) /\ k \in Seq(U) /\ Len(c) = Len(s) /\ Len(k) = Len(t)
        BY <1>3 DEF Shows
    <2> HIDE DEF U
    <2>2. ck \in Seq(U) /\ Len(ck) = Len(c) + Len(k)
          /\ \A i \in 1..(Len(c) + Len(k)) :
                 ck[i] = IF i <= Len(c) THEN c[i] ELSE k[i - Len(c)]
        BY <2>1, ConcatProperties
    <2>. QED  BY <2>1, <2>2, Zenon
<1> HIDE DEF ck
<1>5. ASSUME NEW i \in 1..(Len(s) + Len(t)) PROVE r[i] = ck[i]
    <2>0. r[i] = d[st[i]]
        BY <1>1, <1>3 DEF Shows
    <2>1. CASE i <= Len(s)
        <3>1. i \in 1..Len(s) /\ st[i] = s[i] /\ ck[i] = c[i]
            BY <1>1, <1>4, <2>1
        <3>. QED  BY <1>3, <2>0, <3>1, Zenon DEF Shows
    <2>2. CASE ~(i <= Len(s))
        <3>1. i - Len(s) \in 1..Len(t)
            <4>1. Len(s) \in Nat /\ Len(t) \in Nat
                BY <1>1
            <4>. QED  BY <2>2, <4>1
        <3>2. st[i] = t[i - Len(s)]
            BY <1>1, <2>2, Zenon
        <3>3. ck[i] = k[i - Len(s)]
            BY <1>4, <2>2, Zenon
        <3>. QED  BY <1>3, <2>0, <3>1, <3>2, <3>3, Zenon DEF Shows
    <2>. QED  BY <2>1, <2>2
<1>6. r = ck
    <2>1. r \in Seq(U) /\ Len(r) = Len(s) + Len(t)
        BY <1>1, <1>3 DEF Shows
    <2> HIDE DEF U
    <2>. QED  BY <1>4, <1>5, <2>1, SeqEqual
<1>7. FlattenSeq(c \o k) = FlattenSeq(c) \o FlattenSeq(k)
    BY <1>3, FlattenConcat, Zenon DEF Shows
<1>. QED  BY <1>2, <1>6, <1>7, Zenon DEF ck, c, k, r, st, Content

\* A list of empty Buffers holds nothing.
LEMMA ContentEmpty ==
    ASSUME NEW d, NEW list, Fits(d, list), \A b \in ToSet(list) : d[b] = <<>>
    PROVE  Content(d, list) = <<>>
<1> DEFINE c == ContentsOf(d, list)
<1>1. Shows(c, d, list)
    BY ContentsFacts
<1>2. \A i \in 1..Len(list) : list[i] \in ToSet(list)
    BY ToSetFacts DEF Fits
<1> HIDE DEF c
<1>3. c \in Seq(Seq(Units)) /\ \A i \in 1..Len(c) : c[i] = <<>>
    BY <1>1, <1>2, Zenon DEF Shows
<1>4. FlattenSeq(c) = <<>>
    BY <1>3, FlattenOnly, Zenon
<1>. QED  BY <1>4, Zenon DEF c, Content

\* The first Buffer of a list and the others.
LEMMA ContentHead ==
    ASSUME NEW d, NEW list, Fits(d, list), list # <<>>
    PROVE  /\ Fits(d, Tail(list)) /\ d[Head(list)] \in Seq(Units)
           /\ Content(d, list) = d[Head(list)] \o Content(d, Tail(list))
<1> DEFINE t == Tail(list)
           c == ContentsOf(d, list)
           r == ContentsOf(d, t)
           U == Seq(Units)
<1>1. /\ Head(list) = list[1] /\ t \in Seq(Int) /\ Len(t) = Len(list) - 1
      /\ \A i \in 1..(Len(list) - 1) : t[i] = list[i + 1]
      /\ Len(list) \in Nat \ {0}
    BY HeadTailProperties DEF Fits
<1>2. Fits(d, t) /\ d[Head(list)] \in Seq(Units)
    <2>1. \A i \in 1..(Len(list) - 1) : i + 1 \in 1..Len(list)
        BY <1>1
    <2>2. 1 \in 1..Len(list)
        BY <1>1
    <2> HIDE DEF t
    <2>3. \A i \in 1..Len(list) : d[list[i]] \in Seq(Units)
        BY Zenon DEF Fits
    <2>4. \A i \in 1..Len(t) : d[t[i]] \in Seq(Units)
        BY <1>1, <2>1, <2>3, Zenon
    <2>. QED  BY <1>1, <2>2, <2>3, <2>4, Zenon DEF Fits
<1>3. Shows(c, d, list) /\ Shows(r, d, t)
    BY <1>2, ContentsFacts
<1> HIDE DEF c, r, t
<1>4. c # <<>> /\ Head(c) = d[Head(list)]
    BY <1>1, <1>3 DEF Shows
<1>5. /\ Tail(c) \in Seq(U) /\ Len(Tail(c)) = Len(list) - 1
      /\ \A i \in 1..(Len(list) - 1) : Tail(c)[i] = c[i + 1]
    <2>1. c \in Seq(U) /\ Len(c) = Len(list)
        BY <1>3 DEF Shows
    <2> HIDE DEF U
    <2>. QED  BY <1>1, <1>4, <2>1, HeadTailProperties
<1>6. ASSUME NEW i \in 1..(Len(list) - 1) PROVE Tail(c)[i] = r[i]
    <2>1. i + 1 \in 1..Len(list) /\ i \in 1..Len(t)
        BY <1>1
    <2>2. c[i + 1] = d[list[i + 1]] /\ r[i] = d[t[i]]
        BY <1>3, <2>1, Zenon DEF Shows
    <2>. QED  BY <1>1, <1>5, <2>2, Zenon
<1>7. Tail(c) = r
    <2>1. r \in Seq(U) /\ Len(r) = Len(list) - 1
        BY <1>1, <1>3 DEF Shows
    <2> HIDE DEF U
    <2>. QED  BY <1>5, <1>6, <2>1, SeqEqual
<1>8. FlattenSeq(c) = Head(c) \o FlattenSeq(Tail(c))
    BY <1>3, <1>4, FlattenHead, Zenon DEF Shows
<1>. QED  BY <1>2, <1>4, <1>7, <1>8, Zenon DEF c, r, t, Content

\* Putting x into the last Buffer puts it behind what the list holds.
GrownBy(e, d, list, x) ==
    /\ list # <<>> /\ e[list[Len(list)]] = d[list[Len(list)]] \o x
    /\ \A i \in 1..(Len(list) - 1) : e[list[i]] = d[list[i]]

\* What is put behind the content of the last Buffer is behind that of the list.
LEMMA ContentGrown ==
    ASSUME NEW d, NEW e, NEW list, Fits(d, list), Fits(e, list),
           NEW x \in Seq(Units), GrownBy(e, d, list, x)
    PROVE  Content(e, list) = Content(d, list) \o x
<1> DEFINE c == ContentsOf(d, list)
           k == ContentsOf(e, list)
<1>1. Shows(c, d, list) /\ Shows(k, e, list)
    BY ContentsFacts
<1> HIDE DEF c, k
<1>2. Len(list) \in 1..Len(list) /\ Len(list) \in Nat
    BY DEF GrownBy, Fits
<1>3. k[Len(c)] = c[Len(c)] \o x
    BY <1>1, <1>2, Zenon DEF GrownBy, Shows
<1>4. \A i \in 1..(Len(c) - 1) : k[i] = c[i]
    <2>1. \A i \in 1..(Len(list) - 1) : i \in 1..Len(list)
        BY <1>2
    <2>. QED  BY <1>1, <2>1, Zenon DEF GrownBy, Shows
<1>5. c \in Seq(Seq(Units)) /\ k \in Seq(Seq(Units)) /\ Len(k) = Len(c) /\ c # <<>>
    BY <1>1, <1>2 DEF Shows
<1>6. ExtendsLast(k, c, x)
    BY <1>3, <1>4, <1>5, Zenon DEF ExtendsLast
<1>7. FlattenSeq(k) = FlattenSeq(c) \o x
    BY <1>5, <1>6, FlattenLast
<1>. QED  BY <1>7, Zenon DEF c, k, Content

-----------------------------------------------------------------------------
(* The pool.                                                               *)

\* A pool that grows by whole steps grows by enough.
LEMMA GrowsEnough ==
    ASSUME NEW l \in Nat
    PROVE  /\ Grow * ((l + Grow - 1) \div Grow) \in Nat
           /\ l <= Grow * ((l + Grow - 1) \div Grow)
<1> DEFINE q == (l + Grow - 1) \div Grow
           r == (l + Grow - 1) % Grow
<1>1. q \in Int /\ r \in 0..(Grow - 1) /\ l + Grow - 1 = Grow * q + r
    OBVIOUS
<1>2. q \in Nat
    OBVIOUS
<1> HIDE DEF q, r
<1>3. Grow * q \in Nat
    BY <1>2
<1>. QED  BY <1>1, <1>3 DEF q

\* The pool out of which k Buffers are taken has at least k, the old ones first.
LEMMA GrownFacts ==
    ASSUME TypeOK, NEW k \in Nat
    PROVE  /\ Len(Grown(k)) \in Nat /\ Len(pool) \in Nat /\ Len(pool) <= Len(Grown(k))
           /\ k <= Len(Grown(k))
           /\ Grown(k) \in Seq(1..(all + Len(Grown(k)) - Len(pool)))
           /\ \A i \in 1..Len(pool) : Grown(k)[i] = pool[i]
           /\ \A i \in 1..(Len(Grown(k)) - Len(pool)) : Grown(k)[Len(pool) + i] = all + i
<1> DEFINE l == IF k > Len(pool) THEN k - Len(pool) ELSE 0
           m == Grow * ((l + Grow - 1) \div Grow)
           new == [i \in 1..m |-> all + i]
           g == pool \o new
<1>1. all \in Nat /\ pool \in Seq(1..all) /\ Len(pool) \in Nat
    BY DEF TypeOK, Buffers
<1>2. l \in Nat /\ k <= Len(pool) + l
    BY <1>1
<1>3. m \in Nat /\ l <= m
    <2> HIDE DEF l
    <2>. QED  BY <1>2, GrowsEnough
<1>4. Grown(k) = g
    BY DEF Grown
<1> HIDE DEF m, l
<1>5. /\ new \in Seq(1..(all + m)) /\ Len(new) = m /\ \A i \in 1..m : new[i] = all + i
      /\ pool \in Seq(1..(all + m))
    BY <1>1, <1>3
<1> HIDE DEF new
<1>6. /\ g \in Seq(1..(all + m)) /\ Len(g) = Len(pool) + m
      /\ \A i \in 1..Len(pool) : g[i] = pool[i]
      /\ \A i \in 1..m : g[Len(pool) + i] = new[i]
    <2> DEFINE B == 1..(all + m)
    <2>1. pool \in Seq(B) /\ new \in Seq(B)
        BY <1>5
    <2> HIDE DEF B
    <2>2. /\ g \in Seq(B) /\ Len(g) = Len(pool) + Len(new)
          /\ \A i \in 1..(Len(pool) + Len(new)) :
                 g[i] = IF i <= Len(pool) THEN pool[i] ELSE new[i - Len(pool)]
        BY <2>1, ConcatProperties
    <2> HIDE DEF g
    <2>3. \A i \in 1..Len(pool) : g[i] = pool[i]
        BY <1>1, <1>3, <1>5, <2>2
    <2>4. \A i \in 1..m : g[Len(pool) + i] = new[i]
        <3> SUFFICES ASSUME NEW i \in 1..m PROVE g[Len(pool) + i] = new[i]
            OBVIOUS
        <3> DEFINE j == Len(pool) + i
        <3>1. j \in 1..(Len(pool) + Len(new)) /\ ~(j <= Len(pool)) /\ j - Len(pool) = i
            BY <1>1, <1>3, <1>5
        <3> HIDE DEF j
        <3>2. g[j] = new[i]
            BY <2>2, <3>1, Zenon
        <3>. QED  BY <3>2 DEF j
    <2>. QED  BY <1>5, <2>2, <2>3, <2>4 DEF B
<1> HIDE DEF g
<1>7. all + Len(g) - Len(pool) = all + m /\ Len(g) - Len(pool) = m /\ k <= Len(g)
    BY <1>1, <1>2, <1>3, <1>6
<1>8. \A i \in 1..m : g[Len(pool) + i] = all + i
    BY <1>5, <1>6
<1>9. Len(pool) <= Len(g) /\ Len(g) \in Nat
    BY <1>1, <1>3, <1>6
<1>. QED  BY <1>1, <1>4, <1>6, <1>7, <1>8, <1>9

\* The first elements of a sequence without repetitions, and the others.
Parts(s, n, a, z) ==
    /\ Len(a) = n /\ \A i \in 1..n : a[i] = s[i]
    /\ Len(z) = Len(s) - n /\ \A i \in 1..Len(z) : z[i] = s[n + i]
    /\ IsInjective(a) /\ IsInjective(z)
    /\ ToSet(z) \cup ToSet(a) = ToSet(s) /\ ToSet(z) \cap ToSet(a) = {}

\* A list that names no Buffer twice, in two parts.
LEMMA SplitFacts ==
    ASSUME NEW S, NEW s \in Seq(S), IsInjective(s), NEW n \in 0..Len(s)
    PROVE  /\ SubSeq(s, 1, n) \in Seq(S) /\ SubSeq(s, n + 1, Len(s)) \in Seq(S)
           /\ Parts(s, n, SubSeq(s, 1, n), SubSeq(s, n + 1, Len(s)))
<1> DEFINE a == SubSeq(s, 1, n)
           z == SubSeq(s, n + 1, Len(s))
<1>1. a \in Seq(S) /\ Len(a) = n /\ \A i \in 1..n : a[i] = s[i]
    OBVIOUS
<1>2. /\ z \in Seq(S) /\ IsInjective(z) /\ Len(z) = Len(s) - n
      /\ \A i \in 1..Len(z) : z[i] = s[n + i]
      /\ ToSet(s) = ToSet(z) \cup {s[i] : i \in 1..n}
      /\ \A i \in 1..n : s[i] \notin ToSet(z)
    BY RestFacts
<1>3. DOMAIN s = 1..Len(s) /\ DOMAIN a = 1..n /\ 1..n \subseteq 1..Len(s)
    BY <1>1
<1> HIDE DEF a, z
<1>5. ToSet(a) = {s[i] : i \in 1..n}
    BY <1>1, ToSetFacts
<1>6. IsInjective(a)
    BY <1>1, <1>3 DEF IsInjective
<1>7. ToSet(z) \cup ToSet(a) = ToSet(s) /\ ToSet(z) \cap ToSet(a) = {}
    BY <1>2, <1>5
<1>. QED  BY <1>1, <1>2, <1>6, <1>7, Zenon DEF a, z, Parts

\* new was taken out of the pool, and left the pool p, n Buffers with contents d.
Taken(new, n, p, d) ==
    /\ n \in Nat /\ all <= n
    /\ p \in Seq(1..n) /\ new \in Seq(1..n) /\ d \in [1..n -> Seq(Units)]
    /\ IsInjective(p) /\ IsInjective(new) /\ ToSet(p) \cap ToSet(new) = {}
    /\ ToSet(p) \cup ToSet(new) = ToSet(pool) \cup ((all + 1)..n)
    /\ \A b \in 1..all : d[b] = data[b]
    /\ \A b \in (all + 1)..n : d[b] = <<>>

Total(k) == all + Len(Grown(k)) - Len(pool)

\* Buffers taken from the front of the pool, once it has grown.
LEMMA GrownTaken ==
    ASSUME TypeOK, IsInjective(pool), NEW k \in Nat
    PROVE  /\ Len(SubSeq(Grown(k), 1, k)) = k
           /\ \A i \in 1..k : SubSeq(Grown(k), 1, k)[i] = Grown(k)[i]
           /\ Taken(SubSeq(Grown(k), 1, k), Total(k),
                    SubSeq(Grown(k), k + 1, Len(Grown(k))), Contents(k))
<1> DEFINE g == Grown(k)
           n == all + Len(g) - Len(pool)
           m == Len(g) - Len(pool)
           lp == Len(pool)
           new == SubSeq(g, 1, k)
           rest == SubSeq(g, k + 1, Len(g))
           more == [i \in 1..m |-> <<>>]
           d == data \o more
<1>1. /\ Len(g) \in Nat /\ lp \in Nat /\ lp <= Len(g) /\ k <= Len(g) /\ g \in Seq(1..n)
      /\ \A i \in 1..lp : g[i] = pool[i]
      /\ \A i \in 1..m : g[lp + i] = all + i
    BY GrownFacts
<1>2. Total(k) = n /\ Contents(k) = d
    BY DEF Total, Contents
<1>3. all \in Nat /\ pool \in Seq(1..all) /\ data \in [1..all -> Seq(Units)]
    BY DEF TypeOK, Buffers
<1> HIDE DEF g
<1>4. m \in Nat /\ n = all + m /\ Len(g) = lp + m
    BY <1>1, <1>3
<1> HIDE DEF n, m
<1>5. /\ d \in [1..n -> Seq(Units)] /\ \A b \in 1..all : d[b] = data[b]
      /\ \A b \in (all + 1)..n : d[b] = <<>>
    <2> DEFINE U == Seq(Units)
    <2>1. <<>> \in U
        OBVIOUS
    <2> HIDE DEF U
    <2>2. data \in Seq(U) /\ Len(data) = all
        BY <1>3 DEF U
    <2>3. more \in Seq(U) /\ Len(more) = m /\ \A i \in 1..m : more[i] = <<>>
        BY <1>4, <2>1
    <2> HIDE DEF more
    <2>4. /\ d \in Seq(U) /\ Len(d) = all + m
          /\ \A i \in 1..(all + m) : d[i] = IF i <= all THEN data[i] ELSE more[i - all]
        <3>1. /\ d \in Seq(U) /\ Len(d) = Len(data) + Len(more)
              /\ \A i \in 1..(Len(data) + Len(more)) :
                     d[i] = IF i <= Len(data) THEN data[i] ELSE more[i - Len(data)]
            BY <2>2, <2>3, ConcatProperties, Zenon
        <3>. QED  BY <2>2, <2>3, <3>1, Zenon
    <2> HIDE DEF d
    <2>5. d \in [1..n -> U]
        BY <1>3, <1>4, <2>4
    <2>6. \A b \in 1..all : d[b] = data[b]
        BY <1>3, <1>4, <2>4
    <2>7. ASSUME NEW b \in (all + 1)..n PROVE d[b] = <<>>
        <3>1. b \in 1..(all + m) /\ ~(b <= all) /\ b - all \in 1..m
            BY <1>3, <1>4
        <3>. QED  BY <2>3, <2>4, <3>1, Zenon
    <2>. QED  BY <2>5, <2>6, <2>7 DEF U
<1>6. \A i \in 1..Len(g) : i \in 1..lp \/ \E j \in 1..m : i = lp + j
    <2>1. ASSUME NEW i \in 1..Len(g), i \notin 1..lp PROVE \E j \in 1..m : i = lp + j
        <3>1. i - lp \in 1..m /\ i = lp + (i - lp)
            BY <1>1, <1>4, <2>1
        <3>. QED  BY <3>1
    <2>. QED  BY <2>1
<1>7. ASSUME NEW x PROVE x \in ToSet(g) <=> x \in ToSet(pool) \cup ((all + 1)..n)
    <2>1. x \in ToSet(g) <=> \E i \in 1..Len(g) : g[i] = x
        BY <1>1, ToSetFacts
    <2>2. x \in ToSet(pool) <=> \E i \in 1..lp : pool[i] = x
        BY <1>3, ToSetFacts
    <2>3. x \in (all + 1)..n <=> \E i \in 1..m : x = all + i
        <3>1. ASSUME x \in (all + 1)..n PROVE \E i \in 1..m : x = all + i
            <4>1. x - all \in 1..m /\ x = all + (x - all)
                BY <1>3, <1>4, <3>1
            <4>. QED  BY <4>1
        <3>2. ASSUME NEW i \in 1..m PROVE all + i \in (all + 1)..n
            BY <1>3, <1>4
        <3>. QED  BY <3>1, <3>2
    <2>4. \A i \in 1..lp : i \in 1..Len(g)
        BY <1>1, <1>4
    <2>5. \A i \in 1..m : lp + i \in 1..Len(g)
        BY <1>1, <1>4
    <2>6. (\E i \in 1..Len(g) : g[i] = x) <=>
              \/ \E i \in 1..lp : pool[i] = x
              \/ \E i \in 1..m : x = all + i
        <3>1. ASSUME NEW i \in 1..Len(g), g[i] = x
              PROVE  (\E j \in 1..lp : pool[j] = x) \/ \E j \in 1..m : x = all + j
            BY <1>1, <1>6, <3>1, Zenon
        <3>2. ASSUME NEW i \in 1..lp, pool[i] = x PROVE \E j \in 1..Len(g) : g[j] = x
            BY <1>1, <2>4, <3>2, Zenon
        <3>3. ASSUME NEW i \in 1..m, x = all + i PROVE \E j \in 1..Len(g) : g[j] = x
            BY <1>1, <2>5, <3>3, Zenon
        <3>. QED  BY <3>1, <3>2, <3>3, Zenon
    <2>. QED  BY <2>1, <2>2, <2>3, <2>6, Zenon
<1>8. IsInjective(g)
    <2>1. DOMAIN g = 1..Len(g) /\ DOMAIN pool = 1..lp
        BY <1>1, <1>3
    <2>2. \A i, j \in 1..lp : pool[i] = pool[j] => i = j
        BY <2>1 DEF IsInjective
    <2>3. \A i \in 1..lp : pool[i] \in 1..all
        BY <1>3
    <2>4. ASSUME NEW i \in 1..lp, NEW j \in 1..m PROVE g[i] # g[lp + j]
        <3>1. g[i] \in 1..all /\ g[lp + j] = all + j
            BY <1>1, <2>3, Zenon
        <3>. QED  BY <1>3, <1>4, <3>1
    <2>5. ASSUME NEW i \in 1..m, NEW j \in 1..m, g[lp + i] = g[lp + j] PROVE i = j
        <3>1. all + i = all + j
            BY <1>1, <2>5, Zenon
        <3>. QED  BY <1>3, <1>4, <3>1
    <2>6. ASSUME NEW i \in 1..Len(g), NEW j \in 1..Len(g), g[i] = g[j] PROVE i = j
        <3>1. CASE i \in 1..lp /\ j \in 1..lp
            BY <1>1, <2>2, <2>6, <3>1, Zenon
        <3>2. CASE i \in 1..lp /\ j \notin 1..lp
            BY <1>6, <2>4, <2>6, <3>2, Zenon
        <3>3. CASE i \notin 1..lp /\ j \in 1..lp
            BY <1>6, <2>4, <2>6, <3>3, Zenon
        <3>4. CASE i \notin 1..lp /\ j \notin 1..lp
            BY <1>6, <2>5, <2>6, <3>4, Zenon
        <3>. QED  BY <3>1, <3>2, <3>3, <3>4, Zenon
    <2>. QED  BY <2>1, <2>6, Zenon DEF IsInjective
<1>9. k \in 0..Len(g) /\ g \in Seq(1..n)
    BY <1>1
<1>10. new \in Seq(1..n) /\ rest \in Seq(1..n) /\ Parts(g, k, new, rest)
    BY <1>8, <1>9, SplitFacts
<1> HIDE DEF new, rest, d
<1>11. /\ Len(new) = k /\ \A i \in 1..k : new[i] = g[i]
       /\ IsInjective(new) /\ IsInjective(rest)
       /\ ToSet(rest) \cup ToSet(new) = ToSet(g) /\ ToSet(rest) \cap ToSet(new) = {}
    BY <1>10, Zenon DEF Parts
<1>14. n \in Nat /\ all <= n
    BY <1>3, <1>4
<1>15. ToSet(rest) \cup ToSet(new) = ToSet(pool) \cup ((all + 1)..n)
    BY <1>7, <1>10, <1>11
<1>16. Taken(new, n, rest, d)
    BY <1>5, <1>10, <1>11, <1>14, <1>15, Zenon DEF Taken
<1>. QED  BY <1>2, <1>10, <1>11, <1>16, Zenon DEF new, rest, d, g

\* What AllocBuffer called k times hands out.
LEMMA AllocFacts ==
    ASSUME TypeOK, IsInjective(pool), NEW k \in Nat, AllocBuffers(k)
    PROVE  /\ Len(SubSeq(Grown(k), 1, k)) = k
           /\ \A i \in 1..k : SubSeq(Grown(k), 1, k)[i] = Grown(k)[i]
           /\ Taken(SubSeq(Grown(k), 1, k), all', pool', Contents(k))
<1>1. all' = Total(k) /\ pool' = SubSeq(Grown(k), k + 1, Len(Grown(k)))
    BY Zenon DEF AllocBuffers, Total
<1>. QED  BY <1>1, GrownTaken, Zenon

-----------------------------------------------------------------------------
(* The inductive invariant.                                                *)

\* The Buffers of a session, each in one of its lists and once.
Held(s) == ToSet(recvList[s]) \cup ToSet(sendList[s])
OwnLists(s) ==
    /\ IsInjective(recvList[s]) /\ IsInjective(sendList[s])
    /\ ToSet(recvList[s]) \cap ToSet(sendList[s]) = {}

\* OneOwner, said of one list at a time.
Owned ==
    /\ IsInjective(pool) /\ ToSet(pool) \cap leaked = {}
    /\ \A s \in Sessions : /\ OwnLists(s) /\ Held(s) \cap ToSet(pool) = {}
                           /\ Held(s) \cap leaked = {}
    /\ \A s, t \in Sessions : s # t => Held(s) \cap Held(t) = {}
    /\ \A b \in Buffers : b \in leaked \/ b \in ToSet(pool) \/ \E s \in Sessions : b \in Held(s)

Clean == \A b \in ToSet(pool) : data[b] = <<>>
NotOverrun == \A b \in Buffers : Len(data[b]) <= BufSize
FullButLast(d, list) == \A i \in 1..(Len(list) - 1) : Len(d[list[i]]) = BufSize

\* handle_read has received something, and goes on until EAGAIN.
ReadingSomething ==
    /\ reading # NoSession => recvList[reading] # <<>>
    /\ drained => reading # NoSession

\* What the receive list of a session holds, and what its send list holds.
Receives(s) ==
    /\ FullButLast(data, recvList[s])
    /\ s \in alive =>
           handled[s] \o Content(data, recvList[s]) = Stream(s, 0, received[s])

InOrder(s, w, out) ==
    /\ \A i \in DOMAIN out : out[i][1] = s /\ out[i][2] \in 1..w
    /\ \A i, j \in DOMAIN out : i < j => out[i][2] < out[j][2]

Sends(s) ==
    /\ FullButLast(data, sendList[s])
    /\ s \in alive =>
           /\ InOrder(s, written[s], wire[s] \o Content(data, sendList[s]))
           /\ s \notin short =>
                  wire[s] \o Content(data, sendList[s]) = Stream(s, 0, written[s])

IInv ==
    /\ TypeOK /\ Owned /\ Clean /\ NotOverrun /\ ReadingSomething
    /\ \A s \in Sessions : Receives(s) /\ Sends(s)

\* The lists of a session are lists of Buffers.
LEMMA ListFacts ==
    ASSUME TypeOK, NEW s \in Sessions
    PROVE  /\ recvList[s] \in Seq(1..all) /\ sendList[s] \in Seq(1..all)
           /\ ToSet(recvList[s]) \subseteq 1..all /\ ToSet(sendList[s]) \subseteq 1..all
           /\ Held(s) \subseteq 1..all
           /\ handled[s] \in Seq(Units) /\ wire[s] \in Seq(Units)
           /\ received[s] \in Nat /\ written[s] \in Nat
           /\ Joins(Listed(s), recvList[s], sendList[s])
<1> DEFINE B == 1..all
           U == Seq(Units)
<1>1. /\ recvList \in [Sessions -> Seq(B)] /\ sendList \in [Sessions -> Seq(B)]
      /\ handled \in [Sessions -> U] /\ wire \in [Sessions -> U]
      /\ received \in [Sessions -> Nat] /\ written \in [Sessions -> Nat]
    BY DEF TypeOK, Buffers
<1> HIDE DEF B, U
<1>2. /\ recvList[s] \in Seq(B) /\ sendList[s] \in Seq(B)
      /\ handled[s] \in U /\ wire[s] \in U /\ received[s] \in Nat /\ written[s] \in Nat
    BY <1>1
<1>3. ToSet(recvList[s]) \subseteq B /\ ToSet(sendList[s]) \subseteq B
    BY <1>2, ToSetFacts
<1>4. Joins(Listed(s), recvList[s], sendList[s])
    BY <1>2, JoinFacts, Zenon DEF Listed
<1>. QED  BY <1>2, <1>3, <1>4, Zenon DEF B, U, Held

\* One owner for every Buffer, said list by list, is what OneOwner says.
LEMMA OwnedIsOneOwner == TypeOK => (Owned <=> OneOwner)
<1> SUFFICES ASSUME TypeOK PROVE Owned <=> OneOwner
    OBVIOUS
<1>1. ASSUME NEW s \in Sessions
      PROVE  ToSet(Listed(s)) = Held(s) /\ (IsInjective(Listed(s)) <=> OwnLists(s))
    BY ListFacts, Zenon DEF Joins, Held, OwnLists
<1> DEFINE P == ToSet(pool)
           held == P \cup UNION {ToSet(Listed(s)) : s \in Sessions}
<1>2. /\ P \subseteq Buffers /\ leaked \subseteq Buffers
      /\ \A s \in Sessions : Held(s) \subseteq Buffers
    <2>1. pool \in Seq(Buffers) /\ leaked \subseteq Buffers
        BY DEF TypeOK
    <2>2. P \subseteq Buffers
        BY <2>1, ToSetFacts
    <2>3. \A s \in Sessions : Held(s) \subseteq Buffers
        BY ListFacts, Zenon DEF Buffers
    <2>. QED  BY <2>1, <2>2, <2>3, Zenon
<1>3. OneOwner <=>
        /\ IsInjective(pool) /\ \A s \in Sessions : IsInjective(Listed(s))
        /\ \A s \in Sessions : P \cap ToSet(Listed(s)) = {}
        /\ \A s, t \in Sessions : s # t => ToSet(Listed(s)) \cap ToSet(Listed(t)) = {}
        /\ leaked \cap held = {} /\ Buffers = leaked \cup held
    BY Zenon DEF OneOwner
<1>4. Owned <=>
        /\ IsInjective(pool) /\ P \cap leaked = {}
        /\ \A s \in Sessions : OwnLists(s) /\ Held(s) \cap P = {} /\ Held(s) \cap leaked = {}
        /\ \A s, t \in Sessions : s # t => Held(s) \cap Held(t) = {}
        /\ \A b \in Buffers : b \in leaked \/ b \in P \/ \E s \in Sessions : b \in Held(s)
    BY Zenon DEF Owned
<1> DEFINE H == UNION {Held(s) : s \in Sessions}
<1>5. held = P \cup H
    BY <1>1
<1>6. \A b : b \in H <=> \E s \in Sessions : b \in Held(s)
    OBVIOUS
<1> HIDE DEF P, held, H
<1>7. \A b : b \in held <=> b \in P \/ \E s \in Sessions : b \in Held(s)
    BY <1>5, <1>6
<1>8. leaked \cap held = {} <=>
          P \cap leaked = {} /\ \A s \in Sessions : Held(s) \cap leaked = {}
    BY <1>7
<1>9. Buffers = leaked \cup held <=>
          \A b \in Buffers : b \in leaked \/ b \in P \/ \E s \in Sessions : b \in Held(s)
    BY <1>2, <1>7
<1>10. \A s \in Sessions : P \cap ToSet(Listed(s)) = {} <=> Held(s) \cap P = {}
    BY <1>1
<1>11. \A s, t \in Sessions :
           ToSet(Listed(s)) \cap ToSet(Listed(t)) = {} <=> Held(s) \cap Held(t) = {}
    BY <1>1
<1>12. (\A s \in Sessions : IsInjective(Listed(s))) <=> \A s \in Sessions : OwnLists(s)
    BY <1>1, Zenon
<1>13. (\A s \in Sessions : P \cap ToSet(Listed(s)) = {})
           <=> \A s \in Sessions : Held(s) \cap P = {}
    BY <1>10, Zenon
<1>14. (\A s, t \in Sessions : s # t => ToSet(Listed(s)) \cap ToSet(Listed(t)) = {})
           <=> \A s, t \in Sessions : s # t => Held(s) \cap Held(t) = {}
    BY <1>11, Zenon
<1>15. ASSUME Owned PROVE OneOwner
    BY <1>3, <1>4, <1>8, <1>9, <1>12, <1>13, <1>14, <1>15, Zenon
<1>16. ASSUME OneOwner PROVE Owned
    BY <1>3, <1>4, <1>8, <1>9, <1>12, <1>13, <1>14, <1>16, Zenon
<1>. QED  BY <1>15, <1>16

\* The same after a step.
ListsOK(s) ==
    /\ recvList[s] \in Seq(1..all) /\ sendList[s] \in Seq(1..all)
    /\ ToSet(recvList[s]) \subseteq 1..all /\ ToSet(sendList[s]) \subseteq 1..all
    /\ Held(s) \subseteq 1..all /\ ToSet(pool) \subseteq 1..all /\ leaked \subseteq 1..all
    /\ Fits(data, recvList[s]) /\ Fits(data, sendList[s])
    /\ handled[s] \in Seq(Units) /\ wire[s] \in Seq(Units)
    /\ received[s] \in Nat /\ written[s] \in Nat

\* The lists name Buffers that exist, before and after a step.
LEMMA ListsAreOK ==
    /\ TypeOK => \A s \in Sessions : ListsOK(s)
    /\ (TypeOK => \A s \in Sessions : ListsOK(s))'
<1>1. ASSUME TypeOK, NEW s \in Sessions PROVE ListsOK(s)
    <2>1. all \in Nat /\ data \in [1..all -> Seq(Units)] /\ pool \in Seq(1..all)
          /\ leaked \subseteq 1..all
        BY <1>1 DEF TypeOK, Buffers
    <2>2. recvList[s] \in Seq(1..all) /\ sendList[s] \in Seq(1..all)
        BY <1>1, ListFacts
    <2>3. ToSet(pool) \subseteq 1..all
        BY <2>1, ToSetFacts
    <2>4. Fits(data, recvList[s]) /\ Fits(data, sendList[s])
        BY <2>1, <2>2, FitsFacts
    <2>. QED  BY <1>1, <2>1, <2>3, <2>4, ListFacts, Zenon DEF ListsOK
<1>2. TypeOK => \A s \in Sessions : ListsOK(s)
    BY <1>1
<1>. QED  BY <1>2, PTL

\* What an operation on session s does to its Buffers and to the pool keeps the
\* owners apart when no other session's lists change.
SameLists(t) == recvList'[t] = recvList[t] /\ sendList'[t] = sendList[t]
Handles(s) ==
    /\ \A t \in Sessions : t # s => SameLists(t)
    /\ IsInjective(pool') /\ OwnLists(s)'
    /\ ToSet(pool') \cap leaked' = {}
    /\ Held(s)' \cap ToSet(pool') = {} /\ Held(s)' \cap leaked' = {}
    /\ Held(s)' \cup ToSet(pool') \cup leaked'
           = Held(s) \cup ToSet(pool) \cup leaked \cup ((all + 1)..all')

\* A step of one session that hands no Buffer to two keeps the ownership of all.
LEMMA OwnedStep ==
    ASSUME TypeOK, TypeOK', Owned, NEW s \in Sessions, Handles(s), all <= all'
    PROVE  Owned'
<1> DEFINE H == Held(s)'
           P == ToSet(pool')
           L == leaked'
           new == (all + 1)..all'
<1>1. /\ all \in Nat /\ all' \in Nat
      /\ \A t \in Sessions : Held(t) \subseteq 1..all
    BY ListFacts DEF TypeOK
<1>2. ASSUME NEW t \in Sessions, t # s PROVE Held(t)' = Held(t) /\ OwnLists(t)'
    <2>1. SameLists(t) /\ OwnLists(t)
        BY <1>2, Zenon DEF Handles, Owned
    <2>. QED  BY <2>1, Zenon DEF SameLists, Held, OwnLists
<1>3. H \cup P \cup L = Held(s) \cup ToSet(pool) \cup leaked \cup new
    BY Zenon DEF Handles
<1>4. ASSUME NEW t \in Sessions, t # s
      PROVE  Held(t)' \cap H = {} /\ Held(t)' \cap P = {} /\ Held(t)' \cap L = {}
    <2>1. /\ Held(t) \cap Held(s) = {} /\ Held(t) \cap ToSet(pool) = {}
          /\ Held(t) \cap leaked = {}
        BY <1>4, Zenon DEF Owned
    <2>2. Held(t) \cap new = {}
        BY <1>1
    <2>3. Held(t) \cap (H \cup P \cup L) = {}
        <3> HIDE DEF new, H, P, L
        <3>. QED  BY <1>3, <2>1, <2>2
    <2> HIDE DEF H, P, L
    <2>. QED  BY <1>2, <1>4, <2>3
<1>5. IsInjective(pool') /\ P \cap L = {}
    BY Zenon DEF Handles
<1>6. \A t \in Sessions : OwnLists(t)' /\ Held(t)' \cap P = {} /\ Held(t)' \cap L = {}
    <2>1. OwnLists(s)' /\ Held(s)' \cap P = {} /\ Held(s)' \cap L = {}
        BY Zenon DEF Handles
    <2>. QED  BY <1>2, <1>4, <2>1, Zenon
<1>7. \A t, u \in Sessions : t # u => Held(t)' \cap Held(u)' = {}
    <2> SUFFICES ASSUME NEW t \in Sessions, NEW u \in Sessions, t # u
                 PROVE  Held(t)' \cap Held(u)' = {}
        OBVIOUS
    <2>1. CASE t = s
        BY <1>4, <2>1
    <2>2. CASE u = s
        BY <1>4, <2>2
    <2>3. CASE t # s /\ u # s
        <3>1. Held(t) \cap Held(u) = {}
            BY Zenon DEF Owned
        <3>. QED  BY <1>2, <2>3, <3>1
    <2>. QED  BY <2>1, <2>2, <2>3
<1>8. ASSUME NEW b \in 1..all', b \notin L, b \notin P
      PROVE  \E t \in Sessions : b \in Held(t)'
    <2>1. CASE b \in H
        BY <2>1
    <2>2. CASE b \notin H
        <3>1. b \notin H \cup P \cup L
            BY <1>8, <2>2
        <3>2. b \notin Held(s) /\ b \notin ToSet(pool) /\ b \notin leaked /\ b \notin new
            <4> HIDE DEF H, P, L, new
            <4>. QED  BY <1>3, <3>1
        <3>3. b \in Buffers
            BY <1>1, <3>2 DEF Buffers
        <3>4. PICK t \in Sessions : b \in Held(t)
            BY <3>2, <3>3, Zenon DEF Owned
        <3>. QED  BY <1>2, <3>2, <3>4, Zenon
    <2>. QED  BY <2>1, <2>2
<1>. QED  BY <1>5, <1>6, <1>7, <1>8, Zenon DEF Owned, Buffers

\* A list stays full when its Buffers are left alone.
LEMMA FullKept ==
    ASSUME NEW S, NEW list \in Seq(S), NEW d, NEW e, FullButLast(d, list),
           \A b \in ToSet(list) : e[b] = d[b]
    PROVE  FullButLast(e, list)
<1>1. \A i \in 1..(Len(list) - 1) : list[i] \in ToSet(list)
    BY ToSetFacts
<1>. QED  BY <1>1, Zenon DEF FullButLast

\* A session whose receive list, or whose send list, is left alone, and the Buffers
\* in it too, has what it had.
LEMMA ReceivesKept ==
    ASSUME TypeOK, NEW t \in Sessions, Receives(t),
           recvList'[t] = recvList[t], handled'[t] = handled[t], received'[t] = received[t],
           t \in alive' => t \in alive, \A b \in ToSet(recvList[t]) : data'[b] = data[b]
    PROVE  Receives(t)'
<1>1. Fits(data, recvList[t]) /\ recvList[t] \in Seq(1..all)
    BY ListsAreOK, Zenon DEF ListsOK
<1>2. Content(data', recvList[t]) = Content(data, recvList[t])
    BY <1>1, ContentKept
<1>3. FullButLast(data', recvList[t])
    BY <1>1, FullKept, Zenon DEF Receives
<1>. QED  BY <1>2, <1>3, Zenon DEF Receives

\* A session whose send list and wire are left alone sends what it sent.
LEMMA SendsKept ==
    ASSUME TypeOK, NEW t \in Sessions, Sends(t),
           sendList'[t] = sendList[t], wire'[t] = wire[t], written'[t] = written[t],
           t \in alive' => t \in alive, t \in short => t \in short',
           \A b \in ToSet(sendList[t]) : data'[b] = data[b]
    PROVE  Sends(t)'
<1>1. Fits(data, sendList[t]) /\ sendList[t] \in Seq(1..all)
    BY ListsAreOK, Zenon DEF ListsOK
<1>2. Content(data', sendList[t]) = Content(data, sendList[t])
    BY <1>1, ContentKept
<1>3. FullButLast(data', sendList[t])
    BY <1>1, FullKept, Zenon DEF Sends
<1>. QED  BY <1>2, <1>3, Zenon DEF Sends

\* An operation on s leaves the other sessions what they had.
Leaves(s) ==
    /\ \A t \in Sessions : t # s =>
           /\ SameLists(t)
           /\ handled'[t] = handled[t] /\ received'[t] = received[t]
           /\ wire'[t] = wire[t] /\ written'[t] = written[t]
           /\ t \in short => t \in short'
    /\ alive' \subseteq alive
    /\ \A b \in 1..all : b \notin Held(s) /\ b \notin ToSet(pool) => data'[b] = data[b]

\* A step of one session leaves alone what the others receive and send.
LEMMA OthersKept ==
    ASSUME IInv, NEW s \in Sessions, Leaves(s), NEW t \in Sessions, t # s
    PROVE  Receives(t)' /\ Sends(t)'
<1>1. TypeOK /\ Receives(t) /\ Sends(t)
    BY Zenon DEF IInv
<1>2. Held(t) \cap Held(s) = {} /\ Held(t) \cap ToSet(pool) = {} /\ Held(t) \subseteq 1..all
    BY <1>1, ListsAreOK, Zenon DEF IInv, Owned, ListsOK
<1>3. \A b \in Held(t) : data'[b] = data[b]
    <2>1. \A b \in Held(t) : b \in 1..all /\ b \notin Held(s) /\ b \notin ToSet(pool)
        BY <1>2
    <2>. QED  BY <2>1, Zenon DEF Leaves
<1>4. /\ \A b \in ToSet(recvList[t]) : data'[b] = data[b]
      /\ \A b \in ToSet(sendList[t]) : data'[b] = data[b]
    BY <1>3, Zenon DEF Held
<1>5. /\ recvList'[t] = recvList[t] /\ sendList'[t] = sendList[t]
      /\ handled'[t] = handled[t] /\ received'[t] = received[t]
      /\ wire'[t] = wire[t] /\ written'[t] = written[t]
      /\ t \in short => t \in short'
    BY Zenon DEF Leaves, SameLists
<1>6. t \in alive' => t \in alive
    BY Zenon DEF Leaves
<1>7. Receives(t)'
    BY <1>1, <1>4, <1>5, <1>6, ReceivesKept, Zenon
<1>8. Sends(t)'
    BY <1>1, <1>4, <1>5, <1>6, SendsKept, Zenon
<1>. QED  BY <1>7, <1>8

\* What is left to show of an operation on session s.
LEMMA StepKeepsIInv ==
    ASSUME IInv, NEW s \in Sessions, TypeOK', Handles(s), Leaves(s), all <= all',
           Clean', NotOverrun', ReadingSomething', Receives(s)', Sends(s)'
    PROVE  IInv'
<1>1. TypeOK /\ Owned
    BY Zenon DEF IInv
<1>2. Owned'
    BY <1>1, OwnedStep, Zenon
<1>3. \A t \in Sessions : Receives(t)' /\ Sends(t)'
    BY OthersKept, Zenon
<1>. QED  BY <1>2, <1>3, Zenon DEF IInv

-----------------------------------------------------------------------------
(* Operations that give Buffers back, or away.                             *)

Released(bs) ==
    /\ pool' \in Seq(1..all) /\ all' = all /\ data' \in [1..all -> Seq(Units)]
    /\ IsInjective(pool') /\ ToSet(pool') = ToSet(pool) \cup ToSet(bs)
    /\ \A b \in 1..all : b \notin ToSet(bs) => data'[b] = data[b]
    /\ Clean' /\ NotOverrun'

\* Released Buffers are back in the pool, and empty.
LEMMA ReleaseFacts ==
    ASSUME TypeOK, Clean, NotOverrun, NEW bs \in Seq(1..all), Release(bs),
           IsInjective(pool), IsInjective(bs), ToSet(pool) \cap ToSet(bs) = {}
    PROVE  Released(bs)
<1> DEFINE B == 1..all
           U == Seq(Units)
<1>1. pool \in Seq(B) /\ bs \in Seq(B) /\ data \in [B -> U] /\ <<>> \in U /\ all \in Nat
    BY DEF TypeOK, Buffers
<1>2. /\ pool' = pool \o bs /\ all' = all
      /\ data' = [b \in B |-> IF b \in ToSet(bs) THEN <<>> ELSE data[b]]
    BY DEF Release, Cleared, Buffers
<1>3. Len(<<>>) = 0 /\ 0 <= BufSize
    OBVIOUS
<1> HIDE DEF U, B
<1>4. pool' \in Seq(B) /\ Joins(pool', pool, bs)
    BY <1>1, <1>2, JoinFacts, Zenon
<1>5. IsInjective(pool') /\ ToSet(pool') = ToSet(pool) \cup ToSet(bs)
    BY <1>4, Zenon DEF Joins
<1>6. data' \in [B -> U] /\ \A b \in B : b \notin ToSet(bs) => data'[b] = data[b]
    BY <1>1, <1>2
<1>7. \A b \in B : b \in ToSet(bs) => data'[b] = <<>>
    BY <1>2
<1>8. ToSet(pool) \subseteq B
    BY <1>1, ToSetFacts
<1>9. ToSet(bs) \subseteq B
    BY <1>1, ToSetFacts
<1>10. \A b \in ToSet(pool') : data'[b] = <<>>
    <2>1. ASSUME NEW b \in ToSet(pool') PROVE data'[b] = <<>>
        <3>1. CASE b \in ToSet(bs)
            BY <1>7, <1>9, <3>1
        <3>2. CASE b \notin ToSet(bs)
            <4>1. b \in ToSet(pool) /\ b \in B
                BY <1>5, <1>8, <3>2
            <4>. QED  BY <1>6, <3>2, <4>1, Zenon DEF Clean
        <3>. QED  BY <3>1, <3>2
    <2>. QED  BY <2>1
<1>11. \A b \in B : Len(data'[b]) <= BufSize
    BY <1>3, <1>6, <1>7, Zenon DEF NotOverrun, Buffers, B
<1>12. Clean' /\ NotOverrun'
    BY <1>2, <1>10, <1>11, Zenon DEF Clean, NotOverrun, Buffers, B
<1>. QED  BY <1>2, <1>4, <1>5, <1>6, <1>12, Zenon DEF Released, B, U

\* What is left of a deleted session, when the Buffers in its lists and those of new,
\* which came out of the pool, are left behind.
LEMMA DeletedFacts ==
    ASSUME IInv, NEW s \in Sessions, NEW new, DeleteSession(s, new),
           all' \in Nat, all <= all', ToSet(new) \subseteq 1..all'
    PROVE  /\ recvList' \in [Sessions -> Seq(1..all')] /\ recvList'[s] = <<>>
           /\ sendList' \in [Sessions -> Seq(1..all')] /\ sendList'[s] = <<>>
           /\ \A t \in Sessions : t # s => SameLists(t)
           /\ leaked' = leaked \cup Held(s) \cup ToSet(new) /\ leaked' \subseteq 1..all'
           /\ Held(s)' = {} /\ OwnLists(s)'
           /\ alive' \subseteq alive /\ Receives(s)' /\ Sends(s)'
<1>1. /\ all \in Nat /\ leaked \subseteq 1..all
      /\ recvList \in [Sessions -> Seq(1..all)] /\ sendList \in [Sessions -> Seq(1..all)]
    BY DEF IInv, TypeOK, Buffers
<1>2. ListsOK(s)
    BY ListsAreOK, Zenon DEF IInv
<1>3. /\ alive' = alive \ {s}
      /\ leaked' = leaked \cup ToSet(recvList[s]) \cup ToSet(new) \cup ToSet(sendList[s])
      /\ recvList' = [recvList EXCEPT ![s] = <<>>]
      /\ sendList' = [sendList EXCEPT ![s] = <<>>]
    BY DEF DeleteSession
<1>4. /\ recvList'[s] = <<>> /\ sendList'[s] = <<>>
      /\ \A t \in Sessions : t # s => SameLists(t)
    BY <1>1, <1>3 DEF SameLists
<1>5. /\ recvList' \in [Sessions -> Seq(1..all')] /\ sendList' \in [Sessions -> Seq(1..all')]
    <2> DEFINE S0 == Seq(1..all)
               S1 == Seq(1..all')
    <2>1. 1..all \subseteq 1..all' /\ <<>> \in S1
        BY <1>1
    <2>2. \A l \in S0 : l \in S1
        BY <2>1, SeqIn, Zenon
    <2>3. recvList \in [Sessions -> S0] /\ sendList \in [Sessions -> S0]
        BY <1>1
    <2> HIDE DEF S0, S1
    <2>4. recvList' \in [Sessions -> S1] /\ sendList' \in [Sessions -> S1]
        BY <1>3, <2>1, <2>2, <2>3
    <2>. QED  BY <2>4 DEF S1
<1>6. leaked' = leaked \cup Held(s) \cup ToSet(new) /\ leaked' \subseteq 1..all'
    <2>1. Held(s) \subseteq 1..all /\ 1..all \subseteq 1..all'
        BY <1>1, <1>2 DEF ListsOK
    <2>2. leaked' = leaked \cup Held(s) \cup ToSet(new)
        BY <1>3 DEF Held
    <2>. QED  BY <1>1, <2>1, <2>2
<1>7. ToSet(<<>>) = {} /\ IsInjective(<<>>)
    BY DEF ToSet, IsInjective
<1>8. Held(s)' = {} /\ OwnLists(s)'
    BY <1>4, <1>7 DEF Held, OwnLists
<1>9. Receives(s)' /\ Sends(s)'
    <2>1. FullButLast(data', <<>>)
        BY DEF FullButLast
    <2>2. s \notin alive'
        BY <1>3
    <2>. QED  BY <1>4, <2>1, <2>2, Zenon DEF Receives, Sends
<1>10. alive' \subseteq alive
    BY <1>3
<1>. QED  BY <1>4, <1>5, <1>6, <1>8, <1>9, <1>10

\* delete after EPOLLERR: the Buffers of the lists are left behind.
LEMMA ErrorSessionKeeps ==
    ASSUME IInv, NEW s \in Sessions, ErrorSession(s)
    PROVE  IInv'
<1>1. TypeOK /\ Owned
    BY Zenon DEF IInv
<1>2. /\ reading' = NoSession /\ alive' = alive \ {s} /\ reading = NoSession
      /\ UNCHANGED <<pool, all, data, drained, received, handled, written, wire, short>>
    BY DEF ErrorSession, DeleteSession, poolVars
<1>3. ToSet(<<>>) = {} /\ all' \in Nat /\ all <= all'
    BY <1>1, <1>2 DEF ToSet, TypeOK
<1>4. DeleteSession(s, <<>>) /\ ToSet(<<>>) \subseteq 1..all'
    BY <1>3 DEF ErrorSession
<1>5. /\ recvList' \in [Sessions -> Seq(1..all')] /\ sendList' \in [Sessions -> Seq(1..all')]
      /\ \A t \in Sessions : t # s => SameLists(t)
      /\ leaked' = leaked \cup Held(s) \cup ToSet(<<>>) /\ leaked' \subseteq 1..all'
      /\ Held(s)' = {} /\ OwnLists(s)'
      /\ alive' \subseteq alive /\ Receives(s)' /\ Sends(s)'
    BY <1>3, <1>4, DeletedFacts, Zenon
<1>6. TypeOK'
    <2>1. reading' \in alive' \cup {NoSession} /\ alive' \subseteq Sessions
        BY <1>1, <1>2 DEF TypeOK
    <2>. QED  BY <1>1, <1>2, <1>5, <2>1, Zenon DEF TypeOK, Buffers
<1>7. Handles(s)
    <2>1. (all + 1)..all' = {}
        BY <1>1, <1>2 DEF TypeOK
    <2>2. IsInjective(pool) /\ ToSet(pool) \cap leaked = {} /\ Held(s) \cap ToSet(pool) = {}
        BY <1>1, Zenon DEF Owned
    <2>3. /\ ToSet(pool') \cap leaked' = {} /\ IsInjective(pool')
          /\ Held(s)' \cup ToSet(pool') \cup leaked'
                 = Held(s) \cup ToSet(pool) \cup leaked \cup ((all + 1)..all')
          /\ Held(s)' \cap ToSet(pool') = {} /\ Held(s)' \cap leaked' = {}
        BY <1>2, <1>3, <1>5, <2>1, <2>2
    <2>. QED  BY <1>5, <2>3, Zenon DEF Handles
<1>8. Leaves(s)
    BY <1>2, <1>5, Zenon DEF Leaves
<1>9. Clean' /\ NotOverrun'
    BY <1>2, Zenon DEF IInv, Clean, NotOverrun, Buffers
<1>10. ReadingSomething'
    <2>1. ~drained
        BY <1>2 DEF IInv, ReadingSomething
    <2>. QED  BY <1>2, <2>1 DEF ReadingSomething
<1>. QED  BY <1>3, <1>5, <1>6, <1>7, <1>8, <1>9, <1>10, StepKeepsIInv, Zenon

\* A full list without its first Buffer is full.
LEMMA TailFull ==
    ASSUME NEW d, NEW list, Fits(d, list), list # <<>>, FullButLast(d, list)
    PROVE  FullButLast(d, Tail(list))
<1>1. /\ Len(list) \in Nat \ {0} /\ Len(Tail(list)) = Len(list) - 1
      /\ \A i \in 1..Len(Tail(list)) : Tail(list)[i] = list[i + 1]
    BY DEF Fits
<1>2. \A i \in 1..(Len(Tail(list)) - 1) :
          i + 1 \in 1..(Len(list) - 1) /\ Tail(list)[i] = list[i + 1]
    BY <1>1
<1>. QED  BY <1>2, Zenon DEF FullButLast

\* The read handler gets the first Buffer, which returns to the pool.
LEMMA ReadHandlerKeeps ==
    ASSUME IInv, NEW s \in Sessions, ReadHandler(s)
    PROVE  IInv'
<1> DEFINE list == recvList[s]
           h == Head(list)
           B == 1..all
<1>1. /\ TypeOK /\ Owned /\ Clean /\ NotOverrun /\ ReadingSomething
      /\ Receives(s) /\ Sends(s)
    BY Zenon DEF IInv
<1>2. ListsOK(s)
    BY <1>1, ListsAreOK
<1>3. /\ reading = s /\ drained /\ handled' = [handled EXCEPT ![s] = @ \o data[h]]
      /\ recvList' = [recvList EXCEPT ![s] = Tail(@)]
      /\ Release(<<h>>) /\ reading' = NoSession /\ drained' = FALSE
    BY DEF ReadHandler
<1>4. UNCHANGED <<received, sendList, written, wire, short, alive, leaked>>
    BY DEF ReadHandler, sendVars
<1>5. list # <<>> /\ list \in Seq(B)
    BY <1>1, <1>2, <1>3 DEF ReadingSomething, ListsOK
<1>6. OwnLists(s) /\ IsInjective(pool) /\ Held(s) \cap ToSet(pool) = {}
      /\ Held(s) \cap leaked = {} /\ ToSet(pool) \cap leaked = {}
    BY <1>1, Zenon DEF Owned
<1> HIDE DEF B
<1>7. /\ h \in B /\ Tail(list) \in Seq(B) /\ h \in ToSet(list)
      /\ ToSet(list) = ToSet(Tail(list)) \cup {h}
      /\ IsInjective(Tail(list)) /\ h \notin ToSet(Tail(list))
    BY <1>5, <1>6, TailFacts, Zenon DEF OwnLists
<1>8. /\ <<h>> \in Seq(B) /\ ToSet(<<h>>) = {h} /\ IsInjective(<<h>>)
    BY <1>7 DEF ToSet, IsInjective
<1>9. Released(<<h>>)
    <2>1. ToSet(pool) \cap ToSet(<<h>>) = {}
        BY <1>6, <1>7, <1>8 DEF Held
    <2>. QED  BY <1>1, <1>3, <1>6, <1>8, <2>1, ReleaseFacts, Zenon DEF B
<1>10. /\ pool' \in Seq(B) /\ all' = all /\ data' \in [B -> Seq(Units)]
       /\ IsInjective(pool') /\ ToSet(pool') = ToSet(pool) \cup {h}
       /\ \A b \in B : b # h => data'[b] = data[b]
       /\ Clean' /\ NotOverrun'
    BY <1>8, <1>9 DEF Released, B
<1>11. /\ recvList'[s] = Tail(list) /\ handled'[s] = handled[s] \o data[h]
       /\ \A t \in Sessions : t # s =>
              recvList'[t] = recvList[t] /\ handled'[t] = handled[t]
    <2>1. recvList \in [Sessions -> Seq(Buffers)] /\ handled \in [Sessions -> Seq(Units)]
        BY <1>1 DEF TypeOK
    <2> HIDE DEF h
    <2>. QED  BY <1>3, <2>1
<1>12. /\ Fits(data, Tail(list)) /\ data[h] \in Seq(Units)
       /\ Content(data, list) = data[h] \o Content(data, Tail(list))
    BY <1>2, <1>5, ContentHead, Zenon DEF ListsOK
<1>13. TypeOK'
    <2>1. /\ recvList \in [Sessions -> Seq(B)] /\ handled \in [Sessions -> Seq(Units)]
        BY <1>1 DEF TypeOK, Buffers, B
    <2>2. recvList' \in [Sessions -> Seq(B)]
        BY <1>3, <1>7, <2>1
    <2>3. handled' \in [Sessions -> Seq(Units)]
        <3> DEFINE x == data[h]
        <3>1. handled[s] \o x \in Seq(Units)
            BY <1>2, <1>12 DEF ListsOK
        <3> HIDE DEF x
        <3>. QED  BY <1>3, <2>1, <3>1 DEF x
    <2>4. reading' \in alive' \cup {NoSession} /\ drained' \in BOOLEAN
        BY <1>3
    <2>5. Buffers' = B
        BY <1>10 DEF Buffers, B
    <2>. QED  BY <1>1, <1>4, <1>10, <2>2, <2>3, <2>4, <2>5, Zenon DEF TypeOK, Buffers, B
<1>14. Held(s)' = ToSet(Tail(list)) \cup ToSet(sendList[s]) /\ OwnLists(s)'
    <2>1. ToSet(Tail(list)) \cap ToSet(sendList[s]) = {}
        BY <1>6, <1>7 DEF OwnLists
    <2>. QED  BY <1>4, <1>6, <1>7, <1>11, <2>1, Zenon DEF Held, OwnLists
<1>15. Held(s) = Held(s)' \cup {h} /\ h \notin Held(s)'
    <2>1. h \notin ToSet(sendList[s])
        BY <1>6, <1>7 DEF OwnLists
    <2>2. Held(s) = ToSet(list) \cup ToSet(sendList[s])
        BY DEF Held
    <2>. QED  BY <1>7, <1>14, <2>1, <2>2
<1>16. Handles(s)
    <2>1. (all + 1)..all' = {}
        BY <1>1, <1>10 DEF TypeOK
    <2>2. /\ ToSet(pool') \cap leaked' = {}
          /\ Held(s)' \cap ToSet(pool') = {} /\ Held(s)' \cap leaked' = {}
        BY <1>4, <1>6, <1>10, <1>15
    <2>3. Held(s)' \cup ToSet(pool') \cup leaked'
              = Held(s) \cup ToSet(pool) \cup leaked \cup ((all + 1)..all')
        BY <1>4, <1>10, <1>15, <2>1
    <2>4. \A t \in Sessions : t # s => SameLists(t)
        BY <1>4, <1>11, Zenon DEF SameLists
    <2>. QED  BY <1>10, <1>14, <2>2, <2>3, <2>4, Zenon DEF Handles
<1>17. Leaves(s)
    <2>1. \A b \in 1..all : b \notin Held(s) => data'[b] = data[b]
        BY <1>10, <1>15 DEF B
    <2>2. \A t \in Sessions : t # s => SameLists(t)
        BY <1>16, Zenon DEF Handles
    <2>3. alive' \subseteq alive
        BY <1>4
    <2>. QED  BY <1>4, <1>11, <2>1, <2>2, <2>3, Zenon DEF Leaves
<1>18. Sends(s)'
    <2>1. \A b \in ToSet(sendList[s]) : b \in B /\ b # h
        BY <1>2, <1>14, <1>15 DEF ListsOK, B
    <2>2. \A b \in ToSet(sendList[s]) : data'[b] = data[b]
        BY <1>10, <2>1, Zenon
    <2>. QED  BY <1>1, <1>4, <2>2, SendsKept, Zenon
<1>19. Receives(s)'
    <2>1. \A b \in ToSet(Tail(list)) : b \in B /\ b # h
        BY <1>2, <1>7 DEF ListsOK, B
    <2>2. \A b \in ToSet(Tail(list)) : data'[b] = data[b]
        BY <1>10, <2>1, Zenon
    <2>3. Content(data', Tail(list)) = Content(data, Tail(list))
        BY <1>12, <2>2, ContentKept, Zenon
    <2>4. FullButLast(data, Tail(list))
        BY <1>1, <1>2, <1>5, TailFull, Zenon DEF Receives, ListsOK
    <2>5. FullButLast(data', Tail(list))
        BY <1>7, <2>2, <2>4, FullKept, Zenon
    <2>6. ASSUME s \in alive
          PROVE  (handled[s] \o data[h]) \o Content(data, Tail(list))
                     = Stream(s, 0, received[s])
        <3> DEFINE f == handled[s]
                   x == data[h]
                   c == Content(data, Tail(list))
        <3>1. f \in Seq(Units) /\ x \in Seq(Units) /\ c \in Seq(Units)
            BY <1>2, <1>12, ContentsFacts, Zenon DEF ListsOK
        <3>2. f \o (x \o c) = Stream(s, 0, received[s])
            BY <1>1, <1>12, <2>6, Zenon DEF Receives
        <3>3. Associates(f, x, c)
            <4> HIDE DEF f, x, c
            <4>. QED  BY <3>1, ConcatAssociates
        <3>. QED  BY <3>2, <3>3, Zenon DEF Associates
    <2>. QED  BY <1>4, <1>11, <2>3, <2>5, <2>6, Zenon DEF Receives
<1>20. ReadingSomething'
    BY <1>3 DEF ReadingSomething
<1>21. all <= all'
    BY <1>1, <1>10 DEF TypeOK
<1>. QED  BY <1>10, <1>13, <1>16, <1>17, <1>18, <1>19, <1>20, <1>21, StepKeepsIInv, Zenon

\* Units in order stay in order when the next ones of the stream come behind them,
\* and when some are left out.
LEMMA InOrderStream ==
    ASSUME NEW s \in Sessions, NEW w \in Nat, NEW n \in Nat, NEW out \in Seq(Units),
           InOrder(s, w, out)
    PROVE  InOrder(s, w + n, out \o Stream(s, w, n))
<1> DEFINE x == Stream(s, w, n)
           l == out \o x
           m == Len(out)
<1>1. x \in Seq(Units) /\ Len(x) = n /\ \A k \in 1..n : x[k] = <<s, w + k>>
    BY StreamFacts, Zenon
<1>2. \A i \in 1..m : out[i][1] = s /\ out[i][2] \in 1..w
    BY DEF InOrder
<1>3. \A i, j \in 1..m : i < j => out[i][2] < out[j][2]
    BY DEF InOrder
<1> HIDE DEF x
<1>4. /\ l \in Seq(Units) /\ Len(l) = m + n /\ m \in Nat
      /\ \A i \in 1..m : l[i] = out[i]
      /\ \A i \in 1..n : l[m + i] = x[i]
    <2>1. l \in Seq(Units) /\ Joins(l, out, x)
        BY <1>1, JoinFacts, Zenon
    <2>2. m \in Nat
        OBVIOUS
    <2>. QED  BY <1>1, <2>1, <2>2, Zenon DEF Joins
<1> HIDE DEF l, m
<1>5. \A i \in 1..n : l[m + i] = <<s, w + i>>
    BY <1>1, <1>4
<1>6. \A i \in 1..(m + n) : i \in 1..m \/ \E j \in 1..n : i = m + j
    <2>1. ASSUME NEW i \in 1..(m + n), i \notin 1..m PROVE \E j \in 1..n : i = m + j
        <3>1. i - m \in 1..n /\ i = m + (i - m)
            BY <1>4, <2>1
        <3>. QED  BY <3>1
    <2>. QED  BY <2>1
<1>7. ASSUME NEW i \in 1..n PROVE l[m + i][1] = s /\ l[m + i][2] = w + i
    BY <1>5
<1>8. ASSUME NEW i \in 1..(m + n) PROVE l[i][1] = s /\ l[i][2] \in 1..(w + n)
    <2>1. CASE i \in 1..m
        <3>1. l[i][1] = s /\ l[i][2] \in 1..w
            BY <1>2, <1>4, <2>1, Zenon
        <3>. QED  BY <3>1
    <2>2. ASSUME NEW u \in 1..n, i = m + u PROVE l[i][1] = s /\ l[i][2] \in 1..(w + n)
        <3>1. l[i][1] = s /\ l[i][2] = w + u
            BY <1>7, <2>2
        <3>. QED  BY <3>1
    <2>. QED  BY <1>6, <2>1, <2>2
<1>9. ASSUME NEW i \in 1..(m + n), NEW j \in 1..(m + n), i < j
      PROVE  l[i][2] < l[j][2]
    <2>1. CASE j \in 1..m
        <3>1. i \in 1..m
            BY <1>4, <1>9, <2>1
        <3>2. l[i] = out[i] /\ l[j] = out[j] /\ out[i][2] < out[j][2]
            BY <1>3, <1>4, <1>9, <2>1, <3>1, Zenon
        <3>. QED  BY <3>2, Zenon
    <2>2. ASSUME NEW v \in 1..n, j = m + v PROVE l[i][2] < l[j][2]
        <3>0. l[j][2] = w + v
            BY <1>7, <2>2
        <3>1. CASE i \in 1..m
            <4>1. l[i][2] \in 1..w
                BY <1>2, <1>4, <3>1, Zenon
            <4>. QED  BY <3>0, <4>1
        <3>2. ASSUME NEW u \in 1..n, i = m + u PROVE l[i][2] < l[j][2]
            <4>1. l[i][2] = w + u
                BY <1>7, <3>2
            <4>2. u < v
                BY <1>4, <1>9, <2>2, <3>2
            <4>. QED  BY <3>0, <4>1, <4>2
        <3>. QED  BY <1>6, <3>1, <3>2
    <2>. QED  BY <1>6, <2>1, <2>2
<1>10. DOMAIN l = 1..(m + n)
    BY <1>4
<1>11. InOrder(s, w + n, l)
    BY <1>8, <1>9, <1>10, Zenon DEF InOrder
<1>. QED  BY <1>11 DEF l, x

\* What is left of a stream in order after units are dropped is in order.
LEMMA InOrderThinned ==
    ASSUME NEW s \in Sessions, NEW w \in Nat, NEW out \in Seq(Units), NEW p \in Seq(Units),
           InOrder(s, w, out), Thinned(p, out)
    PROVE  InOrder(s, w, p)
<1>1. PICK e \in [1..Len(p) -> 1..Len(out)] :
          /\ \A i \in 1..Len(p) : p[i] = out[e[i]]
          /\ \A i, j \in 1..Len(p) : i < j => e[i] < e[j]
    BY Zenon DEF Thinned
<1>2. DOMAIN p = 1..Len(p) /\ DOMAIN out = 1..Len(out)
    OBVIOUS
<1>3. \A i \in 1..Len(p) : e[i] \in 1..Len(out)
    OBVIOUS
<1>4. ASSUME NEW i \in 1..Len(p) PROVE p[i][1] = s /\ p[i][2] \in 1..w
    <2>1. p[i] = out[e[i]] /\ e[i] \in 1..Len(out)
        BY <1>1, <1>3, Zenon
    <2>2. out[e[i]][1] = s /\ out[e[i]][2] \in 1..w
        BY <1>2, <2>1, Zenon DEF InOrder
    <2>. QED  BY <2>1, <2>2, Zenon
<1>5. ASSUME NEW i \in 1..Len(p), NEW j \in 1..Len(p), i < j PROVE p[i][2] < p[j][2]
    <2>1. e[i] < e[j] /\ p[i] = out[e[i]] /\ p[j] = out[e[j]]
        BY <1>1, <1>5, Zenon
    <2>2. out[e[i]][2] < out[e[j]][2]
        BY <1>2, <1>3, <2>1, Zenon DEF InOrder
    <2>. QED  BY <2>1, <2>2, Zenon
<1>. QED  BY <1>2, <1>4, <1>5, Zenon DEF InOrder

\* What send() takes of the Buffers of a list is a part of what they hold.
LEMMA DrainTakes ==
    ASSUME NEW d, NEW list, Fits(d, list), NEW taken \in [DOMAIN list -> 0..BufSize],
           \A i \in DOMAIN list : taken[i] <= Len(d[list[i]])
    PROVE  LET out == FlattenSeq([i \in DOMAIN list |-> SubSeq(d[list[i]], 1, taken[i])])
           IN  /\ out \in Seq(Units) /\ Thinned(out, Content(d, list))
               /\ (\A i \in DOMAIN list : taken[i] = Len(d[list[i]])) =>
                      out = Content(d, list)
<1> DEFINE pp == [i \in DOMAIN list |-> SubSeq(d[list[i]], 1, taken[i])]
           c == ContentsOf(d, list)
           n == Len(list)
<1>1. DOMAIN list = 1..n /\ n \in Nat /\ \A i \in 1..n : d[list[i]] \in Seq(Units)
    BY DEF Fits
<1>2. c = [i \in 1..n |-> d[list[i]]]
    BY <1>1 DEF ContentsOf
<1>3. Shows(c, d, list)
    BY ContentsFacts
<1>4. pp = [i \in 1..n |-> SubSeq(d[list[i]], 1, taken[i])]
    BY <1>1
<1> HIDE DEF pp, c, n
<1>5. ASSUME NEW i \in 1..n
      PROVE  /\ pp[i] \in Seq(Units) /\ Thinned(pp[i], c[i])
             /\ taken[i] = Len(d[list[i]]) => pp[i] = c[i]
    <2> DEFINE b == d[list[i]]
               k == taken[i]
    <2>1. b \in Seq(Units) /\ k \in 0..Len(b)
        BY <1>1
    <2>2. pp[i] = SubSeq(b, 1, k) /\ c[i] = b
        BY <1>2, <1>4
    <2> HIDE DEF b, k
    <2>3. SubSeq(b, 1, k) \in Seq(Units) /\ (k = Len(b) => SubSeq(b, 1, k) = b)
        BY <2>1
    <2>4. Thinned(SubSeq(b, 1, k), b)
        BY <2>1, ThinnedPrefix, Zenon
    <2>. QED  BY <2>2, <2>3, <2>4, Zenon DEF b, k
<1>6. pp \in Seq(Seq(Units)) /\ Len(pp) = n
    <2> DEFINE U == Seq(Units)
    <2>1. \A i \in 1..n : pp[i] \in U
        BY <1>5
    <2>2. pp = [i \in 1..n |-> pp[i]]
        BY <1>4
    <2> HIDE DEF U
    <2>3. pp \in Seq(U) /\ Len(pp) = n
        BY <1>1, <2>1, <2>2
    <2>. QED  BY <2>3 DEF U
<1>7. c \in Seq(Seq(Units)) /\ Len(c) = n
    BY <1>3, Zenon DEF Shows, n
<1>8. FlattenSeq(pp) \in Seq(Units)
    BY <1>6, FlattenAppend, Zenon
<1>9. Thinned(FlattenSeq(pp), FlattenSeq(c))
    <2>1. Len(pp) = Len(c) /\ \A i \in 1..Len(c) : Thinned(pp[i], c[i])
        BY <1>5, <1>6, <1>7, Zenon
    <2>. QED  BY <1>6, <1>7, <2>1, FlattenThinned, Zenon
<1>10. ASSUME \A i \in 1..n : taken[i] = Len(d[list[i]]) PROVE pp = c
    <2> DEFINE U == Seq(Units)
    <2>1. \A i \in 1..n : pp[i] = c[i]
        BY <1>5, <1>10, Zenon
    <2>2. pp \in Seq(U) /\ c \in Seq(U) /\ Len(pp) = n /\ Len(c) = n
        BY <1>6, <1>7
    <2> HIDE DEF U
    <2>. QED  BY <2>1, <2>2, SeqEqual
<1>11. FlattenSeq(c) = Content(d, list)
    BY Zenon DEF c, Content
<1>12. (\A i \in DOMAIN list : taken[i] = Len(d[list[i]])) => FlattenSeq(pp) = FlattenSeq(c)
    BY <1>1, <1>10, Zenon
<1>. QED  BY <1>8, <1>9, <1>11, <1>12, Zenon DEF pp

\* The EPOLLOUT branch sends a part of every Buffer and releases them all.
LEMMA DrainKeeps ==
    ASSUME IInv, NEW s \in Sessions, Drain(s)
    PROVE  IInv'
<1> DEFINE list == sendList[s]
           B == 1..all
           U == Seq(Units)
           part(taken) == FlattenSeq([i \in DOMAIN list |-> SubSeq(data[list[i]], 1, taken[i])])
           whole(taken) == \A i \in DOMAIN list : taken[i] = Len(data[list[i]])
<1>1. /\ TypeOK /\ Owned /\ Clean /\ NotOverrun /\ ReadingSomething
      /\ Receives(s) /\ Sends(s)
    BY Zenon DEF IInv
<1>2. ListsOK(s)
    BY <1>1, ListsAreOK
<1>3. /\ s \in alive /\ reading = NoSession /\ list # <<>>
      /\ sendList' = [sendList EXCEPT ![s] = <<>>] /\ Release(list)
      /\ UNCHANGED <<written, recvList, received, handled, reading, drained, alive, leaked>>
    BY DEF Drain, recvVars, readVars
<1>4. PICK taken \in [DOMAIN list -> 0..BufSize] :
          /\ \A i \in DOMAIN list : taken[i] <= Len(data[list[i]])
          /\ wire' = [wire EXCEPT ![s] = @ \o part(taken)]
          /\ short' = IF whole(taken) THEN short ELSE short \cup {s}
    BY DEF Drain
<1> DEFINE out == part(taken)
           all_ == whole(taken)
<1>5. out \in U /\ Thinned(out, Content(data, list)) /\ (all_ => out = Content(data, list))
    BY <1>2, <1>4, DrainTakes, Zenon DEF ListsOK
<1> HIDE DEF part, whole
<1>6. wire' = [wire EXCEPT ![s] = @ \o out]
      /\ short' = IF all_ THEN short ELSE short \cup {s}
    BY <1>4
<1> HIDE DEF out, all_, B, U
<1>7. OwnLists(s) /\ IsInjective(pool) /\ Held(s) \cap ToSet(pool) = {}
      /\ Held(s) \cap leaked = {} /\ ToSet(pool) \cap leaked = {}
    BY <1>1, Zenon DEF Owned
<1>8. Released(list)
    <2>1. ToSet(pool) \cap ToSet(list) = {}
        BY <1>7 DEF Held
    <2>2. IsInjective(list)
        BY <1>7, Zenon DEF OwnLists
    <2>3. list \in Seq(1..all)
        BY <1>2, Zenon DEF ListsOK
    <2>. QED  BY <1>1, <1>3, <1>7, <2>1, <2>2, <2>3, ReleaseFacts, Zenon
<1>9. /\ pool' \in Seq(B) /\ all' = all /\ data' \in [B -> Seq(Units)]
      /\ IsInjective(pool') /\ ToSet(pool') = ToSet(pool) \cup ToSet(list)
      /\ \A b \in B : b \notin ToSet(list) => data'[b] = data[b]
      /\ Clean' /\ NotOverrun'
    BY <1>8, Zenon DEF Released, B
<1>10. /\ sendList \in [Sessions -> Seq(B)] /\ wire \in [Sessions -> U]
       /\ short \subseteq Sessions
    BY <1>1 DEF TypeOK, Buffers, B, U
<1>11. wire[s] \o out \in U
    <2>1. wire[s] \in U
        BY <1>10
    <2>. QED  BY <1>5, <2>1 DEF U
<1>12. /\ sendList'[s] = <<>> /\ wire'[s] = wire[s] \o out
       /\ \A t \in Sessions : t # s => sendList'[t] = sendList[t] /\ wire'[t] = wire[t]
       /\ \A t \in Sessions : t \in short => t \in short'
       /\ s \notin short' => s \notin short /\ all_
    <2> DEFINE x == wire[s] \o out
    <2>1. wire' = [wire EXCEPT ![s] = x]
        BY <1>6
    <2> HIDE DEF x
    <2>2. x = wire[s] \o out
        BY DEF x
    <2>3. wire'[s] = x /\ \A t \in Sessions : t # s => wire'[t] = wire[t]
        BY <1>10, <2>1
    <2>4. sendList'[s] = <<>> /\ \A t \in Sessions : t # s => sendList'[t] = sendList[t]
        BY <1>3, <1>10
    <2>5. (\A t \in Sessions : t \in short => t \in short')
          /\ (s \notin short' => s \notin short /\ all_)
        BY <1>6
    <2>. QED  BY <2>2, <2>3, <2>4, <2>5, Zenon
<1>13. TypeOK'
    <2>1. sendList' \in [Sessions -> Seq(B)]
        <3>1. <<>> \in Seq(B)
            OBVIOUS
        <3>. QED  BY <1>3, <1>10, <3>1
    <2>2. wire' \in [Sessions -> U]
        BY <1>6, <1>10, <1>11
    <2>3. short' \subseteq Sessions
        BY <1>6, <1>10
    <2>4. Buffers' = B
        BY <1>9 DEF Buffers, B
    <2>. QED  BY <1>1, <1>3, <1>9, <2>1, <2>2, <2>3, <2>4, Zenon DEF TypeOK, Buffers, B, U
<1>14. ToSet(<<>>) = {} /\ IsInjective(<<>>)
    BY DEF ToSet, IsInjective
<1>15. Held(s)' = ToSet(recvList[s]) /\ OwnLists(s)'
    BY <1>3, <1>7, <1>12, <1>14 DEF Held, OwnLists
<1>16. Held(s) = Held(s)' \cup ToSet(list) /\ Held(s)' \cap ToSet(list) = {}
    BY <1>7, <1>15 DEF OwnLists, Held
<1>17. Handles(s)
    <2>1. (all + 1)..all' = {}
        BY <1>1, <1>9 DEF TypeOK
    <2>2. /\ ToSet(pool') \cap leaked' = {}
          /\ Held(s)' \cap ToSet(pool') = {} /\ Held(s)' \cap leaked' = {}
        BY <1>3, <1>7, <1>9, <1>16
    <2>3. Held(s)' \cup ToSet(pool') \cup leaked'
              = Held(s) \cup ToSet(pool) \cup leaked \cup ((all + 1)..all')
        BY <1>3, <1>9, <1>16, <2>1
    <2>4. \A t \in Sessions : t # s => SameLists(t)
        BY <1>3, <1>12, Zenon DEF SameLists
    <2>. QED  BY <1>9, <1>15, <2>2, <2>3, <2>4, Zenon DEF Handles
<1>18. Leaves(s)
    <2>1. \A b \in 1..all : b \notin Held(s) => data'[b] = data[b]
        BY <1>9, <1>16 DEF B
    <2>2. \A t \in Sessions : t # s => SameLists(t)
        BY <1>17, Zenon DEF Handles
    <2>3. alive' \subseteq alive
        BY <1>3
    <2>. QED  BY <1>3, <1>12, <2>1, <2>2, <2>3, Zenon DEF Leaves
<1>19. Receives(s)'
    <2>1. \A b \in ToSet(recvList[s]) : b \in B /\ b \notin ToSet(list)
        BY <1>2, <1>15, <1>16 DEF ListsOK, B
    <2>2. \A b \in ToSet(recvList[s]) : data'[b] = data[b]
        BY <1>9, <2>1, Zenon
    <2>. QED  BY <1>1, <1>3, <2>2, ReceivesKept, Zenon
<1>20. Sends(s)'
    <2>1. FullButLast(data', <<>>)
        BY DEF FullButLast
    <2>2. Content(data', <<>>) = <<>>
        <3>1. ContentsOf(data', <<>>) = <<>>
            BY DEF ContentsOf
        <3>. QED  BY <3>1, FlattenAppend, Zenon DEF Content
    <2>3. (wire[s] \o out) \o <<>> = wire[s] \o out
        <3> DEFINE x == wire[s] \o out
        <3>1. x \in Seq(Units)
            BY <1>11 DEF U
        <3> HIDE DEF x
        <3>2. x \o <<>> = x
            BY <3>1
        <3>. QED  BY <3>2 DEF x
    <2>4. InOrder(s, written[s], wire[s] \o out)
        <3> DEFINE w == wire[s]
                   c == Content(data, list)
        <3>1. w \in Seq(Units) /\ c \in Seq(Units) /\ out \in Seq(Units) /\ written[s] \in Nat
            BY <1>2, <1>5, ContentsFacts, Zenon DEF ListsOK, U
        <3>2. InOrder(s, written[s], w \o c)
            BY <1>1, <1>3, Zenon DEF Sends
        <3> HIDE DEF w, c
        <3>3. Thinned(w \o out, w \o c)
            <4>1. Thinned(w, w)
                BY <3>1, ThinnedPrefix, Zenon
            <4>2. Thinned(out, c)
                BY <1>5 DEF c
            <4>. QED  BY <3>1, <4>1, <4>2, ThinnedConcat, Zenon
        <3>4. w \o out \in Seq(Units) /\ w \o c \in Seq(Units)
            BY <3>1, JoinFacts, Zenon
        <3>5. InOrder(s, written[s], w \o out)
            BY <3>1, <3>2, <3>3, <3>4, InOrderThinned, Zenon
        <3>. QED  BY <3>5 DEF w
    <2>5. s \notin short' => wire[s] \o out = Stream(s, 0, written[s])
        BY <1>1, <1>3, <1>5, <1>12, Zenon DEF Sends
    <2>. QED  BY <1>3, <1>12, <2>1, <2>2, <2>3, <2>4, <2>5, Zenon DEF Sends
<1>21. ReadingSomething'
    BY <1>1, <1>3, Zenon DEF ReadingSomething
<1>22. all <= all'
    BY <1>1, <1>9 DEF TypeOK
<1>. QED  BY <1>9, <1>13, <1>17, <1>18, <1>19, <1>20, <1>21, <1>22, StepKeepsIInv, Zenon

-----------------------------------------------------------------------------
(* Operations that take Buffers out of the pool.                           *)

\* new are Buffers nobody had, all of them empty; d are the contents once they exist,
\* n Buffers.
Fresh(new, s, n, d) ==
    /\ n \in Nat /\ all <= n /\ d \in [1..n -> Seq(Units)]
    /\ new \in Seq(1..n) /\ IsInjective(new)
    /\ ToSet(new) \cap Held(s) = {} /\ ToSet(new) \cap leaked = {}
    /\ \A b \in ToSet(new) : d[b] = <<>>
    /\ \A b \in 1..all : d[b] = data[b]
    /\ \A b \in 1..all : b \notin ToSet(pool) => b \notin ToSet(new)

\* What comes out of the pool is nobody's, and empty.
LEMMA TakenFresh ==
    ASSUME TypeOK, Owned, Clean, NEW s \in Sessions, NEW new, NEW n, NEW p, NEW d,
           Taken(new, n, p, d)
    PROVE  Fresh(new, s, n, d)
<1>1. /\ all \in Nat /\ Held(s) \subseteq 1..all /\ leaked \subseteq 1..all
      /\ ToSet(pool) \subseteq 1..all
    BY ListsAreOK DEF TypeOK, ListsOK
<1>2. /\ Held(s) \cap ToSet(pool) = {} /\ ToSet(pool) \cap leaked = {}
    BY Zenon DEF Owned
<1>3. ToSet(p) \cup ToSet(new) = ToSet(pool) \cup ((all + 1)..n)
    BY Zenon DEF Taken
<1>4. ASSUME NEW b \in ToSet(new) PROVE b \in ToSet(pool) \/ b \in (all + 1)..n
    BY <1>3
<1>5. \A b \in (all + 1)..n : b \notin 1..all
    BY <1>1
<1>6. ToSet(new) \cap Held(s) = {} /\ ToSet(new) \cap leaked = {}
    BY <1>1, <1>2, <1>4, <1>5
<1>7. /\ \A b \in 1..all : d[b] = data[b]
      /\ \A b \in (all + 1)..n : d[b] = <<>>
    BY Zenon DEF Taken
<1>8. \A b \in ToSet(new) : d[b] = <<>>
    BY <1>1, <1>4, <1>7, Zenon DEF Clean
<1>9. \A b \in 1..all : b \notin ToSet(pool) => b \notin ToSet(new)
    BY <1>4, <1>5, Zenon
<1>. QED  BY <1>6, <1>7, <1>8, <1>9, Zenon DEF Fresh, Taken

\* What comes out of the pool and goes to one session has one owner.
LEMMA TakenHandles ==
    ASSUME TypeOK, Owned, NEW s \in Sessions, NEW new, NEW d,
           Taken(new, all', pool', d), Fresh(new, s, all', d), leaked' = leaked,
           OwnLists(s)', Held(s)' = Held(s) \cup ToSet(new),
           \A t \in Sessions : t # s => SameLists(t)
    PROVE  Handles(s)
<1>1. /\ all \in Nat /\ Held(s) \subseteq 1..all /\ leaked \subseteq 1..all
      /\ ToSet(pool) \subseteq 1..all
    BY ListsAreOK DEF TypeOK, ListsOK
<1>2. /\ Held(s) \cap ToSet(pool) = {} /\ ToSet(pool) \cap leaked = {}
      /\ Held(s) \cap leaked = {}
    BY Zenon DEF Owned
<1>3. /\ IsInjective(pool') /\ ToSet(pool') \cap ToSet(new) = {}
      /\ ToSet(pool') \cup ToSet(new) = ToSet(pool) \cup ((all + 1)..all')
    BY Zenon DEF Taken
<1>4. ToSet(new) \cap Held(s) = {} /\ ToSet(new) \cap leaked = {}
    BY Zenon DEF Fresh
<1> DEFINE P == ToSet(pool')
           P0 == ToSet(pool)
           N == ToSet(new)
           X == (all + 1)..all'
<1>5. X \cap Held(s) = {} /\ X \cap leaked = {}
    BY <1>1
<1> HIDE DEF P, P0, N, X
<1>6. P \cup N = P0 \cup X /\ P \cap N = {}
    BY <1>3 DEF P, P0, N, X
<1>7. P \cap leaked' = {} /\ Held(s)' \cap P = {} /\ Held(s)' \cap leaked' = {}
    BY <1>2, <1>4, <1>5, <1>6 DEF P0, N
<1>8. Held(s)' \cup P \cup leaked' = Held(s) \cup P0 \cup leaked \cup X
    BY <1>6 DEF N
<1>. QED  BY <1>3, <1>7, <1>8, Zenon DEF Handles, P, P0, X

\* A list with room in its last Buffer: old, with a new Buffer behind it if it had none.
Opens(l, old, new, n, d) ==
    /\ l \in Seq(1..n) /\ Len(l) \in Nat \ {0} /\ IsInjective(l)
    /\ Len(l) \in 1..Len(l) /\ l[Len(l)] \in ToSet(l) /\ l[Len(l)] \in 1..n
    /\ ToSet(l) = ToSet(old) \cup ToSet(new) /\ Last(l) = l[Len(l)]
    /\ FullButLast(d, l) /\ Len(d[Last(l)]) \in 0..(BufSize - 1)
    /\ Fits(d, l) /\ Content(d, l) = Content(data, old)

\* A list with room in its last Buffer, after one was added if there was none.
LEMMA OpenedFacts ==
    ASSUME TypeOK, NotOverrun, NEW s \in Sessions, NEW old \in Seq(1..all), IsInjective(old),
           ToSet(old) \subseteq Held(s), FullButLast(data, old), NEW n, NEW d, NEW new,
           Fresh(new, s, n, d), Len(new) = IF HasRoom(old) THEN 0 ELSE 1
    PROVE  Opens(old \o new, old, new, n, d)
<1> DEFINE l == old \o new
           B == 1..n
           m == Len(old)
<1>1. /\ all \in Nat /\ n \in Nat /\ all <= n /\ d \in [B -> Seq(Units)]
      /\ data \in [1..all -> Seq(Units)]
      /\ new \in Seq(B) /\ \A b \in 1..all : d[b] = data[b]
    BY DEF Fresh, TypeOK, Buffers
<1>2. old \in Seq(B) /\ m \in Nat /\ \A i \in 1..m : old[i] \in 1..all
    <2>1. 1..all \subseteq B
        BY <1>1
    <2>. QED  BY <2>1, SeqIn, Zenon
<1>3. IsInjective(new) /\ ToSet(old) \cap ToSet(new) = {}
    <2>1. IsInjective(new) /\ ToSet(new) \cap Held(s) = {}
        BY Zenon DEF Fresh
    <2>. QED  BY <2>1
<1> HIDE DEF B
<1>4. l \in Seq(B) /\ Joins(l, old, new)
    BY <1>1, <1>2, JoinFacts, Zenon
<1>5. Fits(d, old) /\ Fits(d, new) /\ Fits(data, old)
    <2>1. d \in [1..n -> Seq(Units)] /\ old \in Seq(1..n) /\ new \in Seq(1..n)
        BY <1>1, <1>2 DEF B
    <2>. QED  BY <1>1, <2>1, FitsFacts, Zenon
<1>6. Content(d, old) = Content(data, old)
    <2>1. ToSet(old) \subseteq 1..all
        BY ToSetFacts
    <2>2. \A b \in ToSet(old) : d[b] = data[b]
        BY <1>1, <2>1
    <2>. QED  BY <1>5, <2>2, ContentKept, Zenon
<1>7. Content(d, new) = <<>>
    <2>1. \A b \in ToSet(new) : d[b] = <<>>
        BY Zenon DEF Fresh
    <2>. QED  BY <1>5, <2>1, ContentEmpty, Zenon
<1>8. Fits(d, l) /\ Content(d, l) = Content(data, old)
    <2>1. Fits(d, l) /\ Content(d, l) = Content(d, old) \o Content(d, new)
        BY <1>5, ContentConcat, Zenon
    <2> DEFINE c == Content(d, old)
    <2>2. c \in Seq(Units)
        BY <1>5, ContentsFacts, Zenon
    <2> HIDE DEF c
    <2>3. c \o <<>> = c
        BY <2>2
    <2>. QED  BY <1>6, <1>7, <2>1, <2>3, Zenon DEF c
<1> HIDE DEF l, m
<1>9. /\ Len(l) = m + Len(new) /\ \A i \in 1..m : l[i] = old[i]
      /\ \A i \in 1..Len(new) : l[m + i] = new[i]
      /\ ToSet(l) = ToSet(old) \cup ToSet(new) /\ IsInjective(l)
    BY <1>3, <1>4, Zenon DEF Joins, m
<1>10. \A i \in 1..m : Len(d[old[i]]) = Len(data[old[i]])
                       /\ (i < m => Len(data[old[i]]) = BufSize)
    <2>1. \A i \in 1..(m - 1) : Len(data[old[i]]) = BufSize
        BY Zenon DEF FullButLast, m
    <2>2. \A i \in 1..m : i < m => i \in 1..(m - 1)
        BY <1>2
    <2>. QED  BY <1>1, <1>2, <2>1, <2>2, Zenon
<1>11. HasRoom(old) <=> m # 0 /\ Len(data[old[m]]) # BufSize
    <2>1. old # <<>> <=> m # 0
        BY DEF m
    <2>2. Last(old) = old[m]
        BY Zenon DEF Last, m
    <2>. QED  BY <2>1, <2>2, Zenon DEF HasRoom
<1>12. CASE HasRoom(old)
    <2>1. Len(new) = 0 /\ Len(l) = m /\ m \in 1..m
        BY <1>2, <1>9, <1>11, <1>12
    <2>2. Len(data[old[m]]) \in 0..(BufSize - 1)
        <3>1. old[m] \in 1..all
            BY <1>2, <2>1
        <3>2. Len(data[old[m]]) <= BufSize
            BY <3>1, Zenon DEF NotOverrun, Buffers
        <3>3. data[old[m]] \in Seq(Units)
            BY <1>1, <3>1
        <3>4. Len(data[old[m]]) \in Nat
            BY <3>3
        <3>. QED  BY <1>11, <1>12, <3>2, <3>4
    <2>3. l[m] = old[m] /\ Len(d[l[m]]) \in 0..(BufSize - 1)
        BY <1>9, <1>10, <2>1, <2>2
    <2>4. \A i \in 1..(m - 1) : Len(d[l[i]]) = BufSize
        <3>1. \A i \in 1..(m - 1) : i \in 1..m /\ i < m
            BY <1>2
        <3>. QED  BY <1>9, <1>10, <3>1, Zenon
    <2>5. FullButLast(d, l) /\ Last(l) = l[Len(l)] /\ Len(l) \in Nat \ {0}
        BY <1>2, <2>1, <2>4 DEF FullButLast, Last
    <2>6. l[Len(l)] \in ToSet(l) /\ l[Len(l)] \in B /\ Len(l) \in 1..Len(l)
        BY <1>4, <2>5, ToSetFacts
    <2>7. Opens(l, old, new, n, d)
        BY <1>4, <1>8, <1>9, <2>1, <2>3, <2>5, <2>6, Zenon DEF Opens, B
    <2>. QED  BY <2>7 DEF l
<1>13. CASE ~HasRoom(old)
    <2>1. Len(new) = 1 /\ Len(l) = m + 1 /\ 1 \in 1..1
        BY <1>2, <1>9, <1>13
    <2>2. l[m + 1] = new[1]
        BY <1>9, <2>1
    <2>3. new[1] \in ToSet(new) /\ Len(<<>>) = 0 /\ 0 \in 0..(BufSize - 1)
        <3>1. new[1] \in ToSet(new)
            BY <1>1, <2>1, ToSetFacts, Zenon
        <3>. QED  BY <3>1
    <2>4. d[l[m + 1]] = <<>>
        BY <2>2, <2>3, Zenon DEF Fresh
    <2>5. \A i \in 1..m : Len(d[l[i]]) = BufSize
        <3>1. \A i \in 1..m : i < m \/ i = m
            BY <1>2
        <3>2. \A i \in 1..m : m # 0
            BY <1>2
        <3>. QED  BY <1>9, <1>10, <1>11, <1>13, <3>1, <3>2, Zenon
    <2>6. FullButLast(d, l) /\ Last(l) = l[Len(l)] /\ Len(l) \in Nat \ {0}
        BY <1>2, <2>1, <2>5 DEF FullButLast, Last
    <2>7. l[Len(l)] \in ToSet(l) /\ l[Len(l)] \in B /\ Len(l) \in 1..Len(l)
        BY <1>4, <2>6, ToSetFacts
    <2>8. Opens(l, old, new, n, d)
        BY <1>4, <1>8, <1>9, <2>1, <2>3, <2>4, <2>6, <2>7, Zenon DEF Opens, B
    <2>. QED  BY <2>8 DEF l
<1>. QED  BY <1>12, <1>13

\* Putting x into that Buffer puts it behind what the list holds.
Puts(e, d, l, x) ==
    /\ e[Last(l)] = d[Last(l)] \o x
    /\ \A b \in ToSet(l) : b # Last(l) => e[b] = d[b]

HasPut(e, l, old, x) ==
    Fits(e, l) /\ FullButLast(e, l) /\ Content(e, l) = Content(data, old) \o x

\* A position before the last one is a position, and another.
LEMMA BelowLast ==
    ASSUME NEW k \in Nat \ {0}, NEW i \in 1..(k - 1)
    PROVE  i \in 1..k /\ k \in 1..k /\ i # k
OBVIOUS

\* Units put into the last Buffer are behind the content of the list.
LEMMA PutFacts ==
    ASSUME NEW n \in Nat, NEW d, NEW e \in [1..n -> Seq(Units)], NEW l, NEW old, NEW new,
           Opens(l, old, new, n, d), NEW x \in Seq(Units), Puts(e, d, l, x)
    PROVE  HasPut(e, l, old, x)
<1>1. /\ l \in Seq(1..n) /\ Len(l) \in Nat \ {0} /\ Last(l) = l[Len(l)]
      /\ IsInjective(l) /\ FullButLast(d, l) /\ Fits(d, l)
    BY Zenon DEF Opens
<1>2. Fits(e, l)
    BY <1>1, FitsFacts
<1>3. \A i \in 1..(Len(l) - 1) : e[l[i]] = d[l[i]]
    <2>1. ASSUME NEW i \in 1..(Len(l) - 1) PROVE l[i] \in ToSet(l) /\ l[i] # l[Len(l)]
        <3>0. DOMAIN l = 1..Len(l) /\ Len(l) \in Nat \ {0}
            BY <1>1, SeqIn, Zenon
        <3>1. i \in DOMAIN l /\ Len(l) \in DOMAIN l /\ i # Len(l)
            BY <3>0, BelowLast, Zenon
        <3>2. l[i] # l[Len(l)]
            BY <1>1, <3>1, Zenon DEF IsInjective
        <3>. QED  BY <3>1, <3>2, Zenon DEF ToSet
    <2>. QED  BY <1>1, <2>1, Zenon DEF Puts
<1>4. l # <<>>
    BY <1>1
<1>5. GrownBy(e, d, l, x)
    <2>1. e[l[Len(l)]] = d[l[Len(l)]] \o x
        BY <1>1, Zenon DEF Puts
    <2>. QED  BY <1>3, <1>4, <2>1, Zenon DEF GrownBy
<1>6. Content(e, l) = Content(d, l) \o x
    BY <1>1, <1>2, <1>5, ContentGrown
<1>7. FullButLast(e, l)
    BY <1>1, <1>3, Zenon DEF FullButLast
<1>. QED  BY <1>2, <1>6, <1>7, Zenon DEF Opens, HasPut

\* What is left in the pool stays empty, and what the others hold as it was.
LEMMA PoolKept ==
    ASSUME TypeOK, Owned, Clean, NotOverrun, NEW s \in Sessions, NEW new, NEW d,
           Taken(new, all', pool', d), Fresh(new, s, all', d),
           \A b \in 1..all' : b \notin Held(s) /\ b \notin ToSet(new) => data'[b] = d[b],
           \A b \in 1..all' : b \in Held(s) \/ b \in ToSet(new) => Len(data'[b]) <= BufSize
    PROVE  /\ Clean' /\ NotOverrun'
           /\ \A b \in 1..all : b \notin Held(s) /\ b \notin ToSet(pool) => data'[b] = data[b]
<1>1. /\ all \in Nat /\ Held(s) \subseteq 1..all /\ ToSet(pool) \subseteq 1..all
      /\ Held(s) \cap ToSet(pool) = {}
    BY ListsAreOK DEF TypeOK, ListsOK, Owned
<1>2. /\ all' \in Nat /\ all <= all' /\ pool' \in Seq(1..all')
      /\ ToSet(pool') \cap ToSet(new) = {}
      /\ ToSet(pool') \cup ToSet(new) = ToSet(pool) \cup ((all + 1)..all')
      /\ \A b \in 1..all : d[b] = data[b]
      /\ \A b \in (all + 1)..all' : d[b] = <<>>
    BY Zenon DEF Taken
<1>3. ToSet(pool') \subseteq 1..all'
    BY <1>2, ToSetFacts
<1>4. ASSUME NEW b \in ToSet(pool') PROVE data'[b] = <<>>
    <2>1. (b \notin ToSet(new) /\ b \in ToSet(pool)) \/ b \in (all + 1)..all'
        BY <1>2
    <2>2. b \notin Held(s)
        BY <1>1, <2>1
    <2>3. data'[b] = d[b]
        BY <1>2, <1>3, <2>2
    <2>4. d[b] = <<>>
        BY <1>1, <1>2, <2>1, Zenon DEF Clean
    <2>. QED  BY <2>3, <2>4, Zenon
<1>5. ASSUME NEW b \in 1..all' PROVE Len(data'[b]) <= BufSize
    <2>1. CASE b \in Held(s) \/ b \in ToSet(new)
        BY <2>1
    <2>2. CASE ~(b \in Held(s) \/ b \in ToSet(new))
        <3>1. data'[b] = d[b]
            BY <2>2
        <3>2. b \in 1..all \/ b \in (all + 1)..all'
            BY <1>1, <1>2
        <3>3. CASE b \in 1..all
            BY <1>2, <3>1, <3>3, Zenon DEF NotOverrun, Buffers
        <3>4. CASE b \in (all + 1)..all'
            <4>1. data'[b] = <<>>
                BY <1>2, <3>1, <3>4, Zenon
            <4>2. Len(<<>>) <= BufSize
                OBVIOUS
            <4>. QED  BY <4>1, <4>2, Zenon
        <3>. QED  BY <3>2, <3>3, <3>4
    <2>. QED  BY <2>1, <2>2
<1>6. ASSUME NEW b \in 1..all, b \notin Held(s), b \notin ToSet(pool)
      PROVE  data'[b] = data[b]
    <2>1. b \notin ToSet(new)
        BY <1>6, Zenon DEF Fresh
    <2>2. b \in 1..all'
        BY <1>1, <1>2
    <2>. QED  BY <1>2, <1>6, <2>1, <2>2, Zenon
<1>7. Clean' /\ NotOverrun'
    BY <1>4, <1>5, Zenon DEF Clean, NotOverrun, Buffers
<1>. QED  BY <1>6, <1>7

\* A Buffer grows by what is put into it.
LEMMA RoomFacts ==
    ASSUME NEW c \in Seq(Units), NEW x \in Seq(Units)
    PROVE  c \o x \in Seq(Units) /\ Len(c \o x) = Len(c) + Len(x)
OBVIOUS

\* recv() puts what it gets behind what the receive list holds.
LEMMA RecvKeeps ==
    ASSUME IInv, NEW s \in Sessions, NEW n \in Nat, Recv(s, n)
    PROVE  IInv'
<1> DEFINE old == recvList[s]
           k == IF HasRoom(recvList[s]) THEN 0 ELSE 1
           new == SubSeq(Grown(k), 1, k)
           list == old \o new
           d == Contents(k)
           x == Stream(s, received[s], n)
           room == BufSize - Len(d[Last(list)])
<1>1. /\ TypeOK /\ Owned /\ Clean /\ NotOverrun /\ ReadingSomething
      /\ Receives(s) /\ Sends(s)
    BY Zenon DEF IInv
<1>2. ListsOK(s)
    BY <1>1, ListsAreOK
<1>3. /\ s \in alive /\ n <= room /\ AllocBuffers(k)
      /\ recvList' = [recvList EXCEPT ![s] = list]
      /\ data' = [d EXCEPT ![Last(list)] = @ \o x]
      /\ received' = [received EXCEPT ![s] = @ + n]
      /\ reading' = s /\ drained' = (n = 0)
    BY DEF Recv
<1>4. UNCHANGED <<handled, sendList, written, wire, short, alive, leaked>>
    BY DEF Recv, sendVars
<1>5. OwnLists(s) /\ IsInjective(pool)
    BY <1>1, Zenon DEF Owned
<1>6. k \in Nat /\ k = IF HasRoom(old) THEN 0 ELSE 1
    OBVIOUS
<1> HIDE DEF k
<1>7. Len(new) = k /\ Taken(new, all', pool', d)
    BY <1>1, <1>3, <1>5, <1>6, AllocFacts, Zenon
<1> HIDE DEF new, d
<1>8. Fresh(new, s, all', d)
    BY <1>1, <1>7, TakenFresh, Zenon
<1>9. Opens(list, old, new, all', d)
    <2>1. old \in Seq(1..all) /\ IsInjective(old) /\ ToSet(old) \subseteq Held(s)
          /\ FullButLast(data, old)
        <3>1. ToSet(old) \subseteq Held(s)
            BY DEF Held
        <3>. QED  BY <1>1, <1>2, <1>5, <3>1, Zenon DEF ListsOK, OwnLists, Receives
    <2>. QED  BY <1>1, <1>6, <1>7, <1>8, <2>1, OpenedFacts, Zenon
<1>10. /\ all \in Nat /\ all' \in Nat /\ all <= all' /\ d \in [1..all' -> Seq(Units)]
       /\ pool' \in Seq(1..all')
       /\ new \in Seq(1..all') /\ ToSet(new) \cap Held(s) = {}
       /\ ToSet(new) \cap leaked = {} /\ IsInjective(new)
    BY <1>1, <1>7, <1>8 DEF Taken, Fresh, TypeOK
<1> HIDE DEF list
<1>11. /\ list \in Seq(1..all') /\ Len(list) \in Nat \ {0} /\ IsInjective(list)
       /\ Last(list) \in ToSet(list) /\ Last(list) \in 1..all'
       /\ ToSet(list) = ToSet(old) \cup ToSet(new)
       /\ Len(d[Last(list)]) \in 0..(BufSize - 1)
       /\ Content(d, list) = Content(data, old)
    BY <1>9, Zenon DEF Opens
<1>12. x \in Seq(Units) /\ Len(x) = n
    BY <1>2, StreamFacts, Zenon DEF ListsOK
<1> HIDE DEF x
<1> DEFINE L == Last(list)
           y == d[L] \o x
<1>13. d[L] \in Seq(Units) /\ Len(d[L]) \in Nat
    BY <1>10, <1>11
<1> HIDE DEF L
<1>14. y \in Seq(Units) /\ Len(y) <= BufSize
    <2>1. y \in Seq(Units) /\ Len(y) = Len(d[L]) + n
        BY <1>12, <1>13, RoomFacts, Zenon
    <2>2. n <= BufSize - Len(d[L])
        BY <1>3 DEF L
    <2>. QED  BY <1>13, <2>1, <2>2
<1> HIDE DEF y
<1>15. data' = [d EXCEPT ![L] = y] /\ L \in 1..all' /\ L \in ToSet(list)
    BY <1>3, <1>11 DEF L, y
<1>16. /\ data' \in [1..all' -> Seq(Units)] /\ data'[L] = y
       /\ \A b \in 1..all' : b # L => data'[b] = d[b]
    <2> DEFINE U == Seq(Units)
    <2>1. d \in [1..all' -> U] /\ y \in U
        BY <1>10, <1>14
    <2> HIDE DEF U
    <2>2. /\ data' \in [1..all' -> U] /\ data'[L] = y
          /\ \A b \in 1..all' : b # L => data'[b] = d[b]
        BY <1>15, <2>1
    <2>. QED  BY <2>2 DEF U
<1>17. Puts(data', d, list, x)
    <2>1. ToSet(list) \subseteq 1..all'
        BY <1>11, ToSetFacts
    <2>. QED  BY <1>16, <2>1, Zenon DEF Puts, L, y
<1>18. /\ FullButLast(data', list)
       /\ Content(data', list) = Content(data, old) \o x
    <2>1. data' \in [1..all' -> Seq(Units)] /\ all' \in Nat
        BY <1>10, <1>16
    <2>2. HasPut(data', list, old, x)
        BY <1>9, <1>12, <1>17, <2>1, PutFacts, Zenon
    <2>. QED  BY <2>2, Zenon DEF HasPut
<1>19. /\ recvList'[s] = list /\ received'[s] = received[s] + n
       /\ \A t \in Sessions : t # s =>
              recvList'[t] = recvList[t] /\ received'[t] = received[t]
    <2>1. recvList \in [Sessions -> Seq(Buffers)] /\ received \in [Sessions -> Nat]
        BY <1>1 DEF TypeOK
    <2>. QED  BY <1>3, <2>1
<1>20. TypeOK'
    <2>1. 1..all \subseteq 1..all'
        BY <1>10
    <2>2. \A l \in Seq(1..all) : l \in Seq(1..all')
        BY <2>1, SeqIn, Zenon
    <2>3. /\ recvList \in [Sessions -> Seq(1..all)] /\ sendList \in [Sessions -> Seq(1..all)]
          /\ received \in [Sessions -> Nat] /\ leaked \subseteq 1..all
        BY <1>1 DEF TypeOK, Buffers
    <2>4. recvList' \in [Sessions -> Seq(1..all')]
        <3> DEFINE S0 == Seq(1..all)
                   S1 == Seq(1..all')
        <3>1. recvList \in [Sessions -> S0] /\ list \in S1 /\ \A l \in S0 : l \in S1
            BY <1>11, <2>2, <2>3
        <3> HIDE DEF S0, S1
        <3>2. recvList' \in [Sessions -> S1]
            BY <1>3, <3>1
        <3>. QED  BY <3>2 DEF S1
    <2>5. sendList' \in [Sessions -> Seq(1..all')]
        <3> DEFINE S0 == Seq(1..all)
                   S1 == Seq(1..all')
        <3>1. sendList \in [Sessions -> S0] /\ \A l \in S0 : l \in S1
            BY <2>2, <2>3
        <3> HIDE DEF S0, S1
        <3>2. sendList' \in [Sessions -> S1]
            BY <1>4, <3>1
        <3>. QED  BY <3>2 DEF S1
    <2>6. received' \in [Sessions -> Nat] /\ leaked' \subseteq 1..all'
        <3>1. received' = [received EXCEPT ![s] = @ + n] /\ received \in [Sessions -> Nat]
            BY <1>3, <2>3
        <3>2. received' \in [Sessions -> Nat]
            BY <3>1
        <3>. QED  BY <1>4, <2>1, <2>3, <3>2
    <2>7. reading' \in alive' \cup {NoSession} /\ drained' \in BOOLEAN
        BY <1>3, <1>4
    <2>. QED  BY <1>1, <1>4, <1>10, <1>16, <2>4, <2>5, <2>6, <2>7, Zenon DEF TypeOK, Buffers
<1>21. Held(s)' = Held(s) \cup ToSet(new) /\ OwnLists(s)'
    <2>1. ToSet(sendList[s]) \subseteq Held(s) /\ ToSet(old) \subseteq Held(s)
          /\ Held(s) = ToSet(old) \cup ToSet(sendList[s])
        BY DEF Held
    <2>2. ToSet(list) \cap ToSet(sendList[s]) = {}
        BY <1>5, <1>10, <1>11, <2>1 DEF OwnLists
    <2>3. Held(s)' = ToSet(list) \cup ToSet(sendList[s])
        BY <1>4, <1>19, Zenon DEF Held
    <2>4. OwnLists(s)'
        BY <1>4, <1>5, <1>11, <1>19, <2>2, Zenon DEF OwnLists
    <2>. QED  BY <1>11, <2>1, <2>3, <2>4
<1>22. \A t \in Sessions : t # s => SameLists(t)
    BY <1>4, <1>19, Zenon DEF SameLists
<1>23. Handles(s)
    BY <1>1, <1>4, <1>7, <1>8, <1>21, <1>22, TakenHandles, Zenon
<1>24. /\ Clean' /\ NotOverrun'
       /\ \A b \in 1..all : b \notin Held(s) /\ b \notin ToSet(pool) => data'[b] = data[b]
    <2>1. L \in Held(s) \/ L \in ToSet(new)
        BY <1>11, <1>15 DEF Held
    <2>2. \A b \in 1..all' : b \notin Held(s) /\ b \notin ToSet(new) => data'[b] = d[b]
        BY <1>16, <2>1, Zenon
    <2>3. ASSUME NEW b \in 1..all', b \in Held(s) \/ b \in ToSet(new)
          PROVE  Len(data'[b]) <= BufSize
        <3>1. CASE b = L
            BY <1>14, <1>16, <3>1, Zenon
        <3>2. CASE b # L /\ b \in Held(s)
            <4>1. b \in 1..all
                BY <1>2, <3>2 DEF ListsOK
            <4>2. data'[b] = data[b]
                BY <1>8, <1>16, <3>2, <4>1, Zenon DEF Fresh
            <4>. QED  BY <1>1, <4>1, <4>2, Zenon DEF NotOverrun, Buffers
        <3>3. CASE b # L /\ b \in ToSet(new)
            <4>1. data'[b] = <<>>
                BY <1>8, <1>16, <3>3, Zenon DEF Fresh
            <4>2. Len(<<>>) <= BufSize
                OBVIOUS
            <4>. QED  BY <4>1, <4>2, Zenon
        <3>. QED  BY <2>3, <3>1, <3>2, <3>3
    <2>. QED  BY <1>1, <1>7, <1>8, <2>2, <2>3, PoolKept, Zenon
<1>25. Leaves(s)
    <2>1. alive' \subseteq alive
        BY <1>4
    <2>. QED  BY <1>4, <1>19, <1>22, <1>24, <2>1, Zenon DEF Leaves
<1>26. Sends(s)'
    <2>1. L \notin ToSet(sendList[s])
        <3>1. ToSet(sendList[s]) \subseteq Held(s)
            BY DEF Held
        <3>. QED  BY <1>5, <1>10, <1>11, <1>15, <3>1 DEF OwnLists
    <2>2. \A b \in ToSet(sendList[s]) : b \in 1..all /\ b \in 1..all'
        BY <1>2, <1>10 DEF ListsOK
    <2>3. \A b \in ToSet(sendList[s]) : data'[b] = data[b]
        BY <1>8, <1>16, <2>1, <2>2, Zenon DEF Fresh
    <2>. QED  BY <1>1, <1>4, <2>3, SendsKept, Zenon
<1>27. Receives(s)'
    <2> DEFINE f == handled[s]
               c == Content(data, old)
               r == received[s]
    <2>1. f \in Seq(Units) /\ c \in Seq(Units) /\ r \in Nat
        BY <1>2, ContentsFacts, Zenon DEF ListsOK
    <2>2. f \o c = Stream(s, 0, r)
        BY <1>1, <1>3, Zenon DEF Receives
    <2>3. GoesOn(s, 0, r, n) /\ 0 + r = r
        <3>1. 0 \in Nat /\ 0 + r = r
            BY <2>1
        <3>. QED  BY <2>1, <3>1, StreamConcat, Zenon
    <2>4. Associates(f, c, x)
        <3> HIDE DEF f, c
        <3>. QED  BY <1>12, <2>1, ConcatAssociates
    <2>5. Stream(s, 0, r) \o x = Stream(s, 0, 0 + r + n)
        <3>1. Stream(s, 0, r) \o Stream(s, 0 + r, n) = Stream(s, 0, r + n)
            BY <2>3, Zenon DEF GoesOn
        <3>. QED  BY <2>3, <3>1, Zenon DEF x
    <2>6. f \o (c \o x) = Stream(s, 0, r + n)
        BY <2>2, <2>3, <2>4, <2>5, Zenon DEF Associates
    <2>. QED  BY <1>4, <1>18, <1>19, <2>6, Zenon DEF Receives
<1>28. ReadingSomething'
    <2>1. list # <<>>
        BY <1>11
    <2>. QED  BY <1>3, <1>19, <2>1 DEF ReadingSomething
<1>. QED  BY <1>10, <1>20, <1>23, <1>24, <1>25, <1>26, <1>27, <1>28, StepKeepsIInv, Zenon

\* delete after recv() has returned 0: the Buffer handle_read took out of the pool for
\* this recv() is left behind with the others.
LEMMA CloseSessionKeeps ==
    ASSUME IInv, NEW s \in Sessions, CloseSession(s)
    PROVE  IInv'
<1> DEFINE k == IF HasRoom(recvList[s]) THEN 0 ELSE 1
           new == SubSeq(Grown(k), 1, k)
           d == Contents(k)
<1>1. TypeOK /\ Owned /\ Clean /\ NotOverrun
    BY Zenon DEF IInv
<1>2. /\ ~drained /\ AllocBuffers(k) /\ data' = d /\ DeleteSession(s, new)
    BY DEF CloseSession
<1>3. k \in Nat
    OBVIOUS
<1> HIDE DEF k
<1>4. IsInjective(pool)
    BY <1>1, Zenon DEF Owned
<1>5. Taken(new, all', pool', d)
    BY <1>1, <1>2, <1>3, <1>4, AllocFacts, Zenon
<1> HIDE DEF new, d
<1>6. Fresh(new, s, all', d)
    BY <1>1, <1>5, TakenFresh, Zenon
<1>7. /\ reading' = NoSession /\ alive' = alive \ {s}
      /\ UNCHANGED <<drained, received, handled, written, wire, short>>
    BY <1>2 DEF DeleteSession
<1>8. /\ all \in Nat /\ all' \in Nat /\ all <= all' /\ pool' \in Seq(1..all')
      /\ d \in [1..all' -> Seq(Units)] /\ ToSet(new) \subseteq 1..all'
    <2>1. all \in Nat /\ new \in Seq(1..all')
        BY <1>1, <1>5 DEF TypeOK, Taken
    <2>2. ToSet(new) \subseteq 1..all'
        BY <2>1, ToSetFacts
    <2>. QED  BY <1>5, <2>1, <2>2, Zenon DEF Taken
<1>9. /\ recvList' \in [Sessions -> Seq(1..all')] /\ sendList' \in [Sessions -> Seq(1..all')]
      /\ \A t \in Sessions : t # s => SameLists(t)
      /\ leaked' = leaked \cup Held(s) \cup ToSet(new) /\ leaked' \subseteq 1..all'
      /\ Held(s)' = {} /\ OwnLists(s)'
      /\ alive' \subseteq alive /\ Receives(s)' /\ Sends(s)'
    BY <1>2, <1>8, DeletedFacts, Zenon
<1>10. TypeOK'
    <2>1. reading' \in alive' \cup {NoSession} /\ alive' \subseteq Sessions
        BY <1>1, <1>7 DEF TypeOK
    <2>. QED  BY <1>1, <1>2, <1>7, <1>8, <1>9, <2>1, Zenon DEF TypeOK, Buffers
<1>11. Handles(s)
    <2> DEFINE P == ToSet(pool')
               P0 == ToSet(pool)
               N == ToSet(new)
               X == (all + 1)..all'
    <2>1. Held(s) \subseteq 1..all /\ leaked \subseteq 1..all
        BY <1>1, ListsAreOK, Zenon DEF ListsOK
    <2>2. X \cap Held(s) = {} /\ X \cap leaked = {}
        BY <1>8, <2>1
    <2>3. Held(s) \cap P0 = {} /\ P0 \cap leaked = {}
        BY <1>1, Zenon DEF Owned
    <2>4. IsInjective(pool') /\ P \cap N = {} /\ P \cup N = P0 \cup X
        BY <1>5, Zenon DEF Taken
    <2> HIDE DEF P, P0, N, X
    <2>5. leaked' = leaked \cup Held(s) \cup N
        BY <1>9 DEF N
    <2>6. P \cap leaked' = {} /\ Held(s)' \cap P = {} /\ Held(s)' \cap leaked' = {}
        BY <1>9, <2>2, <2>3, <2>4, <2>5
    <2>7. Held(s)' \cup P \cup leaked' = Held(s) \cup P0 \cup leaked \cup X
        BY <1>9, <2>4, <2>5
    <2>. QED  BY <1>9, <2>4, <2>6, <2>7, Zenon DEF Handles, P, P0, X
<1>12. /\ Clean' /\ NotOverrun'
       /\ \A b \in 1..all : b \notin Held(s) /\ b \notin ToSet(pool) => data'[b] = data[b]
    <2>1. ASSUME NEW b \in 1..all', b \in Held(s) \/ b \in ToSet(new)
          PROVE  Len(data'[b]) <= BufSize
        <3>1. CASE b \in Held(s)
            <4>1. b \in 1..all
                BY <1>1, <3>1, ListsAreOK DEF ListsOK
            <4>2. data'[b] = data[b]
                BY <1>2, <1>6, <4>1, Zenon DEF Fresh
            <4>. QED  BY <1>1, <4>1, <4>2, Zenon DEF NotOverrun, Buffers
        <3>2. CASE b \in ToSet(new)
            <4>1. data'[b] = <<>>
                BY <1>2, <1>6, <3>2, Zenon DEF Fresh
            <4>2. Len(<<>>) <= BufSize
                OBVIOUS
            <4>. QED  BY <4>1, <4>2, Zenon
        <3>. QED  BY <2>1, <3>1, <3>2
    <2>. QED  BY <1>1, <1>2, <1>5, <1>6, <2>1, PoolKept, Zenon
<1>13. Leaves(s)
    BY <1>7, <1>9, <1>12, Zenon DEF Leaves
<1>14. ReadingSomething'
    BY <1>2, <1>7 DEF ReadingSomething
<1>. QED  BY <1>8, <1>9, <1>10, <1>11, <1>12, <1>13, <1>14, StepKeepsIInv, Zenon

\* Asking for more Buffers does not change which come first.
LEMMA GrownAgrees ==
    ASSUME TypeOK, NEW k \in Nat, NEW m \in Nat, k <= m
    PROVE  SubSeq(SubSeq(Grown(m), 1, m), 1, k) = SubSeq(Grown(k), 1, k)
<1> DEFINE g == Grown(k)
           h == Grown(m)
           lp == Len(pool)
           S == Int
<1>1. /\ Len(g) \in Nat /\ lp \in Nat /\ k <= Len(g) /\ lp <= Len(g)
      /\ \A i \in 1..lp : g[i] = pool[i]
      /\ \A i \in 1..(Len(g) - lp) : g[lp + i] = all + i
    BY GrownFacts, Zenon
<1>2. /\ Len(h) \in Nat /\ m <= Len(h) /\ lp <= Len(h)
      /\ \A i \in 1..lp : h[i] = pool[i]
      /\ \A i \in 1..(Len(h) - lp) : h[lp + i] = all + i
    BY GrownFacts, Zenon
<1>3. g \in Seq(S) /\ h \in Seq(S)
    <2>1. ASSUME NEW n \in Nat PROVE Grown(n) \in Seq(S)
        <3> DEFINE t == all + Len(Grown(n)) - Len(pool)
        <3>1. Grown(n) \in Seq(1..t)
            BY GrownFacts
        <3>2. t \in Int
            BY GrownFacts DEF TypeOK
        <3> HIDE DEF t
        <3>3. 1..t \subseteq S
            BY <3>2
        <3>. QED  BY <3>1, <3>3, SeqIn, Zenon
    <2>. QED  BY <2>1
<1> HIDE DEF g, h, lp, S
<1>4. ASSUME NEW i \in 1..k PROVE g[i] = h[i]
    <2>1. CASE i \in 1..lp
        BY <1>1, <1>2, <2>1
    <2>2. CASE i \notin 1..lp
        <3> DEFINE j == i - lp
        <3>1. j \in 1..(Len(g) - lp) /\ j \in 1..(Len(h) - lp) /\ i = lp + j
            BY <1>1, <1>2, <2>2
        <3> HIDE DEF j
        <3>. QED  BY <1>1, <1>2, <3>1, Zenon
    <2>. QED  BY <2>1, <2>2
<1>5. /\ SubSeq(h, 1, m) \in Seq(S) /\ Len(SubSeq(h, 1, m)) = m
      /\ \A i \in 1..m : SubSeq(h, 1, m)[i] = h[i]
    BY <1>2, <1>3
<1> DEFINE a == SubSeq(h, 1, m)
<1> HIDE DEF a
<1>6. a \in Seq(S) /\ Len(a) = m /\ \A i \in 1..m : a[i] = h[i]
    BY <1>5 DEF a
<1>7. /\ SubSeq(a, 1, k) \in Seq(S) /\ Len(SubSeq(a, 1, k)) = k
      /\ \A i \in 1..k : SubSeq(a, 1, k)[i] = h[i]
    BY <1>6
<1>8. /\ SubSeq(g, 1, k) \in Seq(S) /\ Len(SubSeq(g, 1, k)) = k
      /\ \A i \in 1..k : SubSeq(g, 1, k)[i] = g[i]
    BY <1>1, <1>3
<1> DEFINE u == SubSeq(a, 1, k)
           v == SubSeq(g, 1, k)
<1>9. u \in Seq(S) /\ v \in Seq(S) /\ Len(u) = Len(v) /\ \A i \in 1..Len(u) : u[i] = v[i]
    BY <1>4, <1>7, <1>8
<1> HIDE DEF u, v
<1>10. u = v
    BY <1>9, SeqEqual
<1>. QED  BY <1>10 DEF u, v, a, g, h

\* Before Write divides what is written, the send list has room.
LEMMA LastHasRoom ==
    ASSUME TypeOK, Owned, Clean, NotOverrun, NEW s \in Sessions, Sends(s),
           NEW k0 \in 0..1, k0 = IF HasRoom(sendList[s]) THEN 0 ELSE 1
    PROVE  Opens(sendList[s] \o SubSeq(Grown(k0), 1, k0), sendList[s],
                 SubSeq(Grown(k0), 1, k0), Total(k0), Contents(k0))
<1> DEFINE new1 == SubSeq(Grown(k0), 1, k0)
           old == sendList[s]
<1>1. k0 \in Nat
    OBVIOUS
<1>2. /\ ListsOK(s) /\ IsInjective(old) /\ IsInjective(pool) /\ ToSet(old) \subseteq Held(s)
    <2>1. ListsOK(s)
        BY ListsAreOK
    <2>2. OwnLists(s) /\ IsInjective(pool)
        BY Zenon DEF Owned
    <2>3. ToSet(old) \subseteq Held(s)
        BY DEF Held
    <2>. QED  BY <2>1, <2>2, <2>3, Zenon DEF OwnLists
<1>3. Taken(new1, Total(k0), SubSeq(Grown(k0), k0 + 1, Len(Grown(k0))), Contents(k0))
      /\ Len(new1) = k0
    BY <1>1, <1>2, GrownTaken, Zenon
<1> HIDE DEF new1
<1>4. Fresh(new1, s, Total(k0), Contents(k0))
    BY <1>3, TakenFresh, Zenon
<1>5. FullButLast(data, old) /\ old \in Seq(1..all)
    BY <1>2, Zenon DEF Sends, ListsOK
<1>6. Opens(old \o new1, old, new1, Total(k0), Contents(k0))
    BY <1>2, <1>3, <1>4, <1>5, OpenedFacts, Zenon
<1>. QED  BY <1>6, Zenon DEF new1

\* The Buffers Write fills when it asks for k0 + more of them: new is new1 \o new2.
DividesUp(s, n, k0, more, d, new, new1, new2, l) ==
    /\ Opens(l, sendList[s], new1, n, d) /\ Fresh(new, s, n, d)
    /\ Len(Contents(k0)[Last(l)]) = Len(d[Last(l)])
    /\ new2 \in Seq(1..n) /\ Len(new2) = more
    /\ \A i \in 1..more : new2[i] = new[k0 + i]
    /\ ToSet(new) = ToSet(new1) \cup ToSet(new2)
    /\ IsInjective(new2) /\ Joins(new, new1, new2) /\ new = new1 \o new2
    /\ l \o new2 = sendList[s] \o new

\* The Buffers Write takes at once: one if the list has no room, and the others.
LEMMA WriteTakes ==
    ASSUME TypeOK, Owned, Clean, NotOverrun, NEW s \in Sessions, Sends(s),
           NEW k0 \in 0..1, k0 = IF HasRoom(sendList[s]) THEN 0 ELSE 1, NEW more \in Nat,
           NEW n, NEW p,
           Taken(SubSeq(Grown(k0 + more), 1, k0 + more), n, p, Contents(k0 + more)),
           Len(SubSeq(Grown(k0 + more), 1, k0 + more)) = k0 + more
    PROVE  LET d == Contents(k0 + more)
               new == SubSeq(Grown(k0 + more), 1, k0 + more)
               new1 == SubSeq(Grown(k0), 1, k0)
               new2 == SubSeq(new, k0 + 1, Len(new))
               l == sendList[s] \o new1
           IN  DividesUp(s, n, k0, more, d, new, new1, new2, l)
<1> DEFINE m == k0 + more
           d == Contents(m)
           new == SubSeq(Grown(m), 1, m)
           new1 == SubSeq(Grown(k0), 1, k0)
           new2 == SubSeq(new, k0 + 1, Len(new))
           old == sendList[s]
           l == old \o new1
           B == 1..n
<1>1. m \in Nat /\ k0 \in Nat /\ k0 <= m
    OBVIOUS
<1>2. /\ ListsOK(s) /\ IsInjective(old) /\ IsInjective(pool) /\ ToSet(old) \subseteq Held(s)
    <2>1. ListsOK(s)
        BY ListsAreOK
    <2>2. OwnLists(s) /\ IsInjective(pool)
        BY Zenon DEF Owned
    <2>3. ToSet(old) \subseteq Held(s)
        BY DEF Held
    <2>. QED  BY <2>1, <2>2, <2>3, Zenon DEF OwnLists
<1>3. new1 = SubSeq(new, 1, k0)
    BY <1>1, GrownAgrees, Zenon
<1>4. Taken(new, n, p, d) /\ Len(new) = m
    OBVIOUS
<1>5. Taken(new1, Total(k0), SubSeq(Grown(k0), k0 + 1, Len(Grown(k0))), Contents(k0))
      /\ Len(new1) = k0
    BY <1>1, <1>2, GrownTaken, Zenon
<1> HIDE DEF new, d, new1, m, B
<1>6. Fresh(new, s, n, d) /\ Fresh(new1, s, Total(k0), Contents(k0))
    BY <1>4, <1>5, TakenFresh, Zenon
<1>7. new \in Seq(B) /\ IsInjective(new) /\ k0 \in 0..Len(new)
    <2>1. new \in Seq(B) /\ IsInjective(new)
        BY <1>4, Zenon DEF Taken, B
    <2>. QED  BY <1>1, <1>4, <2>1
<1> HIDE DEF new2
<1>8. /\ new1 \in Seq(B) /\ new2 \in Seq(B) /\ Parts(new, k0, new1, new2)
    BY <1>3, <1>7, SplitFacts, Zenon DEF new2
<1>9. /\ IsInjective(new1) /\ IsInjective(new2)
      /\ ToSet(new2) \cup ToSet(new1) = ToSet(new) /\ ToSet(new2) \cap ToSet(new1) = {}
      /\ \A i \in 1..k0 : new1[i] = new[i]
    BY <1>8, Zenon DEF Parts
<1>10. Len(new2) = Len(new) - k0 /\ \A i \in 1..Len(new2) : new2[i] = new[k0 + i]
    BY <1>8, Zenon DEF Parts
<1>11. Len(new2) = more
    BY <1>4, <1>10 DEF m
<1>12. Fresh(new1, s, n, d)
    <2>1. ToSet(new1) \subseteq ToSet(new)
        BY <1>9
    <2>. QED  BY <1>6, <1>8, <1>9, <2>1 DEF Fresh, B
<1>13. FullButLast(data, old) /\ old \in Seq(1..all)
    BY <1>2, Zenon DEF Sends, ListsOK
<1>14. Opens(l, old, new1, n, d)
    BY <1>2, <1>5, <1>12, <1>13, OpenedFacts, Zenon
<1>16. Contents(k0)[Last(l)] = d[Last(l)]
    <2> DEFINE L == Last(l)
    <2>1. L \in ToSet(old) \/ L \in ToSet(new1)
        <3>1. L \in ToSet(l) /\ ToSet(l) = ToSet(old) \cup ToSet(new1)
            BY <1>14, Zenon DEF Opens
        <3> HIDE DEF L, l
        <3>. QED  BY <3>1
    <2> HIDE DEF L
    <2>2. CASE L \in ToSet(old)
        <3>1. L \in 1..all
            BY <1>2, <2>2 DEF ListsOK
        <3>2. Contents(k0)[L] = data[L] /\ d[L] = data[L]
            BY <1>6, <3>1, Zenon DEF Fresh
        <3>. QED  BY <3>2, Zenon DEF L
    <2>3. CASE L \in ToSet(new1)
        <3>1. Contents(k0)[L] = <<>> /\ d[L] = <<>>
            BY <1>6, <1>12, <2>3, Zenon DEF Fresh
        <3>. QED  BY <3>1, Zenon DEF L
    <2>. QED  BY <2>1, <2>2, <2>3
<1>17. /\ new1 \o new2 \in Seq(B) /\ Joins(new1 \o new2, new1, new2)
    BY <1>8, JoinFacts, Zenon
<1>18. new = new1 \o new2
    <2> DEFINE j == new1 \o new2
    <2>1. /\ j \in Seq(B) /\ Len(j) = k0 + more /\ \A i \in 1..k0 : j[i] = new1[i]
          /\ \A i \in 1..more : j[k0 + i] = new2[i]
        BY <1>5, <1>11, <1>17, Zenon DEF Joins
    <2> HIDE DEF j
    <2>2. ASSUME NEW i \in 1..(k0 + more) PROVE j[i] = new[i]
        <3>1. CASE i \in 1..k0
            BY <1>9, <2>1, <3>1, Zenon
        <3>2. CASE i \notin 1..k0
            <4> DEFINE r == i - k0
            <4>1. r \in 1..more /\ i = k0 + r
                BY <3>2
            <4> HIDE DEF r
            <4>. QED  BY <1>10, <1>11, <2>1, <4>1, Zenon
        <3>. QED  BY <3>1, <3>2
    <2>3. j = new
        BY <1>4, <1>7, <2>1, <2>2, SeqEqual DEF m
    <2>. QED  BY <2>3 DEF j
<1>19. l \o new2 = old \o new
    <2> DEFINE S == Int
    <2>1. 1..all \subseteq S /\ B \subseteq S
        <3>1. n \in Nat /\ all \in Nat
            BY <1>4 DEF Taken, TypeOK
        <3>. QED  BY <3>1 DEF B
    <2> HIDE DEF S
    <2>2. old \in Seq(S) /\ new1 \in Seq(S) /\ new2 \in Seq(S)
        BY <1>8, <1>13, <2>1, SeqIn, Zenon
    <2> HIDE DEF old
    <2>3. Associates(old, new1, new2)
        BY <2>2, ConcatAssociates
    <2>. QED  BY <1>18, <2>3, Zenon DEF Associates
<1>20. Joins(new, new1, new2) /\ ToSet(new) = ToSet(new1) \cup ToSet(new2)
    BY <1>17, <1>18, Zenon DEF Joins
<1>21. \A i \in 1..more : new2[i] = new[k0 + i]
    BY <1>10, <1>11, Zenon
<1>22. Len(Contents(k0)[Last(l)]) = Len(d[Last(l)])
    BY <1>16
<1>23. DividesUp(s, n, k0, more, d, new, new1, new2, l)
    BY <1>6, <1>8, <1>9, <1>11, <1>14, <1>18, <1>19, <1>20, <1>21, <1>22, Zenon
       DEF DividesUp, B
<1>. QED  BY <1>23, Zenon DEF new, d, new1, new2, m

\* x goes into one Buffer, and the sequences of c each into one of the Buffers of list.
OneOf(list, b, c) == [i \in 1..Len(list) |-> IF list[i] = b THEN c[i] ELSE <<>>]
Spread(d, n, last, x, list, c) ==
    [b \in 1..n |-> d[b] \o IF b = last THEN x ELSE FlattenSeq(OneOf(list, b, c))]

IsSpread(e, d, n, last, x, list, c) ==
    /\ e \in [1..n -> Seq(Units)] /\ e[last] = d[last] \o x
    /\ \A b \in 1..n : b # last /\ b \notin ToSet(list) => e[b] = d[b]
    /\ \A i \in 1..Len(list) : e[list[i]] = c[i]

\* What Write puts into the Buffers, read back Buffer by Buffer.
LEMMA SpreadFacts ==
    ASSUME NEW n \in Nat, NEW d \in [1..n -> Seq(Units)], NEW list \in Seq(1..n),
           IsInjective(list), NEW last \in 1..n, last \notin ToSet(list),
           NEW x \in Seq(Units), NEW c \in Seq(Seq(Units)), Len(c) = Len(list),
           \A b \in ToSet(list) : d[b] = <<>>
    PROVE  IsSpread(Spread(d, n, last, x, list, c), d, n, last, x, list, c)
<1> DEFINE e == Spread(d, n, last, x, list, c)
           B == 1..n
           U == Seq(Units)
           m == Len(list)
           f(b) == FlattenSeq(OneOf(list, b, c))
           part(b) == IF b = last THEN x ELSE f(b)
<1>1. /\ m \in Nat /\ DOMAIN list = 1..m /\ \A i \in 1..m : list[i] \in B
      /\ <<>> \in U /\ \A i \in 1..m : c[i] \in U
    <2>1. <<>> \in U
        OBVIOUS
    <2> HIDE DEF B, U
    <2>2. list \in Seq(B) /\ c \in Seq(U) /\ Len(c) = m
        BY DEF B, U
    <2>3. m \in Nat /\ DOMAIN list = 1..m /\ \A i \in 1..m : list[i] \in B
        BY <2>2, SeqIn, Zenon
    <2>4. \A i \in 1..Len(c) : c[i] \in U
        BY <2>2, SeqIn, Zenon
    <2>. QED  BY <2>1, <2>2, <2>3, <2>4, Zenon
<1>2. \A b \in B : d[b] \in U
    OBVIOUS
<1>3. e = [b \in B |-> d[b] \o part(b)]
    BY DEF Spread
<1>4. \A i, j \in 1..m : list[i] = list[j] => i = j
    BY <1>1, Zenon DEF IsInjective
<1>5. ASSUME NEW b
      PROVE  /\ OneOf(list, b, c) \in Seq(Seq(Units)) /\ Len(OneOf(list, b, c)) = m
             /\ \A i \in 1..m : OneOf(list, b, c)[i] = IF list[i] = b THEN c[i] ELSE <<>>
    <2> DEFINE o == OneOf(list, b, c)
    <2> HIDE DEF U
    <2>1. o = [i \in 1..m |-> IF list[i] = b THEN c[i] ELSE <<>>]
        BY DEF OneOf
    <2> HIDE DEF o, m
    <2>2. o \in Seq(U) /\ Len(o) = m
          /\ \A i \in 1..m : o[i] = IF list[i] = b THEN c[i] ELSE <<>>
        BY <1>1, <2>1
    <2>. QED  BY <2>2 DEF o, U, m
<1> HIDE DEF m, U, B
<1>6. ASSUME NEW b \in B PROVE f(b) \in Seq(Units)
    BY <1>5, FlattenAppend, Zenon
<1>7. ASSUME NEW b, b \notin ToSet(list) PROVE f(b) = <<>>
    <2>1. \A i \in 1..m : list[i] # b
        BY <1>1, <1>7, Zenon DEF ToSet
    <2>2. \A i \in 1..Len(OneOf(list, b, c)) : OneOf(list, b, c)[i] = <<>>
        BY <1>5, <2>1, Zenon
    <2>. QED  BY <1>5, <2>2, FlattenOnly, Zenon
<1>8. ASSUME NEW i \in 1..m PROVE f(list[i]) = c[i]
    <2> DEFINE o == OneOf(list, list[i], c)
    <2>1. o \in Seq(Seq(Units)) /\ Len(o) = m /\ o[i] = c[i]
        BY <1>5, Zenon
    <2>2. \A j \in 1..m : j # i => o[j] = <<>>
        BY <1>4, <1>5, Zenon
    <2> HIDE DEF o
    <2>3. FlattenSeq(o) = o[i]
        BY <2>1, <2>2, FlattenOnly, Zenon
    <2>. QED  BY <2>1, <2>3, Zenon DEF o
<1> HIDE DEF f
<1>9. \A b \in B : part(b) \in Seq(Units)
    BY <1>6
<1> HIDE DEF e
<1>10. \A b \in B : e[b] = d[b] \o part(b)
    BY <1>3, Zenon
<1>11. e \in [B -> U]
    <2>1. ASSUME NEW b \in B PROVE d[b] \o part(b) \in U
        <3> DEFINE y == part(b)
                   z == d[b]
        <3>1. y \in Seq(Units) /\ z \in Seq(Units)
            BY <1>2, <1>9 DEF U
        <3> HIDE DEF y, z
        <3>2. z \o y \in Seq(Units)
            BY <3>1
        <3>. QED  BY <3>2 DEF U, y, z
    <2> DEFINE w(b) == d[b] \o part(b)
    <2>2. \A b \in B : w(b) \in U
        BY <2>1
    <2>3. e = [b \in B |-> w(b)]
        BY <1>3
    <2> HIDE DEF w
    <2>. QED  BY <2>2, <2>3
<1>12. e[last] = d[last] \o x
    BY <1>10, Zenon DEF B
<1>13. ASSUME NEW b \in B, b # last, b \notin ToSet(list) PROVE e[b] = d[b]
    <2> DEFINE z == d[b]
    <2>1. e[b] = z \o <<>>
        BY <1>7, <1>10, <1>13, Zenon
    <2>2. z \in Seq(Units)
        BY <1>2 DEF U
    <2> HIDE DEF z
    <2>3. z \o <<>> = z
        BY <2>2
    <2>. QED  BY <2>1, <2>3, Zenon DEF z
<1>14. ASSUME NEW i \in 1..m PROVE e[list[i]] = c[i]
    <2>1. list[i] \in ToSet(list) /\ list[i] \in B
        BY <1>1, Zenon DEF ToSet
    <2>2. list[i] # last /\ d[list[i]] = <<>>
        BY <2>1, Zenon
    <2>3. e[list[i]] = <<>> \o c[i]
        BY <1>8, <1>10, <2>1, <2>2, Zenon
    <2> DEFINE y == c[i]
    <2>4. y \in Seq(Units)
        BY <1>1 DEF U
    <2> HIDE DEF y
    <2>5. <<>> \o y = y
        BY <2>4
    <2>. QED  BY <2>3, <2>5, Zenon DEF y
<1>. QED  BY <1>11, <1>12, <1>13, <1>14, Zenon DEF IsSpread, e, B, U, m

\* A full list behind one whose last Buffer is full too.
LEMMA JoinFull ==
    ASSUME NEW S, NEW a \in Seq(S), NEW b \in Seq(S), NEW l, Joins(l, a, b), NEW d,
           FullButLast(d, a), FullButLast(d, b), a # <<>>,
           b # <<>> => Len(d[Last(a)]) = BufSize
    PROVE  FullButLast(d, l)
<1> DEFINE m == Len(a)
           n == Len(b)
<1>1. m \in Nat /\ n \in Nat /\ m # 0 /\ (b # <<>> <=> n # 0)
    OBVIOUS
<1>2. /\ Len(l) = m + n /\ \A i \in 1..m : l[i] = a[i]
      /\ \A i \in 1..n : l[m + i] = b[i]
    BY Zenon DEF Joins
<1>3. Last(a) = a[m]
    BY Zenon DEF Last
<1> HIDE DEF m, n
<1>4. ASSUME NEW i \in 1..(Len(l) - 1) PROVE Len(d[l[i]]) = BufSize
    <2>0. i \in 1..(m + n - 1)
        <3>1. Len(l) = m + n
            BY <1>2
        <3>. QED  BY <1>1, <3>1
    <2>1. CASE i < m
        <3>1. i \in 1..(m - 1) /\ i \in 1..m
            BY <1>1, <2>0, <2>1
        <3>. QED  BY <1>2, <3>1, Zenon DEF FullButLast, m
    <2>2. CASE i = m
        <3>1. m \in 1..m /\ n # 0
            BY <1>1, <2>0, <2>2
        <3>. QED  BY <1>1, <1>2, <1>3, <2>2, <3>1, Zenon
    <2>3. CASE i > m
        <3> DEFINE j == i - m
        <3>1. j \in 1..(n - 1) /\ j \in 1..n /\ i = m + j
            BY <1>1, <2>0, <2>3
        <3> HIDE DEF j
        <3>2. l[i] = b[j]
            BY <1>2, <3>1, Zenon
        <3>3. Len(d[b[j]]) = BufSize
            BY <3>1, Zenon DEF FullButLast, n
        <3>. QED  BY <3>2, <3>3, Zenon
    <2>. QED  BY <1>1, <2>0, <2>1, <2>2, <2>3
<1>. QED  BY <1>4, Zenon DEF FullButLast

\* How Write divides n units: into the last Buffer, which has room, and the others.
FirstPart(n, room) == IF n <= room THEN n ELSE room
Others(n, room) == IF n <= room THEN 0 ELSE MoreBuffers(n - room)

\* The part for the last Buffer and the chunks for the others are what is written.
LEMMA WriteDivides ==
    ASSUME NEW s \in Sessions, NEW w \in Nat, NEW n \in Nat, NEW room \in 1..BufSize
    PROVE  LET first == FirstPart(n, room)
               more == Others(n, room)
               c == Chunks(s, w + first, n - first, more)
           IN  /\ first \in Nat /\ first <= room /\ n - first \in Nat /\ more \in Nat
               /\ more # 0 => first = room
               /\ AreChunks(c, s, w + first, n - first, more)
<1> DEFINE first == FirstPart(n, room)
           more == Others(n, room)
           from == w + first
           rest == n - first
           c == Chunks(s, from, rest, more)
           y == Stream(s, from, rest)
<1>1. CASE n <= room
    <2>1. first = n /\ more = 0 /\ n - first = 0 /\ w + first \in Nat
        BY <1>1 DEF FirstPart, Others
    <2>2. c = <<>>
        BY <2>1 DEF Chunks
    <2>3. y = <<>>
        BY <2>1 DEF Stream
    <2>4. FlattenSeq(c) = y
        BY <2>2, <2>3, FlattenAppend, Zenon
    <2>5. <<>> \in Seq(Seq(Units)) /\ Len(<<>>) = 0 /\ 0 \in Nat
        OBVIOUS
    <2>6. \A i \in 1..0 : FALSE
        OBVIOUS
    <2>7. \A i \in 1..(0 - 1) : FALSE
        OBVIOUS
    <2>8. AreChunks(c, s, from, rest, more)
        BY <2>1, <2>2, <2>4, <2>5, <2>6, <2>7, Zenon DEF AreChunks
    <2>9. first \in Nat /\ first <= room /\ rest \in Nat /\ more \in Nat
        BY <1>1, <2>1
    <2>. QED  BY <2>1, <2>8, <2>9, Zenon
<1>2. CASE ~(n <= room)
    <2> DEFINE q == rest \div BufSize
    <2>1. first = room /\ rest \in Nat /\ from \in Nat /\ first \in Nat /\ first <= room
        BY <1>2 DEF FirstPart
    <2>2. more = q + 1
        BY <1>2, <2>1 DEF Others, MoreBuffers
    <2> HIDE DEF rest, first, from
    <2>3. q \in Nat /\ q * BufSize <= rest /\ rest <= (q + 1) * BufSize
        <3> DEFINE r == rest % BufSize
        <3>1. q \in Int /\ r \in 0..(BufSize - 1) /\ rest = BufSize * q + r
            BY <2>1
        <3>2. q \in Nat
            BY <2>1
        <3> HIDE DEF q, r
        <3>3. BufSize * q \in Nat /\ q * BufSize = BufSize * q
              /\ (q + 1) * BufSize = BufSize * q + BufSize
            BY <3>2
        <3>. QED  BY <3>1, <3>2, <3>3
    <2> HIDE DEF q, more
    <2>4. more \in Nat \ {0} /\ more \in Nat /\ (more - 1) * BufSize <= rest
          /\ rest <= more * BufSize
        <3>1. more - 1 = q
            BY <2>2, <2>3
        <3>. QED  BY <2>2, <2>3, <3>1
    <2>6. AreChunks(c, s, from, rest, more)
        BY <2>1, <2>4, ChunksFlatten, Zenon
    <2>. QED  BY <2>1, <2>4, <2>6, Zenon DEF rest, from, more, first
<1>. QED  BY <1>1, <1>2, Zenon

\* What a send list and what was sent before make, once x and y are behind it.
StaysSent(s, w, v, before, after) ==
    /\ InOrder(s, v, after)
    /\ before = Stream(s, 0, w) => after = Stream(s, 0, v)

\* What is written is behind what was written before.
LEMMA SentMore ==
    ASSUME NEW s \in Sessions, NEW w \in Nat, NEW m \in Nat, NEW n \in Nat,
           NEW f \in Seq(Units), NEW c \in Seq(Units), InOrder(s, w, f \o c)
    PROVE  LET x == Stream(s, w, m)
               y == Stream(s, w + m, n)
               out == f \o ((c \o x) \o y)
           IN  StaysSent(s, w, w + m + n, f \o c, out)
<1> DEFINE x == Stream(s, w, m)
           y == Stream(s, w + m, n)
           fc == f \o c
           cx == c \o x
           z == fc \o x
<1>1. w + m \in Nat /\ x \in Seq(Units) /\ y \in Seq(Units)
    <2>1. w + m \in Nat
        OBVIOUS
    <2>. QED  BY <2>1, StreamFacts, Zenon
<1>2. InOrder(s, w, fc)
    OBVIOUS
<1>3. GoesOn(s, 0, w, m) /\ GoesOn(s, 0, w + m, n) /\ 0 + w = w /\ 0 + (w + m) = w + m
    <2>1. 0 \in Nat /\ 0 + w = w /\ 0 + (w + m) = w + m
        OBVIOUS
    <2>. QED  BY <1>1, <2>1, StreamConcat, Zenon
<1>4. /\ Stream(s, 0, w) \o x = Stream(s, 0, w + m)
      /\ Stream(s, 0, w + m) \o y = Stream(s, 0, w + m + n)
    <2>1. Stream(s, 0, w) \o Stream(s, 0 + w, m) = Stream(s, 0, w + m)
        BY <1>3, Zenon DEF GoesOn
    <2>2. Stream(s, 0, w + m) \o Stream(s, 0 + (w + m), n) = Stream(s, 0, (w + m) + n)
        BY <1>3, Zenon DEF GoesOn
    <2>. QED  BY <1>3, <2>1, <2>2, Zenon
<1> HIDE DEF x, y
<1>5. fc \in Seq(Units) /\ cx \in Seq(Units)
    BY <1>1, JoinFacts, Zenon
<1>6. z \in Seq(Units)
    BY <1>1, <1>5, JoinFacts, Zenon
<1>7. Associates(f, c, x)
    BY <1>1, ConcatAssociates, Zenon
<1> HIDE DEF cx
<1>8. Associates(f, cx, y)
    BY <1>1, <1>5, ConcatAssociates, Zenon
<1>9. f \o (cx \o y) = z \o y
    <2>1. z = f \o cx
        BY <1>7, Zenon DEF Associates, cx
    <2>2. (f \o cx) \o y = f \o (cx \o y)
        BY <1>8, Zenon DEF Associates
    <2> HIDE DEF z
    <2>. QED  BY <2>1, <2>2, Zenon
<1> HIDE DEF fc
<1>10. InOrder(s, w + m, z)
    BY <1>2, <1>5, InOrderStream, Zenon DEF x
<1> HIDE DEF z
<1>11. InOrder(s, w + m + n, z \o y)
    BY <1>1, <1>6, <1>10, InOrderStream, Zenon DEF y
<1>12. ASSUME fc = Stream(s, 0, w) PROVE z \o y = Stream(s, 0, w + m + n)
    <2>1. z = Stream(s, 0, w + m)
        BY <1>4, <1>12, Zenon DEF z
    <2>. QED  BY <1>4, <2>1, Zenon
<1>13. StaysSent(s, w, w + m + n, fc, f \o (cx \o y))
    BY <1>9, <1>11, <1>12, Zenon DEF StaysSent
<1>. QED  BY <1>13, Zenon DEF x, y, fc, cx

\* Write puts what it is given behind what the send list holds.
LEMMA WriteKeeps ==
    ASSUME IInv, NEW s \in Sessions, NEW n \in Nat, Write(s, n)
    PROVE  IInv'
<1> DEFINE old == sendList[s]
           k0 == IF HasRoom(sendList[s]) THEN 0 ELSE 1
           new1 == SubSeq(Grown(k0), 1, k0)
           l == old \o new1
           L == Last(l)
           room == BufSize - Len(Contents(k0)[L])
           first == FirstPart(n, room)
           more == Others(n, room)
           m == k0 + more
           new == SubSeq(Grown(m), 1, m)
           new2 == SubSeq(new, k0 + 1, Len(new))
           list == old \o new
           d == Contents(m)
           w == written[s]
           rest == n - first
           from == w + first
           x == Stream(s, w, first)
           c == Chunks(s, from, rest, more)
           chunk(i) == Stream(s, w + (first + (i - 1) * BufSize),
                              IF i < more THEN BufSize ELSE n - (first + (i - 1) * BufSize))
           N == all'
<1>1. /\ TypeOK /\ Owned /\ Clean /\ NotOverrun /\ ReadingSomething
      /\ Receives(s) /\ Sends(s)
    BY Zenon DEF IInv
<1>2. ListsOK(s)
    BY <1>1, ListsAreOK
<1>3. /\ s \in alive /\ reading = NoSession /\ AllocBuffers(m)
      /\ sendList' = [sendList EXCEPT ![s] = @ \o new]
      /\ data' = [b \in DOMAIN d |-> d[b] \o
                     IF b = L THEN x
                     ELSE FlattenSeq([i \in 1..more |->
                              IF new[k0 + i] = b THEN chunk(i) ELSE <<>>])]
      /\ written' = [written EXCEPT ![s] = @ + n]
    BY Zenon DEF Write, FirstPart, Others
<1>4. UNCHANGED <<wire, short, recvList, received, handled, reading, drained, alive, leaked>>
    BY DEF Write, recvVars, readVars
<1>5. OwnLists(s) /\ IsInjective(pool)
    BY <1>1, Zenon DEF Owned
<1>6. k0 \in 0..1 /\ k0 \in Nat /\ k0 = IF HasRoom(sendList[s]) THEN 0 ELSE 1
    OBVIOUS
<1> HIDE DEF k0
<1>7. room \in 1..BufSize
    <2>1. Opens(l, old, new1, Total(k0), Contents(k0))
        BY <1>1, <1>6, LastHasRoom, Zenon
    <2>2. Len(Contents(k0)[L]) \in 0..(BufSize - 1)
        BY <2>1, Zenon DEF Opens
    <2> HIDE DEF L
    <2>. QED  BY <2>2
<1>8. w \in Nat /\ wire[s] \in Seq(Units)
    BY <1>2 DEF ListsOK
<1> HIDE DEF w
<1>9. /\ first \in Nat /\ first <= room /\ rest \in Nat /\ more \in Nat
      /\ more # 0 => first = room
      /\ AreChunks(c, s, from, rest, more)
    <2> HIDE DEF room
    <2>. QED  BY <1>7, <1>8, WriteDivides, Zenon
<1> HIDE DEF more, first
<1>10. m \in Nat
    BY <1>6, <1>9
<1>11. Len(new) = m /\ Taken(new, N, pool', d)
    BY <1>1, <1>3, <1>5, <1>10, AllocFacts, Zenon
<1>12. /\ Opens(l, old, new1, N, d) /\ Fresh(new, s, N, d)
       /\ Len(Contents(k0)[L]) = Len(d[L])
       /\ new2 \in Seq(1..N) /\ Len(new2) = more
       /\ \A i \in 1..more : new2[i] = new[k0 + i]
       /\ ToSet(new) = ToSet(new1) \cup ToSet(new2)
       /\ IsInjective(new2) /\ Joins(new, new1, new2) /\ new = new1 \o new2
       /\ l \o new2 = list
    <2>1. DividesUp(s, N, k0, more, d, new, new1, new2, l)
        BY <1>1, <1>6, <1>9, <1>11, WriteTakes, Zenon
    <2>. QED  BY <2>1, Zenon DEF DividesUp
<1>13. room = BufSize - Len(d[L])
    BY <1>12, Zenon
<1> HIDE DEF new, new1, new2, d, room, l
<1>14. /\ all \in Nat /\ N \in Nat /\ all <= N /\ d \in [1..N -> Seq(Units)]
       /\ pool' \in Seq(1..N) /\ new \in Seq(1..N) /\ IsInjective(new)
       /\ ToSet(new) \cap Held(s) = {} /\ ToSet(new) \cap leaked = {}
    BY <1>1, <1>11, <1>12 DEF Taken, Fresh, TypeOK
<1>15. /\ l \in Seq(1..N) /\ Len(l) \in Nat \ {0} /\ L \in ToSet(l) /\ L \in 1..N
       /\ ToSet(l) = ToSet(old) \cup ToSet(new1) /\ Fits(d, l)
    BY <1>12, Zenon DEF Opens
<1> HIDE DEF L
<1>16. x \in Seq(Units) /\ Len(x) = first
    BY <1>8, <1>9, StreamFacts, Zenon
<1>17. /\ ToSet(old) \subseteq Held(s) /\ ToSet(new1) \cap ToSet(new2) = {}
    <2>1. ToSet(new1) \cap ToSet(new2) = {}
        BY <1>12, <1>14, Zenon DEF Joins
    <2>. QED  BY <2>1 DEF Held
<1>18. ToSet(l) \cap ToSet(new2) = {}
    BY <1>12, <1>14, <1>15, <1>17
<1>19. c \in Seq(Seq(Units)) /\ Len(c) = more
    BY <1>9, Zenon DEF AreChunks
<1>20. data' = Spread(d, N, L, x, new2, c)
    <2>1. DOMAIN d = 1..N
        BY <1>14
    <2>2. \A i \in 1..more : c[i] = chunk(i)
        <3> SUFFICES ASSUME NEW i \in 1..more PROVE c[i] = chunk(i)
            OBVIOUS
        <3> DEFINE t == (i - 1) * BufSize
        <3>1. t \in Int /\ n \in Int
            OBVIOUS
        <3>2. c[i] = Stream(s, from + t, IF i < more THEN BufSize ELSE rest - t)
            BY DEF Chunks
        <3> HIDE DEF t, c
        <3>3. from + t = w + (first + t) /\ rest - t = n - (first + t)
            BY <1>8, <1>9, <3>1
        <3> HIDE DEF from, rest
        <3>4. c[i] = Stream(s, w + (first + t), IF i < more THEN BufSize ELSE n - (first + t))
            BY <3>2, <3>3, Zenon
        <3>. QED  BY <3>4, Zenon DEF t
    <2> HIDE DEF chunk, x, c
    <2>3. ASSUME NEW b
          PROVE  OneOf(new2, b, c) =
                     [i \in 1..more |-> IF new[k0 + i] = b THEN chunk(i) ELSE <<>>]
        BY <1>12, <2>2, Zenon DEF OneOf
    <2>. QED  BY <1>3, <2>1, <2>3, Zenon DEF Spread
<1> HIDE DEF x, c
<1>21. IsSpread(data', d, N, L, x, new2, c)
    <2>1. L \notin ToSet(new2)
        BY <1>15, <1>18
    <2>2. \A b \in ToSet(new2) : d[b] = <<>>
        <3>1. ToSet(new2) \subseteq ToSet(new)
            BY <1>12
        <3>. QED  BY <1>12, <3>1 DEF Fresh
    <2>3. Len(c) = Len(new2)
        BY <1>12, <1>19
    <2>4. IsSpread(Spread(d, N, L, x, new2, c), d, N, L, x, new2, c)
        BY <1>12, <1>14, <1>15, <1>16, <1>19, <2>1, <2>2, <2>3, SpreadFacts, Zenon
    <2>. QED  BY <1>20, <2>4, Zenon
<1>22. /\ data' \in [1..N -> Seq(Units)]
       /\ \A b \in 1..N : b # L /\ b \notin ToSet(new2) => data'[b] = d[b]
       /\ \A i \in 1..more : data'[new2[i]] = c[i]
    BY <1>12, <1>21, Zenon DEF IsSpread
<1>23. HasPut(data', l, old, x)
    <2>1. \A b \in ToSet(l) : b \in 1..N /\ b \notin ToSet(new2)
        <3>1. ToSet(l) \subseteq 1..N
            BY <1>15, ToSetFacts
        <3>. QED  BY <1>18, <3>1
    <2>2. Puts(data', d, l, x)
        BY <1>21, <1>22, <2>1, Zenon DEF Puts, IsSpread, L
    <2>. QED  BY <1>12, <1>14, <1>16, <1>22, <2>2, PutFacts, Zenon
<1>24. Fits(data', new2) /\ Content(data', new2) = Stream(s, from, rest)
    <2>1. Fits(data', new2)
        BY <1>12, <1>14, <1>22, FitsFacts, Zenon
    <2>2. ContentsOf(data', new2) = c
        <3> DEFINE U == Seq(Units)
                   r == ContentsOf(data', new2)
        <3>1. Shows(r, data', new2)
            BY <2>1, ContentsFacts, Zenon
        <3> HIDE DEF r
        <3>2. r \in Seq(U) /\ Len(r) = more /\ \A i \in 1..more : r[i] = c[i]
            BY <1>12, <1>22, <3>1, Zenon DEF Shows
        <3>3. c \in Seq(U)
            BY <1>19
        <3> HIDE DEF U
        <3>4. r = c
            BY <1>19, <3>2, <3>3, SeqEqual
        <3>. QED  BY <3>4 DEF r
    <2>3. FlattenSeq(c) = Stream(s, from, rest)
        BY <1>9, Zenon DEF AreChunks, c
    <2>. QED  BY <2>1, <2>2, <2>3, Zenon DEF Content
<1>25. list \in Seq(1..N) /\ Joins(list, l, new2) /\ Joins(list, old, new)
    <2>1. l \o new2 \in Seq(1..N) /\ Joins(l \o new2, l, new2)
        BY <1>12, <1>15, JoinFacts, Zenon
    <2>2. l \o new2 = list
        BY <1>12, Zenon
    <2>3. old \in Seq(1..N)
        <3>1. 1..all \subseteq 1..N /\ old \in Seq(1..all)
            BY <1>2, <1>14 DEF ListsOK
        <3>. QED  BY <3>1, SeqIn, Zenon
    <2>4. Joins(list, old, new)
        BY <1>14, <2>3, JoinFacts, Zenon
    <2>. QED  BY <2>1, <2>2, <2>4, Zenon
<1>26. /\ FullButLast(data', l) /\ Fits(data', l)
       /\ Content(data', l) = Content(data, old) \o x
    BY <1>23, Zenon DEF HasPut
<1>27. Content(data', list) = (Content(data, old) \o x) \o Stream(s, from, rest)
    <2>1. Content(data', l \o new2) = Content(data', l) \o Content(data', new2)
        BY <1>24, <1>26, ContentConcat, Zenon
    <2>2. l \o new2 = list
        BY <1>12, Zenon
    <2>. QED  BY <1>24, <1>26, <2>1, <2>2, Zenon
<1>28. /\ Len(data'[L]) <= BufSize
       /\ more # 0 => Len(data'[L]) = BufSize
    <2> DEFINE z == d[L]
    <2>1. data'[L] = z \o x
        BY <1>21, Zenon DEF IsSpread
    <2>2. z \in Seq(Units) /\ room = BufSize - Len(z)
        BY <1>13, <1>14, <1>15
    <2> HIDE DEF z
    <2>3. Len(z \o x) = Len(z) + first /\ Len(z) \in Nat
        <3>1. Len(z) \in Nat
            BY <2>2
        <3>. QED  BY <1>16, <2>2, <3>1, RoomFacts, Zenon
    <2> DEFINE lz == Len(z)
               lzx == Len(z \o x)
    <2>4. lzx = lz + first /\ lz \in Nat /\ room = BufSize - lz
        BY <2>2, <2>3
    <2> HIDE DEF lz, lzx
    <2>5. lzx <= BufSize /\ (more # 0 => lzx = BufSize)
        <3>1. /\ first \in Nat /\ first <= room
              /\ more # 0 => first = room
            BY <1>9
        <3>. QED  BY <2>4, <3>1
    <2>. QED  BY <2>1, <2>5, Zenon DEF lzx
<1>29. FullButLast(data', list)
    <2>1. FullButLast(data', new2)
        <3>1. \A i \in 1..(more - 1) : Len(c[i]) = BufSize
            BY <1>9, Zenon DEF AreChunks, c
        <3>2. ASSUME NEW i \in 1..(Len(new2) - 1) PROVE i \in 1..(more - 1) /\ i \in 1..more
            BY <1>9, <1>12
        <3>3. \A i \in 1..(Len(new2) - 1) : Len(data'[new2[i]]) = BufSize
            BY <1>22, <3>1, <3>2, Zenon
        <3>. QED  BY <3>3, Zenon DEF FullButLast
    <2>2. new2 # <<>> => more # 0
        BY <1>12
    <2>3. l # <<>>
        BY <1>15
    <2>4. new2 # <<>> => Len(data'[Last(l)]) = BufSize
        BY <1>28, <2>2, Zenon DEF L
    <2>. QED  BY <1>12, <1>15, <1>25, <1>26, <2>1, <2>3, <2>4, JoinFull, Zenon
<1>30. /\ sendList'[s] = list /\ written'[s] = w + n
       /\ \A t \in Sessions : t # s =>
              sendList'[t] = sendList[t] /\ written'[t] = written[t]
    <2>1. sendList \in [Sessions -> Seq(Buffers)] /\ written \in [Sessions -> Nat]
        BY <1>1 DEF TypeOK
    <2>2. sendList' = [sendList EXCEPT ![s] = list]
        BY <1>3
    <2> HIDE DEF list
    <2>3. sendList'[s] = list /\ \A t \in Sessions : t # s => sendList'[t] = sendList[t]
        BY <2>1, <2>2
    <2>4. written'[s] = w + n /\ \A t \in Sessions : t # s => written'[t] = written[t]
        BY <1>3, <2>1 DEF w
    <2>. QED  BY <2>3, <2>4
<1>31. Sends(s)'
    <2> DEFINE f == wire[s]
               o == Content(data, old)
               y == Stream(s, from, rest)
               out == f \o ((o \o x) \o y)
    <2>1. f \in Seq(Units) /\ o \in Seq(Units)
        BY <1>2, <1>8, ContentsFacts, Zenon DEF ListsOK
    <2>2. /\ InOrder(s, w, f \o o)
          /\ s \notin short => f \o o = Stream(s, 0, w)
        BY <1>1, <1>3, Zenon DEF Sends, w
    <2>3. w + first + rest = w + n
        BY <1>8, <1>9
    <2>4. /\ InOrder(s, w + n, out)
          /\ f \o o = Stream(s, 0, w) => out = Stream(s, 0, w + n)
        <3> HIDE DEF f, o, rest
        <3>1. StaysSent(s, w, w + first + rest, f \o o, out)
            BY <1>8, <1>9, <2>1, <2>2, SentMore, Zenon DEF x
        <3>. QED  BY <2>3, <3>1, Zenon DEF StaysSent
    <2>5. wire'[s] \o Content(data', sendList'[s]) = out
        BY <1>4, <1>27, <1>30, Zenon
    <2>6. FullButLast(data', sendList'[s])
        BY <1>29, <1>30, Zenon
    <2> HIDE DEF out
    <2>7. /\ InOrder(s, written'[s], wire'[s] \o Content(data', sendList'[s]))
          /\ s \notin short' =>
                 wire'[s] \o Content(data', sendList'[s]) = Stream(s, 0, written'[s])
        BY <1>4, <1>30, <2>2, <2>4, <2>5, Zenon
    <2>. QED  BY <2>6, <2>7, Zenon DEF Sends
<1>32. TypeOK'
    <2>1. 1..all \subseteq 1..N
        BY <1>14
    <2>2. \A q \in Seq(1..all) : q \in Seq(1..N)
        BY <2>1, SeqIn, Zenon
    <2>3. /\ recvList \in [Sessions -> Seq(1..all)] /\ sendList \in [Sessions -> Seq(1..all)]
          /\ written \in [Sessions -> Nat] /\ leaked \subseteq 1..all
        BY <1>1 DEF TypeOK, Buffers
    <2> DEFINE S0 == Seq(1..all)
               S1 == Seq(1..N)
    <2>4. /\ recvList \in [Sessions -> S0] /\ sendList \in [Sessions -> S0]
          /\ list \in S1 /\ \A q \in S0 : q \in S1
        BY <1>25, <2>2, <2>3
    <2>5. sendList' = [sendList EXCEPT ![s] = list]
        BY <1>3
    <2> HIDE DEF S0, S1, list
    <2>6. sendList' \in [Sessions -> S1]
        BY <2>4, <2>5
    <2>7. recvList' \in [Sessions -> S1]
        BY <1>4, <2>4
    <2>8. written' \in [Sessions -> Nat]
        <3>1. written' = [written EXCEPT ![s] = @ + n]
            BY <1>3
        <3>. QED  BY <2>3, <3>1
    <2>9. leaked' \subseteq 1..N
        BY <1>4, <2>1, <2>3
    <2>. QED  BY <1>1, <1>4, <1>14, <1>22, <2>6, <2>7, <2>8, <2>9, Zenon
             DEF TypeOK, Buffers, S1
<1>33. Held(s)' = Held(s) \cup ToSet(new) /\ OwnLists(s)'
    <2>1. /\ ToSet(list) = ToSet(old) \cup ToSet(new)
          /\ IsInjective(list) <=> /\ IsInjective(old) /\ IsInjective(new)
                                   /\ ToSet(old) \cap ToSet(new) = {}
        BY <1>25, Zenon DEF Joins
    <2> HIDE DEF list
    <2>2. Held(s) = ToSet(recvList[s]) \cup ToSet(old)
        BY DEF Held
    <2>3. IsInjective(list) /\ ToSet(recvList[s]) \cap ToSet(list) = {}
        BY <1>5, <1>14, <2>1, <2>2 DEF OwnLists
    <2>4. Held(s)' = ToSet(recvList[s]) \cup ToSet(list)
        BY <1>4, <1>30, Zenon DEF Held
    <2>5. OwnLists(s)'
        BY <1>4, <1>5, <1>30, <2>3, Zenon DEF OwnLists
    <2>. QED  BY <2>1, <2>2, <2>4, <2>5
<1>34. \A t \in Sessions : t # s => SameLists(t)
    BY <1>4, <1>30, Zenon DEF SameLists
<1>35. Handles(s)
    <2>1. leaked' = leaked
        BY <1>4
    <2>. QED  BY <1>1, <1>11, <1>12, <1>33, <1>34, <2>1, TakenHandles, Zenon
<1>36. L \in Held(s) \/ L \in ToSet(new)
    BY <1>12, <1>15, <1>17
<1>37. ToSet(new2) \subseteq ToSet(new)
    BY <1>12
<1>38. /\ Clean' /\ NotOverrun'
       /\ \A b \in 1..all : b \notin Held(s) /\ b \notin ToSet(pool) => data'[b] = data[b]
    <2>1. \A b \in 1..N : b \notin Held(s) /\ b \notin ToSet(new) => data'[b] = d[b]
        BY <1>22, <1>36, <1>37
    <2>2. ASSUME NEW b \in 1..N, b \in Held(s) \/ b \in ToSet(new)
          PROVE  Len(data'[b]) <= BufSize
        <3>1. CASE b = L
            BY <1>28, <3>1, Zenon
        <3>2. CASE b \in ToSet(new2)
            <4>1. PICK i \in 1..more : new2[i] = b
                <5>0. new2 \in Seq(1..N)
                    BY <1>12, Zenon
                <5>1. \E i \in 1..Len(new2) : new2[i] = b
                    BY <3>2, <5>0, ToSetFacts, Zenon
                <5>. QED  BY <1>12, <5>1, Zenon
            <4>2. Len(c[i]) <= BufSize
                BY <1>9, Zenon DEF AreChunks, c
            <4>. QED  BY <1>22, <4>1, <4>2, Zenon
        <3>3. CASE b # L /\ b \notin ToSet(new2) /\ b \in Held(s)
            <4>1. b \in 1..all
                BY <1>2, <3>3 DEF ListsOK
            <4>2. data'[b] = data[b]
                BY <1>12, <1>22, <3>3, <4>1, Zenon DEF Fresh
            <4>. QED  BY <1>1, <4>1, <4>2, Zenon DEF NotOverrun, Buffers
        <3>4. CASE b # L /\ b \notin ToSet(new2) /\ b \in ToSet(new)
            <4>1. data'[b] = <<>>
                BY <1>12, <1>22, <3>4, Zenon DEF Fresh
            <4>2. Len(<<>>) <= BufSize
                OBVIOUS
            <4>. QED  BY <4>1, <4>2, Zenon
        <3>. QED  BY <2>2, <3>1, <3>2, <3>3, <3>4
    <2>3. Taken(new, N, pool', d) /\ Fresh(new, s, N, d)
        BY <1>11, <1>12, Zenon
    <2>. QED  BY <1>1, <2>1, <2>2, <2>3, PoolKept, Zenon
<1>39. Leaves(s)
    <2>1. alive' \subseteq alive
        BY <1>4
    <2>. QED  BY <1>4, <1>30, <1>34, <1>38, <2>1, Zenon DEF Leaves
<1>40. Receives(s)'
    <2>1. ToSet(recvList[s]) \cap ToSet(old) = {} /\ ToSet(recvList[s]) \subseteq Held(s)
        BY <1>5 DEF OwnLists, Held
    <2>2. \A b \in ToSet(recvList[s]) : b \in 1..all /\ b \in 1..N
        BY <1>2, <1>14 DEF ListsOK
    <2>3. \A b \in ToSet(recvList[s]) : b # L /\ b \notin ToSet(new2)
        BY <1>12, <1>14, <1>15, <1>37, <2>1
    <2>4. \A b \in ToSet(recvList[s]) : data'[b] = data[b]
        BY <1>12, <1>22, <2>2, <2>3, Zenon DEF Fresh
    <2>. QED  BY <1>1, <1>4, <2>4, ReceivesKept, Zenon
<1>41. ReadingSomething'
    BY <1>1, <1>4, Zenon DEF ReadingSomething
<1>. QED  BY <1>14, <1>31, <1>32, <1>35, <1>38, <1>39, <1>40, <1>41, StepKeepsIInv, Zenon

-----------------------------------------------------------------------------
\* The program starts with no Buffer.
LEMMA InitIInv == Init => IInv
<1> SUFFICES ASSUME Init PROVE IInv
    OBVIOUS
<1>1. /\ pool = <<>> /\ all = 0 /\ data = <<>> /\ alive = Sessions /\ leaked = {}
      /\ reading = NoSession /\ drained = FALSE /\ short = {}
    BY DEF Init
<1>2. /\ recvList = [s \in Sessions |-> <<>>] /\ sendList = [s \in Sessions |-> <<>>]
      /\ received = [s \in Sessions |-> 0] /\ written = [s \in Sessions |-> 0]
      /\ handled = [s \in Sessions |-> <<>>] /\ wire = [s \in Sessions |-> <<>>]
    BY DEF Init
<1>3. \A s \in Sessions : /\ recvList[s] = <<>> /\ sendList[s] = <<>>
                          /\ received[s] = 0 /\ written[s] = 0
                          /\ handled[s] = <<>> /\ wire[s] = <<>>
    BY <1>2
<1>4. Buffers = {} /\ 1..0 = {}
    BY <1>1 DEF Buffers
<1>5. ToSet(<<>>) = {} /\ IsInjective(<<>>)
    BY DEF ToSet, IsInjective
<1>6. TypeOK
    <2>1. /\ pool \in Seq(Buffers) /\ data \in [Buffers -> Seq(Units)] /\ all \in Nat
        BY <1>1, <1>4
    <2>2. /\ recvList \in [Sessions -> Seq(Buffers)] /\ sendList \in [Sessions -> Seq(Buffers)]
          /\ received \in [Sessions -> Nat] /\ written \in [Sessions -> Nat]
        BY <1>2
    <2>3. handled \in [Sessions -> Seq(Units)] /\ wire \in [Sessions -> Seq(Units)]
        BY <1>2
    <2>. QED  BY <1>1, <2>1, <2>2, <2>3 DEF TypeOK
<1>7. \A s \in Sessions : Held(s) = {} /\ OwnLists(s)
    BY <1>3, <1>5 DEF Held, OwnLists
<1>8. Owned
    BY <1>1, <1>4, <1>5, <1>7 DEF Owned
<1>9. Clean /\ NotOverrun
    BY <1>1, <1>4, <1>5 DEF Clean, NotOverrun
<1>10. ReadingSomething
    BY <1>1 DEF ReadingSomething
<1>11. ASSUME NEW s \in Sessions PROVE Receives(s) /\ Sends(s)
    <2>1. Stream(s, 0, 0) = <<>>
        BY DEF Stream
    <2>2. ContentsOf(data, <<>>) = <<>>
        BY DEF ContentsOf
    <2>3. Content(data, <<>>) = <<>>
        BY <2>2, FlattenAppend, Zenon DEF Content
    <2>4. <<>> \o <<>> = <<>>
        OBVIOUS
    <2>5. FullButLast(data, <<>>)
        BY DEF FullButLast
    <2>6. InOrder(s, 0, <<>>)
        BY DEF InOrder
    <2>7. Receives(s)
        BY <1>3, <2>1, <2>3, <2>4, <2>5, Zenon DEF Receives
    <2>8. Sends(s)
        BY <1>3, <2>1, <2>3, <2>4, <2>5, <2>6, Zenon DEF Sends
    <2>. QED  BY <2>7, <2>8
<1>. QED  BY <1>6, <1>8, <1>9, <1>10, <1>11, Zenon DEF IInv

\* Every operation of every session keeps the invariant.
LEMMA NextIInv == IInv /\ [Next]_vars => IInv'
<1> SUFFICES ASSUME IInv, [Next]_vars PROVE IInv'
    OBVIOUS
<1>1. ASSUME NEW s \in Sessions, NEW n \in 0..BufSize, Recv(s, n) PROVE IInv'
    <2>1. n \in Nat
        OBVIOUS
    <2>. QED  BY <1>1, <2>1, RecvKeeps, Zenon
<1>2. ASSUME NEW s \in Sessions, ReadHandler(s) PROVE IInv'
    BY <1>2, ReadHandlerKeeps, Zenon
<1>3. ASSUME NEW s \in Sessions, NEW n \in 0..MaxUnits, Write(s, n) PROVE IInv'
    <2>1. n \in Nat
        OBVIOUS
    <2>. QED  BY <1>3, <2>1, WriteKeeps, Zenon
<1>4. ASSUME NEW s \in Sessions, Drain(s) PROVE IInv'
    BY <1>4, DrainKeeps, Zenon
<1>5. ASSUME NEW s \in Sessions, CloseSession(s) PROVE IInv'
    BY <1>5, CloseSessionKeeps, Zenon
<1>6. ASSUME NEW s \in Sessions, ErrorSession(s) PROVE IInv'
    BY <1>6, ErrorSessionKeeps, Zenon
<1>7. ASSUME UNCHANGED vars PROVE IInv'
    <2>1. UNCHANGED <<pool, all, data, alive, leaked, reading, drained, recvList, received,
                      handled, sendList, written, wire, short>>
        BY <1>7 DEF vars, poolVars, readVars, recvVars, sendVars
    <2>2. TypeOK'
        BY <2>1 DEF IInv, TypeOK, Buffers
    <2>3. (\A s \in Sessions : Held(s)' = Held(s) /\ (OwnLists(s)' <=> OwnLists(s)))
          /\ Buffers' = Buffers
        BY <2>1, Zenon DEF Held, OwnLists, Buffers
    <2>4. Owned'
        BY <2>1, <2>3 DEF IInv, Owned
    <2>5. Clean' /\ NotOverrun' /\ ReadingSomething'
        BY <2>1, <2>3, Zenon DEF IInv, Clean, NotOverrun, ReadingSomething
    <2>6. \A s \in Sessions : Receives(s)' /\ Sends(s)'
        BY <2>1, Zenon DEF IInv, Receives, Sends
    <2>. QED  BY <2>2, <2>4, <2>5, <2>6, Zenon DEF IInv
<1>. QED  BY <1>1, <1>2, <1>3, <1>4, <1>5, <1>6, <1>7, Zenon DEF Next

\* The inductive invariant of the Buffers.
LEMMA SpecIInv == Spec => []IInv
BY InitIInv, NextIInv, PTL DEF Spec

\* In every reachable state each Buffer ever created is in the pool, in one list of one
\* session or was left behind by a deleted one, and in none of these twice; whoever
\* takes one out of the pool finds it empty, none is overrun, and in a list all but
\* the last one are full.
THEOREM EveryBufferHasOneOwner == Spec => []BuffersInv
<1>1. IInv => BuffersInv
    <2> SUFFICES ASSUME IInv PROVE BuffersInv
        OBVIOUS
    <2>1. TypeOK /\ Owned /\ Clean /\ NotOverrun
        BY Zenon DEF IInv
    <2>2. OneOwner
        BY <2>1, OwnedIsOneOwner
    <2>3. \A s \in Sessions : FullButLast(data, recvList[s]) /\ FullButLast(data, sendList[s])
        BY Zenon DEF IInv, Receives, Sends
    <2>4. ASSUME NEW s \in Sessions, NEW list \in {recvList[s], sendList[s]}
          PROVE  \A i \in 1..(Len(list) - 1) : Len(data[list[i]]) = BufSize
        BY <2>3 DEF FullButLast
    <2>5. Filling
        BY <2>1, <2>4, Zenon DEF Filling, Clean, NotOverrun
    <2>. QED  BY <2>1, <2>2, <2>5 DEF BuffersInv
<1>. QED  BY <1>1, SpecIInv, PTL

\* What recv() got for a session is, unit by unit, what its read handler was given and
\* what its receive list holds, whatever the other sessions do with the pool.
THEOREM EachReceivesItsOwn == Spec => []ReceivesItsOwn
<1>1. IInv => ReceivesItsOwn
    <2>1. \A list : ContentOf(list) = Content(data, list)
        BY Zenon DEF ContentOf, Content, ContentsOf
    <2>2. ASSUME IInv, NEW s \in alive
          PROVE  handled[s] \o ContentOf(recvList[s]) = Stream(s, 0, received[s])
        <3>1. s \in Sessions
            BY <2>2 DEF IInv, TypeOK
        <3>. QED  BY <2>1, <2>2, <3>1, Zenon DEF IInv, Receives
    <2>. QED  BY <2>2, Zenon DEF ReceivesItsOwn
<1>. QED  BY <1>1, SpecIInv, PTL

\* What send() took of a session is a part of what was written to it, in order and
\* nothing twice, at any chunking; and with what the send list holds it is all of it as
\* long as every send() took its whole Buffer.
THEOREM EachSendsItsOwn == Spec => []SendsItsOwn
<1>1. IInv => SendsItsOwn
    <2>1. \A list : ContentOf(list) = Content(data, list)
        BY Zenon DEF ContentOf, Content, ContentsOf
    <2>2. ASSUME IInv, NEW s \in alive PROVE Sends(s) /\ s \in Sessions
        BY <2>2, Zenon DEF IInv, TypeOK
    <2>. QED  BY <2>1, <2>2, Zenon DEF SendsItsOwn, Sends, InOrder
<1>. QED  BY <1>1, SpecIInv, PTL
=============================================================================

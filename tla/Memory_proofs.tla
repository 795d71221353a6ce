---------------------------- MODULE Memory_proofs ----------------------------
(***************************************************************************)
(* Theorems about the two components that manage memory of their own. They *)
(* share no state.                                                         *)
(*                                                                         *)
(* LazyBuffer, for every size of the buffer, every content and every       *)
(* length of an operation: the indexes stay in order, the asserts hold,    *)
(* and the readable bytes are the byte queue of ByteQueue. They assume     *)
(* that shrink is called only with kCheapPrepend bytes in front of the     *)
(* content; called elsewhere it breaks all three.                          *)
(*                                                                         *)
(* MemoryPool, for every number of block sizes, every refill and wherever  *)
(* malloc puts its chunks: while malloc succeeds no two blocks overlap and *)
(* no word is lost, and a failed malloc does no harm by itself. The proofs *)
(* go by two views of memory: which block is in which place (Ledger), and  *)
(* which words the blocks cover (Covered). The inductive invariant,        *)
(* PoolIInv, adds that the free heap lies in one chunk behind the blocks   *)
(* cut from it, and that a failed malloc leaves start_free 0 and end_free  *)
(* not, so that the next refill ends the process.                          *)
(***************************************************************************)
EXTENDS LazyBuffer, MemoryPool, SeqFacts

-----------------------------------------------------------------------------
(* Vectors.                                                                *)

\* A part of a vector.
LEMMA PartFacts ==
    ASSUME NEW S, NEW d \in Seq(S), NEW a \in Nat, NEW b \in Nat, a <= b, b <= Len(d)
    PROVE  /\ SubSeq(d, a + 1, b) \in Seq(S)
           /\ Len(SubSeq(d, a + 1, b)) = b - a
           /\ \A k \in 1..(b - a) : SubSeq(d, a + 1, b)[k] = d[a + k]
OBVIOUS

\* Two sequences with the same elements are equal.
LEMMA SeqsEqual ==
    ASSUME NEW S, NEW s \in Seq(S), NEW t \in Seq(S), Len(s) = Len(t),
           \A k \in 1..Len(s) : s[k] = t[k]
    PROVE  s = t
OBVIOUS

\* std::copy within the bounds of the destination.
LEMMA CopiedFacts ==
    ASSUME NEW d \in Seq(Cells), NEW s \in Seq(Cells), NEW k \in Nat, k + Len(s) <= Len(d)
    PROVE  /\ Copied(d, k, s) \in Seq(Cells) /\ Len(Copied(d, k, s)) = Len(d)
           /\ \A j \in 1..Len(s) : Copied(d, k, s)[k + j] = s[j]
           /\ \A j \in 1..Len(d) : j <= k \/ j > k + Len(s) => Copied(d, k, s)[j] = d[j]
<1> DEFINE c == [j \in 1..Len(d) |-> IF j \in (k + 1)..(k + Len(s)) THEN s[j - k] ELSE d[j]]
<1>1. Copied(d, k, s) = c
    BY DEF Copied
<1>2. \A j \in 1..Len(d) : c[j] \in Cells
    OBVIOUS
<1>3. c \in Seq(Cells) /\ Len(c) = Len(d)
    BY <1>2
<1>4. \A j \in 1..Len(s) : k + j \in 1..Len(d) /\ (k + j) - k = j /\ k + j \in (k + 1)..(k + Len(s))
    OBVIOUS
<1>5. \A j \in 1..Len(s) : c[k + j] = s[j]
    BY <1>4
<1>. QED  BY <1>1, <1>3, <1>5

\* A vector of zeros.
LEMMA ZerosFacts ==
    ASSUME NEW n \in Nat
    PROVE  Zeros(n) \in Seq(Cells) /\ Len(Zeros(n)) = n
BY DEF Zeros, Cells

\* vector::resize keeps what was there.
LEMMA ResizedFacts ==
    ASSUME NEW d \in Seq(Cells), NEW n \in Nat, Len(d) <= n
    PROVE  /\ Resized(d, n) \in Seq(Cells) /\ Len(Resized(d, n)) = n
           /\ \A j \in 1..Len(d) : Resized(d, n)[j] = d[j]
<1>1. \A j \in 1..n : Resized(d, n)[j] \in Cells
    BY DEF Resized, Cells
<1>2. Resized(d, n) \in Seq(Cells) /\ Len(Resized(d, n)) = n
    BY <1>1 DEF Resized
<1>. QED  BY <1>2 DEF Resized

\* What the invariant says of the variables, in the form the steps need.
LEMMA InvFacts ==
    ASSUME BufferInv
    PROVE  /\ data \in Seq(Cells) /\ reader \in Nat /\ writer \in Nat /\ ~aborted
           /\ reader <= writer /\ writer <= Len(data) /\ kCheapPrepend <= Len(data)
           /\ kCheapPrepend \in Nat
           /\ Content \in Seq(Cells) /\ Len(Content) = writer - reader
           /\ \A k \in 1..(writer - reader) : Content[k] = data[reader + k]
<1>1. /\ data \in Seq(Cells) /\ reader \in Nat /\ writer \in Nat /\ ~aborted
      /\ reader <= writer /\ writer <= Len(data) /\ kCheapPrepend <= Len(data)
      /\ kCheapPrepend \in Nat
    BY BufferAssumption DEF BufferInv, TypeOK, IndexesOrdered, AssertsHold
<1>. QED  BY <1>1, PartFacts DEF Content

\* The numbers alone.
LEMMA InvNumbers ==
    ASSUME BufferInv
    PROVE  /\ reader \in Nat /\ writer \in Nat /\ Len(data) \in Nat /\ kCheapPrepend \in Nat
           /\ reader <= writer /\ writer <= Len(data) /\ kCheapPrepend <= Len(data)
           /\ writer - reader \in Nat /\ Len(Content) = writer - reader
BY InvFacts

\* The content after a step.
LEMMA NewContent ==
    ASSUME data' \in Seq(Cells), reader' \in Nat, writer' \in Nat,
           reader' <= writer', writer' <= Len(data')
    PROVE  /\ Content' \in Seq(Cells) /\ Len(Content') = writer' - reader'
           /\ \A k \in 1..(writer' - reader') : Content'[k] = data'[reader' + k]
BY PartFacts DEF Content

\* The invariant after a step, from its parts.
LEMMA InvAfter ==
    ASSUME data' \in Seq(Cells), reader' \in Nat, writer' \in Nat, BufferInv, aborted' = aborted,
           reader' <= writer', writer' <= Len(data'), kCheapPrepend <= Len(data')
    PROVE  BufferInv'
<1>1. aborted' \in BOOLEAN /\ ~aborted'
    BY DEF BufferInv, TypeOK, AssertsHold
<1>. QED  BY <1>1 DEF BufferInv, TypeOK, IndexesOrdered, AssertsHold

-----------------------------------------------------------------------------
\* When makeSpace moves the content inside the vector, the content lies behind
\* the space in front, and what has to be added fits after the move.
LEMMA MoveFacts ==
    ASSUME BufferInv, NEW more \in Nat, writableBytes < more, ~MustResize(more)
    PROVE  /\ kCheapPrepend < reader
           /\ kCheapPrepend + (writer - reader) + more <= Len(data)
BY InvFacts DEF writableBytes, prependableBytes, MustResize

\* makeSpace makes room for more bytes and keeps the content.
LEMMA SpacedFacts ==
    ASSUME BufferInv, NEW more \in Nat
    PROVE  /\ Spaced(more).d \in Seq(Cells)
           /\ Spaced(more).r \in Nat /\ Spaced(more).w \in Nat
           /\ Spaced(more).w - Spaced(more).r = writer - reader
           /\ Spaced(more).w + more <= Len(Spaced(more).d)
           /\ kCheapPrepend <= Len(Spaced(more).d)
           /\ \A k \in 1..(writer - reader) : Spaced(more).d[Spaced(more).r + k] = Content[k]
<1> DEFINE Goal(d, r, w) ==
        /\ d \in Seq(Cells) /\ r \in Nat /\ w \in Nat
        /\ w - r = writer - reader /\ w + more <= Len(d) /\ kCheapPrepend <= Len(d)
        /\ \A k \in 1..(writer - reader) : d[r + k] = Content[k]
<1>1. ASSUME writableBytes >= more PROVE Goal(data, reader, writer)
    BY <1>1, InvFacts DEF writableBytes
<1>2. ASSUME writableBytes < more
      PROVE  Goal(Resized(data, NewSize(more)), reader, writer)
    <2>1. NewSize(more) \in Nat /\ Len(data) <= NewSize(more) /\ NewSize(more) = writer + more
        BY <1>2, InvFacts DEF writableBytes, NewSize
    <2>2. /\ Resized(data, NewSize(more)) \in Seq(Cells)
          /\ Len(Resized(data, NewSize(more))) = writer + more
          /\ \A j \in 1..Len(data) : Resized(data, NewSize(more))[j] = data[j]
        BY <2>1, InvFacts, ResizedFacts
    <2>3. \A k \in 1..(writer - reader) : reader + k \in 1..Len(data)
        BY InvFacts
    <2>4. \A k \in 1..(writer - reader) :
              Resized(data, NewSize(more))[reader + k] = Content[k]
        BY <2>2, <2>3, InvFacts
    <2>. QED  BY <2>1, <2>2, <2>4, InvFacts
<1>3. ASSUME writableBytes < more, ~MustResize(more)
      PROVE  Goal(Copied(data, kCheapPrepend, Content), kCheapPrepend,
                  kCheapPrepend + readableBytes)
    <2>1. kCheapPrepend + (writer - reader) + more <= Len(data)
        BY <1>3, MoveFacts
    <2>2. /\ Copied(data, kCheapPrepend, Content) \in Seq(Cells)
          /\ Len(Copied(data, kCheapPrepend, Content)) = Len(data)
          /\ \A k \in 1..(writer - reader) :
                 Copied(data, kCheapPrepend, Content)[kCheapPrepend + k] = Content[k]
        <3>1. Content \in Seq(Cells) /\ Len(Content) = writer - reader
            BY InvFacts
        <3>2. kCheapPrepend + Len(Content) <= Len(data) /\ data \in Seq(Cells)
              /\ kCheapPrepend \in Nat
            BY <2>1, <3>1, InvFacts
        <3>. QED  BY <3>1, <3>2, CopiedFacts
    <2>. QED  BY <2>1, <2>2, InvFacts DEF readableBytes
<1> HIDE DEF Goal
<1>4. Goal(Spaced(more).d, Spaced(more).r, Spaced(more).w)
    <2>1. writableBytes >= more \/ writableBytes < more
        BY InvFacts DEF writableBytes
    <2>2. ASSUME writableBytes >= more PROVE <1>4!:
        BY <1>1, <2>2 DEF Spaced
    <2>3. ASSUME writableBytes < more, MustResize(more) PROVE <1>4!:
        <3>1. ~(writableBytes >= more)
            BY <2>3, InvFacts DEF writableBytes
        <3>. QED  BY <1>2, <2>3, <3>1 DEF Spaced
    <2>4. ASSUME writableBytes < more, ~MustResize(more) PROVE <1>4!:
        <3>1. ~(writableBytes >= more)
            BY <2>4, InvFacts DEF writableBytes
        <3>. QED  BY <1>3, <2>4, <3>1 DEF Spaced
    <2>. QED  BY <2>1, <2>2, <2>3, <2>4
<1>. QED  BY <1>4 DEF Goal

-----------------------------------------------------------------------------
(* The operations: each keeps the invariant and does to the content what    *)
(* ByteQueue says.                                                          *)

\* A new buffer is empty.
LEMMA InitFacts == Init => BufferInv /\ Content = <<>>
<1> SUFFICES ASSUME Init PROVE BufferInv /\ Content = <<>>
    OBVIOUS
<1>1. /\ data \in Seq(Cells) /\ Len(data) = kCheapPrepend + kInitialSize
      /\ reader = kCheapPrepend /\ writer = kCheapPrepend /\ aborted = FALSE
      /\ kCheapPrepend \in Nat /\ kInitialSize \in Nat
    BY BufferAssumption, ZerosFacts DEF Init
<1>2. BufferInv
    <2>1. aborted \in BOOLEAN /\ ~aborted
        BY <1>1
    <2>2. reader \in Nat /\ writer \in Nat /\ 0 <= reader /\ reader <= writer
          /\ writer <= Len(data) /\ kCheapPrepend <= Len(data)
        BY <1>1
    <2>. QED  BY <1>1, <2>1, <2>2 DEF BufferInv, TypeOK, IndexesOrdered, AssertsHold
<1>3. Len(Content) = 0 /\ Content \in Seq(Cells)
    BY <1>1, <1>2, InvFacts
<1>. QED  BY <1>2, <1>3

\* append puts bytes behind the content, wherever makeSpace moves it.
LEMMA AppendStep ==
    ASSUME BufferInv, NEW s \in Seq(Bytes), append(s)
    PROVE  BufferInv' /\ Content' = Content \o s
<1> DEFINE n == Len(s)
           b == Spaced(n)
<1>1. n \in Nat /\ s \in Seq(Cells)
    BY DEF Cells
<1>2. /\ b.d \in Seq(Cells) /\ b.r \in Nat /\ b.w \in Nat
      /\ b.w - b.r = writer - reader /\ b.w + n <= Len(b.d)
      /\ kCheapPrepend <= Len(b.d)
      /\ \A k \in 1..(writer - reader) : b.d[b.r + k] = Content[k]
    BY <1>1, SpacedFacts
<1> HIDE DEF b
<1>3. /\ reader' = b.r /\ writer' = b.w + n /\ aborted' = aborted
      /\ data' = Copied(b.d, b.w, s)
    BY <1>1, <1>2 DEF append, b
<1>4. /\ data' \in Seq(Cells) /\ Len(data') = Len(b.d)
      /\ \A j \in 1..n : data'[b.w + j] = s[j]
      /\ \A j \in 1..Len(b.d) : j <= b.w \/ j > b.w + n => data'[j] = b.d[j]
    BY <1>1, <1>2, <1>3, CopiedFacts
<1> DEFINE m == writer - reader
<1>5. /\ m \in Nat /\ n \in Nat /\ b.r \in Nat /\ b.w = b.r + m /\ b.w \in Nat
      /\ b.w + n <= Len(b.d) /\ Len(b.d) \in Nat /\ Len(Content) = m
    <2>1. m \in Nat /\ Len(Content) = m
        BY InvNumbers
    <2>2. b.r \in Nat /\ b.w \in Nat /\ b.w - b.r = m /\ b.w + n <= Len(b.d)
        BY <1>2
    <2>3. Len(b.d) \in Nat
        BY <1>2
    <2> HIDE DEF m, n
    <2>4. b.w = b.r + m
        BY <2>1, <2>2
    <2>. QED  BY <1>1, <2>1, <2>2, <2>3, <2>4
<1> HIDE DEF m, n
<1>6. /\ BufferInv' /\ Content' \in Seq(Cells) /\ Len(Content') = m + n
      /\ \A k \in 1..(m + n) : Content'[k] = data'[b.r + k]
    <2>1. /\ reader' \in Nat /\ writer' \in Nat /\ reader' <= writer' /\ writer' <= Len(data')
          /\ writer' - reader' = m + n
        <3>1. reader' = b.r /\ writer' = b.w + n /\ Len(data') = Len(b.d)
            BY <1>3, <1>4
        <3>2. b.r <= b.w + n /\ b.w + n \in Nat /\ (b.w + n) - b.r = m + n
            BY <1>5
        <3>. QED  BY <1>5, <3>1, <3>2
    <2>2. BufferInv'
        BY <1>2, <1>3, <1>4, <2>1, InvFacts, InvAfter
    <2>. QED  BY <1>3, <1>4, <2>1, <2>2, NewContent
<1>7. ASSUME NEW k \in 1..(m + n) PROVE Content'[k] = (Content \o s)[k]
    <2>1. ASSUME k <= m PROVE Content'[k] = Content[k]
        <3>1. k \in 1..m /\ k \in Nat
            BY <1>5, <2>1
        <3>3. b.r + k \in 1..Len(b.d) /\ b.r + k <= b.w
            <4>1. b.r + k <= b.r + m /\ 1 <= b.r + k /\ b.r + k \in Nat
                BY <1>5, <3>1
            <4>2. b.r + m = b.w /\ b.w \in Nat
                BY <1>5
            <4>3. b.w <= Len(b.d) /\ Len(b.d) \in Nat
                BY <1>5
            <4>4. b.r + k <= b.w
                BY <4>1, <4>2
            <4>. QED  BY <4>1, <4>2, <4>3, <4>4
        <3>2. b.d[b.r + k] = Content[k]
            BY <1>2, <3>1 DEF m
        <3>. QED  BY <1>4, <1>6, <3>1, <3>2, <3>3
    <2>2. ASSUME k > m PROVE Content'[k] = s[k - m]
        <3>1. k - m \in 1..n /\ b.r + k = b.w + (k - m)
            BY <1>5, <2>2
        <3>. QED  BY <1>4, <1>6, <3>1
    <2>3. Content \in Seq(Cells) /\ s \in Seq(Cells) /\ Len(s) = n /\ Len(Content) = m
        BY <1>1, <1>5, InvFacts DEF n
    <2>4. \A j \in 1..(Len(Content) + Len(s)) :
              (Content \o s)[j] = IF j <= Len(Content) THEN Content[j] ELSE s[j - Len(Content)]
        BY <2>3, ConcatProperties
    <2>5. (Content \o s)[k] = IF k <= m THEN Content[k] ELSE s[k - m]
        BY <2>3, <2>4
    <2>. QED  BY <1>5, <2>1, <2>2, <2>5
<1>8. Content \o s \in Seq(Cells) /\ Len(Content \o s) = m + n
    <2>1. Content \in Seq(Cells) /\ s \in Seq(Cells) /\ Len(s) = n /\ Len(Content) = m
        BY <1>1, <1>5, InvFacts DEF n
    <2>2. Content \o s \in Seq(Cells) /\ Len(Content \o s) = Len(Content) + Len(s)
        BY <2>1, ConcatProperties
    <2>. QED  BY <2>1, <2>2
<1>9. Content' = Content \o s
    BY <1>6, <1>7, <1>8, SeqsEqual
<1>. QED  BY <1>6, <1>9

\* prepend puts bytes in front of the content.
LEMMA PrependStep ==
    ASSUME BufferInv, NEW s \in Seq(Bytes), prepend(s)
    PROVE  BufferInv' /\ Content' = s \o Content
<1> DEFINE n == Len(s)
           r == reader - n
<1>1. n \in Nat /\ s \in Seq(Cells)
    BY DEF Cells
<1>2. /\ reader' = r /\ writer' = writer /\ aborted' = aborted /\ data' = Copied(data, r, s)
      /\ r \in Nat /\ r + n = reader /\ r <= writer
    BY <1>1, InvFacts DEF prepend, prependableBytes
<1> HIDE DEF r, n
<1>3. /\ data' \in Seq(Cells) /\ Len(data') = Len(data)
      /\ \A j \in 1..n : data'[r + j] = s[j]
      /\ \A j \in 1..Len(data) : j <= r \/ j > r + n => data'[j] = data[j]
    <2>1. r + Len(s) <= Len(data) /\ data \in Seq(Cells)
        BY <1>2, InvFacts DEF n
    <2>2. /\ Copied(data, r, s) \in Seq(Cells) /\ Len(Copied(data, r, s)) = Len(data)
          /\ \A j \in 1..Len(s) : Copied(data, r, s)[r + j] = s[j]
          /\ \A j \in 1..Len(data) : j <= r \/ j > r + Len(s) => Copied(data, r, s)[j] = data[j]
        BY <1>1, <1>2, <2>1, CopiedFacts
    <2>. QED  BY <1>2, <2>2 DEF n
<1>4. BufferInv'
    BY <1>2, <1>3, InvFacts DEF BufferInv, TypeOK, IndexesOrdered, AssertsHold
<1>5. /\ Content' \in Seq(Cells) /\ Len(Content') = n + (writer - reader)
      /\ \A k \in 1..(n + (writer - reader)) : Content'[k] = data'[r + k]
    <2>1. /\ reader' \in Nat /\ writer' \in Nat /\ reader' <= writer' /\ writer' <= Len(data')
          /\ writer' - reader' = n + (writer - reader)
        BY <1>1, <1>2, <1>3, InvNumbers
    <2>. QED  BY <1>2, <1>3, <2>1, NewContent
<1>6. ASSUME NEW k \in 1..(n + (writer - reader)) PROVE Content'[k] = (s \o Content)[k]
    <2>1. writer - reader \in Nat /\ Len(Content) = writer - reader /\ Content \in Seq(Cells)
          /\ Len(s) = n
        BY InvFacts DEF n
    <2>2. ASSUME k <= n PROVE Content'[k] = s[k]
        BY <1>1, <1>3, <1>5, <2>2
    <2>3. ASSUME k > n PROVE Content'[k] = Content[k - n]
        <3>1. k - n \in 1..(writer - reader) /\ r + k = reader + (k - n)
            BY <1>1, <1>2, <2>1, <2>3
        <3>2. r + k \in 1..Len(data) /\ r + k > r + n
            <4>1. reader \in Nat /\ writer \in Nat /\ Len(data) \in Nat
                  /\ reader <= writer /\ writer <= Len(data)
                BY InvFacts
            <4>. QED  BY <1>1, <1>2, <2>3, <3>1, <4>1
        <3>3. Content[k - n] = data[reader + (k - n)]
            BY <3>1, InvFacts
        <3>. QED  BY <1>3, <1>5, <3>1, <3>2, <3>3
    <2>4. (s \o Content)[k] = IF k <= n THEN s[k] ELSE Content[k - n]
        BY <1>1, <2>1, ConcatProperties
    <2>. QED  BY <1>1, <2>1, <2>2, <2>3, <2>4
<1>7. s \o Content \in Seq(Cells) /\ Len(s \o Content) = n + (writer - reader)
    <2>1. Content \in Seq(Cells) /\ Len(Content) = writer - reader /\ Len(s) = n
        BY InvFacts DEF n
    <2>. QED  BY <1>1, <2>1, ConcatProperties
<1>8. Content' = s \o Content
    BY <1>5, <1>6, <1>7, SeqsEqual
<1>. QED  BY <1>4, <1>8

\* retrieve takes bytes off the front.
LEMMA RetrieveStep ==
    ASSUME BufferInv, NEW n \in Nat, retrieve(n)
    PROVE  /\ BufferInv' /\ n \in 0..Len(Content)
           /\ Content' = SubSeq(Content, n + 1, Len(Content))
<1>1. /\ reader' = reader + n /\ data' = data /\ writer' = writer /\ aborted' = aborted
      /\ n <= writer - reader
    BY DEF retrieve, readableBytes
<1>2. BufferInv'
    BY <1>1, InvFacts DEF BufferInv, TypeOK, IndexesOrdered, AssertsHold
<1>3. /\ Content' \in Seq(Cells) /\ Len(Content') = (writer - reader) - n
      /\ \A k \in 1..((writer - reader) - n) : Content'[k] = data[(reader + n) + k]
    <2>1. /\ reader' \in Nat /\ writer' \in Nat /\ reader' <= writer' /\ writer' <= Len(data')
          /\ writer' - reader' = (writer - reader) - n
        BY <1>1, InvNumbers
    <2>. QED  BY <1>1, <2>1, InvFacts, NewContent
<1>4. LET t == SubSeq(Content, n + 1, Len(Content))
      IN  /\ t \in Seq(Cells) /\ Len(t) = (writer - reader) - n
          /\ \A k \in 1..((writer - reader) - n) : t[k] = Content[n + k]
    <2>1. Content \in Seq(Cells) /\ Len(Content) = writer - reader
          /\ n <= Len(Content) /\ Len(Content) \in Nat
        BY <1>1, InvFacts, InvNumbers
    <2>2. LET t == SubSeq(Content, n + 1, Len(Content))
          IN  /\ t \in Seq(Cells) /\ Len(t) = Len(Content) - n
              /\ \A k \in 1..(Len(Content) - n) : t[k] = Content[n + k]
        BY <2>1, PartFacts
    <2>. QED  BY <2>1, <2>2
<1>5. ASSUME NEW k \in 1..((writer - reader) - n) PROVE Content[n + k] = data[(reader + n) + k]
    <2>1. n + k \in 1..(writer - reader) /\ reader + (n + k) = (reader + n) + k
        BY <1>1, InvFacts
    <2>. QED  BY <2>1, InvFacts
<1>6. Content' = SubSeq(Content, n + 1, Len(Content))
    BY <1>3, <1>4, <1>5, SeqsEqual
<1>. QED  BY <1>1, <1>2, <1>6, InvFacts

\* retrieveAll and swap leave nothing to read.
LEMMA ResetStep ==
    ASSUME BufferInv, retrieveAll \/ swap
    PROVE  BufferInv' /\ Content' = SubSeq(Content, Len(Content) + 1, Len(Content))
<1>1. /\ reader' = kCheapPrepend /\ writer' = kCheapPrepend /\ aborted' = aborted
      /\ data' \in Seq(Cells) /\ kCheapPrepend <= Len(data')
    BY BufferAssumption, InvFacts, ZerosFacts DEF retrieveAll, swap
<1>2. BufferInv'
    BY <1>1, InvFacts DEF BufferInv, TypeOK, IndexesOrdered, AssertsHold
<1>3. Content' = <<>>
    BY <1>1, InvFacts DEF Content
<1>4. SubSeq(Content, Len(Content) + 1, Len(Content)) = <<>>
    BY InvFacts
<1>. QED  BY <1>2, <1>3, <1>4

\* shrink moves the content to where the read index already is.
LEMMA ShrinkStep ==
    ASSUME BufferInv, ShrinkAnywhere = FALSE, NEW n \in Nat, shrink(n)
    PROVE  BufferInv' /\ Content' = Content
<1> DEFINE p == kCheapPrepend
           z == Zeros(p) \o Content
<1>1. /\ reader = p /\ data' = z \o Zeros(n)
      /\ reader' = reader /\ writer' = writer /\ aborted' = aborted
    BY DEF shrink
<1>2. /\ Zeros(p) \in Seq(Cells) /\ Len(Zeros(p)) = p /\ p \in Nat
      /\ Zeros(n) \in Seq(Cells) /\ Len(Zeros(n)) = n
      /\ Content \in Seq(Cells) /\ Len(Content) = writer - p
    BY <1>1, BufferAssumption, ZerosFacts, InvFacts
<1>3. /\ z \in Seq(Cells) /\ Len(z) = writer
      /\ \A k \in 1..(writer - p) : z[p + k] = Content[k]
    <2>1. z \in Seq(Cells) /\ Len(z) = p + (writer - p)
        <3>1. z \in Seq(Cells) /\ Len(z) = Len(Zeros(p)) + Len(Content)
            BY <1>2, ConcatProperties
        <3>. QED  BY <1>2, <3>1
    <2>2. ASSUME NEW k \in 1..(writer - p) PROVE z[p + k] = Content[k]
        <3>1. p + k \in 1..(p + (writer - p)) /\ ~(p + k <= p) /\ (p + k) - p = k
            BY <1>1, <1>2, InvFacts
        <3>. QED  BY <1>2, <3>1, ConcatProperties
    <2>3. p + (writer - p) = writer
        BY <1>2, InvFacts
    <2>. QED  BY <2>1, <2>2, <2>3
<1> HIDE DEF z
<1>4. /\ data' \in Seq(Cells) /\ Len(data') = writer + n
      /\ \A k \in 1..writer : data'[k] = z[k]
    <2>1. /\ z \o Zeros(n) \in Seq(Cells) /\ Len(z \o Zeros(n)) = writer + n
          /\ \A k \in 1..(writer + n) :
                 (z \o Zeros(n))[k] = IF k <= writer THEN z[k] ELSE Zeros(n)[k - writer]
        <3>1. z \in Seq(Cells) /\ Zeros(n) \in Seq(Cells) /\ Len(z) = writer /\ Len(Zeros(n)) = n
            BY <1>2, <1>3
        <3>2. /\ z \o Zeros(n) \in Seq(Cells) /\ Len(z \o Zeros(n)) = Len(z) + Len(Zeros(n))
              /\ \A k \in 1..(Len(z) + Len(Zeros(n))) :
                     (z \o Zeros(n))[k] = IF k <= Len(z) THEN z[k] ELSE Zeros(n)[k - Len(z)]
            BY <3>1, ConcatProperties
        <3>. QED  BY <3>1, <3>2
    <2>2. \A k \in 1..writer : k \in 1..(writer + n) /\ k <= writer
        BY InvFacts
    <2>. QED  BY <1>1, <2>1, <2>2
<1>5. BufferInv'
    BY <1>1, <1>2, <1>4, InvFacts DEF BufferInv, TypeOK, IndexesOrdered, AssertsHold
<1>6. /\ Content' \in Seq(Cells) /\ Len(Content') = writer - p
      /\ \A k \in 1..(writer - p) : Content'[k] = data'[p + k]
    <2>1. /\ reader' = p /\ writer' = writer /\ p \in Nat /\ writer \in Nat
          /\ p <= writer /\ writer <= Len(data')
        BY <1>1, <1>2, <1>4, InvNumbers
    <2>. QED  BY <1>4, <2>1, NewContent
<1>7. \A k \in 1..(writer - p) : p + k \in 1..writer
    BY <1>1, <1>2, InvFacts
<1>8. \A k \in 1..(writer - p) : Content'[k] = Content[k]
    BY <1>3, <1>4, <1>6, <1>7
<1>9. Content' = Content
    BY <1>2, <1>6, <1>8, SeqsEqual
<1>. QED  BY <1>5, <1>9

-----------------------------------------------------------------------------
\* A step keeps the invariant and is a step of the byte queue, or leaves it alone.
LEMMA StepFacts ==
    ASSUME BufferInv, ShrinkAnywhere = FALSE, [Next]_vars
    PROVE  BufferInv' /\ [Queue!Next]_Content
<1>1. ASSUME NEW s \in SeqOf(Bytes, MaxLen), append(s) \/ prepend(s)
      PROVE  BufferInv' /\ Queue!Next
    <2>1. s \in Seq(Bytes)
        BY BufferAssumption DEF SeqOf
    <2>2. BufferInv' /\ (Content' = Content \o s \/ Content' = s \o Content)
        BY <1>1, <2>1, AppendStep, PrependStep
    <2>. QED  BY <2>2 DEF Queue!Next, Queue!Append_, Queue!Prepend_, Queue!SeqOf, SeqOf
<1>2. ASSUME NEW n \in 0..MaxContent, retrieve(n) PROVE BufferInv' /\ Queue!Next
    <2>1. n \in Nat
        OBVIOUS
    <2>. QED  BY <1>2, <2>1, RetrieveStep DEF Queue!Next, Queue!Retrieve_
<1>3. ASSUME retrieveAll \/ swap PROVE BufferInv' /\ Queue!Next
    <2>1. Len(Content) \in 0..Len(Content)
        BY InvFacts
    <2>. QED  BY <1>3, <2>1, ResetStep DEF Queue!Next, Queue!Retrieve_
<1>4. ASSUME NEW n \in 0..MaxLen, shrink(n) PROVE BufferInv' /\ Content' = Content
    <2>1. n \in Nat
        OBVIOUS
    <2>. QED  BY <1>4, <2>1, ShrinkStep
<1>5. ASSUME UNCHANGED vars PROVE BufferInv' /\ Content' = Content
    BY <1>5 DEF vars, BufferInv, TypeOK, IndexesOrdered, AssertsHold, Content
<1>. QED  BY <1>1, <1>2, <1>3, <1>4, <1>5 DEF Next

\* The indexes stay in the order of the picture above LazyBuffer, and its asserts
\* hold, whatever is appended, prepended and retrieved.
THEOREM BufferInvariant ==
    ASSUME ShrinkAnywhere = FALSE PROVE Spec => []BufferInv
<1>1. Init => BufferInv
    BY InitFacts
<1>2. BufferInv /\ [Next]_vars => BufferInv'
    BY StepFacts
<1>. QED  BY <1>1, <1>2, PTL DEF Spec

\* makeSpace never lets std::copy overlap the wrong way.
THEOREM MovesGoToFront ==
    ASSUME ShrinkAnywhere = FALSE PROVE Spec => []MovesToFront
<1>1. BufferInv => MovesToFront
    BY MoveFacts DEF MovesToFront
<1>. QED  BY <1>1, BufferInvariant, PTL

\* LazyBuffer implements ByteQueue.
THEOREM ImplementsByteQueue ==
    ASSUME ShrinkAnywhere = FALSE PROVE Spec => QueueSpec
<1>1. Init => Queue!Init
    BY InitFacts DEF Queue!Init
<1>2. BufferInv /\ [Next]_vars => [Queue!Next]_Content
    BY StepFacts
<1>. QED  BY <1>1, <1>2, BufferInvariant, PTL DEF Spec, QueueSpec, Queue!Spec

-----------------------------------------------------------------------------
(* From here on: the memory pool.                                          *)

\* Multiples of a block size are that size apart.
LEMMA MulFacts ==
    ASSUME NEW n \in Nat, NEW j \in Nat, NEW k \in Nat, j < k
    PROVE  j * n \in Nat /\ k * n \in Nat /\ j * n + n <= k * n
<1>1. j * n \in Nat /\ k * n \in Nat
    OBVIOUS
<1>2. k * n = j * n + n + (k - j - 1) * n
    OBVIOUS
<1>3. (k - j - 1) * n \in Nat
    OBVIOUS
<1>. QED  BY <1>1, <1>2, <1>3

\* How many blocks of n words a words have room for.
LEMMA DivFacts ==
    ASSUME NEW a \in Nat, NEW n \in Nat \ {0}
    PROVE  /\ a \div n \in Nat /\ (a \div n) * n \in Nat
           /\ (a \div n) * n <= a /\ a < (a \div n) * n + n
           /\ a >= n => a \div n >= 1
<1>1. a \div n \in Nat
    OBVIOUS
<1>2. (a \div n) * n <= a
    OBVIOUS
<1>3. a < (a \div n) * n + n
    OBVIOUS
<1>4. a >= n => a \div n >= 1
    OBVIOUS
<1>5. (a \div n) * n \in Nat
    BY <1>1
<1>. QED  BY <1>1, <1>2, <1>3, <1>4, <1>5

-----------------------------------------------------------------------------
(* Blocks and the words they cover.                                        *)

Records == [at : Nat, size : Sizes]
Chunks == [at : Nat, size : Nat \ {0}]

Covered(blocks) == UNION {WordsOf(b) : b \in blocks}
Spread(blocks) == \A b, c \in blocks : b # c => WordsOf(b) \cap WordsOf(c) = {}

\* The words of a block are the numbers from its address on.
LEMMA WordFacts ==
    ASSUME NEW a \in Nat, NEW n \in Nat \ {0}
    PROVE  /\ Block(a, n) \in Chunks /\ Block(a, n).at = a /\ Block(a, n).size = n
           /\ WordsOf(Block(a, n)) = a..(a + n - 1) /\ a \in WordsOf(Block(a, n))
           /\ n \in Sizes => Block(a, n) \in Records
BY DEF Block, WordsOf, Chunks, Records

\* A block is given by its address and its size, and it covers a word.
LEMMA RecordFacts ==
    /\ Records \subseteq Chunks
    /\ \A b \in Chunks : /\ b.at \in Nat /\ b.size \in Nat \ {0} /\ b = Block(b.at, b.size)
                         /\ b.at \in WordsOf(b) /\ WordsOf(b) = b.at..(b.at + b.size - 1)
    /\ \A b \in Records : b.size \in Sizes
BY DEF Block, WordsOf, Chunks, Records, Sizes

\* The blocks that count blocks of n words at base are.
Row(base, n, count) == {Block(base + j * n, n) : j \in 0..(count - 1)}

\* They cover the memory from base on without a gap, and do not overlap.
LEMMA RowFacts ==
    ASSUME NEW base \in Nat, NEW n \in Sizes, NEW count \in Nat \ {0}
    PROVE  /\ Row(base, n, count) \subseteq Records /\ Spread(Row(base, n, count))
           /\ count * n \in Nat /\ n <= count * n
           /\ Covered(Row(base, n, count)) = base..(base + count * n - 1)
           /\ \A b \in Row(base, n, count) : WordsOf(b) \subseteq base..(base + count * n - 1)
<1>0. n \in Nat \ {0}
    BY DEF Sizes
<1>1. \A j \in 0..(count - 1) : j \in Nat /\ j * n \in Nat /\ base + j * n \in Nat
                                /\ j * n + n <= count * n /\ count * n \in Nat
    BY <1>0, MulFacts
<1>2. count * n \in Nat /\ n <= count * n
    <2>1. 0 \in 0..(count - 1) /\ 0 * n = 0
        BY <1>0
    <2>. QED  BY <1>0, <1>1, <2>1
<1>3. \A j \in 0..(count - 1) :
          /\ Block(base + j * n, n) \in Records
          /\ WordsOf(Block(base + j * n, n)) = (base + j * n)..(base + j * n + n - 1)
    BY <1>0, <1>1, WordFacts
<1>4. Row(base, n, count) \subseteq Records
    BY <1>3 DEF Row
<1>5. ASSUME NEW j \in 0..(count - 1)
      PROVE  WordsOf(Block(base + j * n, n)) \subseteq base..(base + count * n - 1)
    <2> DEFINE p == j * n
               q == count * n
    <2>1. p \in Nat /\ q \in Nat /\ p + n <= q
        BY <1>1
    <2>2. WordsOf(Block(base + p, n)) = (base + p)..(base + p + n - 1)
        BY <1>3
    <2> HIDE DEF p, q
    <2>3. (base + p)..(base + p + n - 1) \subseteq base..(base + q - 1)
        BY <1>0, <2>1
    <2>. QED  BY <2>2, <2>3, Zenon DEF p, q
<1>6. ASSUME NEW j \in 0..(count - 1), NEW k \in 0..(count - 1), j < k
      PROVE  WordsOf(Block(base + j * n, n)) \cap WordsOf(Block(base + k * n, n)) = {}
    <2> DEFINE p == j * n
               q == k * n
    <2>1. p \in Nat /\ q \in Nat /\ p + n <= q
        BY <1>0, <1>1, <1>6, MulFacts
    <2>2. /\ WordsOf(Block(base + p, n)) = (base + p)..(base + p + n - 1)
          /\ WordsOf(Block(base + q, n)) = (base + q)..(base + q + n - 1)
        BY <1>3
    <2> HIDE DEF p, q
    <2>3. (base + p)..(base + p + n - 1) \cap (base + q)..(base + q + n - 1) = {}
        BY <1>0, <2>1
    <2>. QED  BY <2>2, <2>3, Zenon DEF p, q
<1>7. Spread(Row(base, n, count))
    <2>1. ASSUME NEW j \in 0..(count - 1), NEW k \in 0..(count - 1),
                 Block(base + j * n, n) # Block(base + k * n, n)
          PROVE  WordsOf(Block(base + j * n, n)) \cap WordsOf(Block(base + k * n, n)) = {}
        <3>1. j < k \/ k < j
            BY <2>1
        <3>. QED  BY <1>6, <3>1
    <2>. QED  BY <2>1, Zenon DEF Spread, Row
<1>8. ASSUME NEW w \in base..(base + count * n - 1)
      PROVE  w \in Covered(Row(base, n, count))
    <2> DEFINE d == w - base
               j == d \div n
               p == j * n
    <2>1. d \in Nat /\ d < count * n
        BY <1>2
    <2>2. j \in Nat /\ p \in Nat /\ p <= d /\ d < p + n
        BY <1>0, <2>1, DivFacts
    <2>3. j < count
        <3>1. CASE count < j
            <4>1. count * n + n <= p
                BY <1>0, <2>2, <3>1, MulFacts
            <4>. QED  BY <1>0, <1>2, <2>1, <2>2, <4>1
        <3>2. CASE count = j
            BY <2>1, <2>2, <3>2
        <3>. QED  BY <2>2, <3>1, <3>2
    <2>4. j \in 0..(count - 1)
        BY <2>2, <2>3
    <2>5. w = base + d
        BY <1>2
    <2> HIDE DEF j, d
    <2>6. WordsOf(Block(base + p, n)) = (base + p)..(base + p + n - 1)
        BY <1>3, <2>4
    <2> HIDE DEF p
    <2>7. w \in (base + p)..(base + p + n - 1)
        BY <1>0, <2>1, <2>2, <2>5
    <2>8. Block(base + p, n) \in Row(base, n, count)
        BY <2>4, Zenon DEF Row, p
    <2>. QED  BY <2>6, <2>7, <2>8, Zenon DEF Covered
<1>9. \A b \in Row(base, n, count) : WordsOf(b) \subseteq base..(base + count * n - 1)
    BY <1>5, Zenon DEF Row
<1>10. Covered(Row(base, n, count)) = base..(base + count * n - 1)
    BY <1>8, <1>9 DEF Covered
<1>. QED  BY <1>2, <1>4, <1>7, <1>9, <1>10

-----------------------------------------------------------------------------
(* The free lists and the blocks the program holds.                        *)

\* The free blocks, and all blocks.
ListBlocks(lists) == {b \in Records : b.at \in ToSet(lists[b.size])}
Holdings(held, lists) == held \cup ListBlocks(lists)

\* The blocks of n words at the addresses of a list.
BlocksAt(addresses, n) == {Block(a, n) : a \in ToSet(addresses)}

\* Every block is in one place.
Ledger(held, lists) ==
    /\ lists \in [Sizes -> Seq(Nat)]
    /\ \A n \in Sizes : IsInjective(lists[n])
    /\ held \subseteq Records
    /\ held \cap ListBlocks(lists) = {}
    /\ Spread(Holdings(held, lists))

\* Blocks that cover different words are different blocks.
LEMMA SpreadUnion ==
    ASSUME NEW A, NEW B, A \subseteq Records, B \subseteq Records,
           Spread(A), Spread(B), Covered(A) \cap Covered(B) = {}
    PROVE  Spread(A \cup B) /\ A \cap B = {} /\ Covered(A \cup B) = Covered(A) \cup Covered(B)
<1>1. ASSUME NEW b \in A, NEW c \in B PROVE WordsOf(b) \cap WordsOf(c) = {} /\ b # c
    <2>1. WordsOf(b) \subseteq Covered(A) /\ WordsOf(c) \subseteq Covered(B)
        BY DEF Covered
    <2>2. WordsOf(b) \cap WordsOf(c) = {}
        BY <2>1
    <2>3. b.at \in WordsOf(b)
        BY RecordFacts
    <2>. QED  BY <2>2, <2>3
<1>2. Spread(A \cup B)
    BY <1>1 DEF Spread
<1>3. Covered(A \cup B) = Covered(A) \cup Covered(B)
    BY DEF Covered
<1>. QED  BY <1>1, <1>2, <1>3

\* What a part of the blocks covers.
LEMMA PartCovers ==
    ASSUME NEW A, NEW B, A \subseteq B
    PROVE  Covered(A) \subseteq Covered(B) /\ (Spread(B) => Spread(A))
BY DEF Covered, Spread

\* A list with other addresses.
Changes(lists, new, n, l) ==
    /\ new \in [Sizes -> Seq(Nat)] /\ new[n] = l
    /\ \A m \in Sizes : m # n => new[m] = lists[m]
    /\ \A b \in Records : b.size = n => (b \in ListBlocks(new) <=> b.at \in ToSet(l))
    /\ \A b \in Records :
           b.size # n => (b \in ListBlocks(new) <=> b \in ListBlocks(lists))

\* The blocks of the other sizes stay free or held.
LEMMA ChangedList ==
    ASSUME NEW lists \in [Sizes -> Seq(Nat)], NEW n \in Sizes, NEW l \in Seq(Nat)
    PROVE  Changes(lists, [lists EXCEPT ![n] = l], n, l)
BY RecordFacts DEF ListBlocks, Changes

\* The blocks become more by some.
Gains(held, lists, heldAfter, listsAfter, blocks) ==
    /\ Ledger(heldAfter, listsAfter)
    /\ Holdings(heldAfter, listsAfter) = Holdings(held, lists) \cup blocks
    /\ Covered(Holdings(heldAfter, listsAfter)) = Covered(Holdings(held, lists)) \cup Covered(blocks)

\* Addresses pushed on a list, of blocks that lie where no block was, next to
\* blocks that go to the program.
LEMMA Given ==
    ASSUME NEW held, NEW lists, Ledger(held, lists), NEW n \in Sizes,
           NEW front \in Seq(Nat), IsInjective(front),
           NEW new \in SUBSET Records, new \cap BlocksAt(front, n) = {},
           Spread(new \cup BlocksAt(front, n)),
           Covered(new \cup BlocksAt(front, n)) \cap Covered(Holdings(held, lists)) = {}
    PROVE  Gains(held, lists, held \cup new, [lists EXCEPT ![n] = front \o @],
                 new \cup BlocksAt(front, n))
<1> DEFINE after == [lists EXCEPT ![n] = front \o @]
           all == Holdings(held, lists)
           fresh == BlocksAt(front, n)
           l == front \o lists[n]
<1>1. /\ lists \in [Sizes -> Seq(Nat)] /\ lists[n] \in Seq(Nat) /\ IsInjective(lists[n])
      /\ \A m \in Sizes : IsInjective(lists[m])
      /\ held \subseteq Records /\ held \cap ListBlocks(lists) = {} /\ Spread(all)
    BY DEF Ledger
<1>2. l \in Seq(Nat) /\ Joins(l, front, lists[n])
    BY <1>1, JoinFacts, Zenon
<1>3. ToSet(front) \subseteq Nat
    BY ToSetFacts
<1>4. fresh \subseteq Records /\ \A b \in Records : b \in fresh <=> b.size = n /\ b.at \in ToSet(front)
    <2>1. \A a \in ToSet(front) : Block(a, n) \in Records
        BY <1>3, WordFacts DEF Sizes
    <2>2. \A b \in Records : b = Block(b.at, b.size)
        BY RecordFacts
    <2>. QED  BY <2>1, <2>2 DEF BlocksAt, Block
<1>5. all \subseteq Records
    BY <1>1 DEF Holdings, ListBlocks
<1>6. /\ Spread(all \cup (new \cup fresh)) /\ all \cap (new \cup fresh) = {}
      /\ Covered(all \cup (new \cup fresh)) = Covered(all) \cup Covered(new \cup fresh)
    <2>1. new \cup fresh \subseteq Records
        BY <1>4
    <2>2. Covered(all) \cap Covered(new \cup fresh) = {}
        OBVIOUS
    <2>. QED  BY <1>1, <1>5, <2>1, <2>2, SpreadUnion, Zenon
<1>7. after = [lists EXCEPT ![n] = l]
    BY Zenon
<1>8. /\ after \in [Sizes -> Seq(Nat)] /\ after[n] = l
      /\ \A m \in Sizes : m # n => after[m] = lists[m]
      /\ \A b \in Records : b.size = n => (b \in ListBlocks(after) <=> b.at \in ToSet(l))
      /\ \A b \in Records :
             b.size # n => (b \in ListBlocks(after) <=> b \in ListBlocks(lists))
    <2> HIDE DEF l, after
    <2>1. Changes(lists, after, n, l)
        BY <1>1, <1>2, <1>7, ChangedList, Zenon
    <2>. QED  BY <2>1, Zenon DEF Changes
<1> HIDE DEF after, l, fresh
<1>9. ToSet(l) = ToSet(front) \cup ToSet(lists[n])
    BY <1>2, Zenon DEF Joins
<1>10. ListBlocks(after) = ListBlocks(lists) \cup fresh
    <2>1. ASSUME NEW b \in Records
          PROVE  b \in ListBlocks(after) <=> b \in ListBlocks(lists) \/ b \in fresh
        BY <1>4, <1>8, <1>9 DEF ListBlocks
    <2>2. ListBlocks(after) \subseteq Records /\ ListBlocks(lists) \subseteq Records
        BY DEF ListBlocks
    <2>. QED  BY <1>4, <2>1, <2>2
<1>11. ToSet(front) \cap ToSet(lists[n]) = {}
    <2>1. ASSUME NEW a \in ToSet(front), a \in ToSet(lists[n]) PROVE FALSE
        <3>0. a \in Nat /\ n \in Nat \ {0}
            BY <1>3, <2>1 DEF Sizes
        <3>1. Block(a, n) \in Records /\ Block(a, n).size = n /\ Block(a, n).at = a
            BY <3>0, WordFacts, Zenon
        <3>2. Block(a, n) \in fresh
            BY <1>4, <2>1, <3>1
        <3>3. Block(a, n) \in all
            BY <2>1, <3>1 DEF Holdings, ListBlocks
        <3>. QED  BY <1>6, <3>2, <3>3
    <2>. QED  BY <2>1
<1>12. \A m \in Sizes : IsInjective(after[m])
    <2>1. IsInjective(l)
        BY <1>1, <1>2, <1>11, Zenon DEF Joins
    <2>. QED  BY <1>1, <1>8, <2>1, Zenon
<1>13. Holdings(held \cup new, after) = all \cup (new \cup fresh)
    BY <1>10 DEF Holdings
<1>14. (held \cup new) \cap ListBlocks(after) = {}
    <2>1. held \subseteq all /\ ListBlocks(lists) \subseteq all
        BY DEF Holdings
    <2>2. new \cap fresh = {}
        BY DEF fresh
    <2> HIDE DEF all
    <2>. QED  BY <1>1, <1>6, <1>10, <2>1, <2>2
<1>15. Ledger(held \cup new, after)
    <2>1. held \cup new \subseteq Records
        BY <1>1
    <2>. QED  BY <1>6, <1>8, <1>12, <1>13, <1>14, <2>1, Zenon DEF Ledger
<1>. QED  BY <1>6, <1>13, <1>15, Zenon DEF Gains, after, fresh

\* The blocks lie where blocks were; if they are the same ones, whole says so.
Lends(held, lists, heldAfter, listsAfter, whole) ==
    /\ Ledger(heldAfter, listsAfter)
    /\ \A b \in Holdings(heldAfter, listsAfter) :
           \E c \in Holdings(held, lists) : WordsOf(b) \subseteq WordsOf(c)
    /\ whole => Holdings(heldAfter, listsAfter) = Holdings(held, lists)

\* A block taken off its list is cut to the n words that are asked for.
LEMMA Taken ==
    ASSUME NEW held, NEW lists, Ledger(held, lists),
           NEW m \in Sizes, NEW n \in Sizes, n <= m, lists[m] # <<>>
    PROVE  Lends(held, lists, held \cup {Block(Head(lists[m]), n)},
                 [lists EXCEPT ![m] = Tail(@)], m = n)
<1> DEFINE x == Head(lists[m])
           small == Block(x, n)
           big == Block(x, m)
           l == Tail(lists[m])
           after == [lists EXCEPT ![m] = l]
           all == Holdings(held, lists)
           holds == Holdings(held \cup {small}, after)
<1>1. /\ lists \in [Sizes -> Seq(Nat)] /\ lists[m] \in Seq(Nat) /\ IsInjective(lists[m])
      /\ \A k \in Sizes : IsInjective(lists[k])
      /\ held \subseteq Records /\ held \cap ListBlocks(lists) = {} /\ Spread(all)
    BY DEF Ledger
<1>2. /\ x \in Nat /\ l \in Seq(Nat) /\ x \in ToSet(lists[m])
      /\ ToSet(lists[m]) = ToSet(l) \cup {x} /\ IsInjective(l) /\ x \notin ToSet(l)
    BY <1>1, TailFacts
<1>3. /\ after \in [Sizes -> Seq(Nat)] /\ after[m] = l
      /\ \A k \in Sizes : k # m => after[k] = lists[k]
      /\ \A b \in Records : b.size = m => (b \in ListBlocks(after) <=> b.at \in ToSet(l))
      /\ \A b \in Records :
             b.size # m => (b \in ListBlocks(after) <=> b \in ListBlocks(lists))
    <2> HIDE DEF l, after
    <2>1. after = [lists EXCEPT ![m] = l]
        BY Zenon DEF after
    <2>2. Changes(lists, after, m, l)
        BY <1>1, <1>2, <2>1, ChangedList, Zenon
    <2>. QED  BY <2>2, Zenon DEF Changes
<1> HIDE DEF x, l, after
<1>4. /\ small \in Records /\ big \in Records /\ big.size = m /\ big.at = x /\ small.size = n
      /\ small.at = x /\ x \in WordsOf(small) /\ WordsOf(small) \subseteq WordsOf(big)
    <2>1. n \in Nat \ {0} /\ m \in Nat \ {0}
        BY DEF Sizes
    <2>2. WordsOf(small) = x..(x + n - 1) /\ WordsOf(big) = x..(x + m - 1)
        BY <1>2, <2>1, WordFacts
    <2>3. x..(x + n - 1) \subseteq x..(x + m - 1)
        BY <1>2, <2>1
    <2>4. WordsOf(small) \subseteq WordsOf(big)
        BY <2>2, <2>3, Zenon
    <2>5. /\ small \in Records /\ big \in Records /\ big.size = m /\ big.at = x
          /\ small.size = n /\ small.at = x /\ x \in WordsOf(small)
        BY <1>2, <2>1, WordFacts
    <2>. QED  BY <2>4, <2>5, Zenon
<1> HIDE DEF small, big
<1>5. ListBlocks(lists) = ListBlocks(after) \cup {big} /\ big \notin ListBlocks(after)
    <2>1. \A b \in Records : b.size = m => (b.at = x <=> b = big)
        BY <1>4, RecordFacts
    <2>2. ASSUME NEW b \in Records
          PROVE  b \in ListBlocks(lists) <=> b \in ListBlocks(after) \/ b = big
        <3>1. CASE b.size = m
            BY <1>2, <1>3, <2>1, <3>1 DEF ListBlocks
        <3>2. CASE b.size # m
            BY <1>3, <1>4, <3>2
        <3>. QED  BY <3>1, <3>2
    <2>3. ListBlocks(after) \subseteq Records /\ ListBlocks(lists) \subseteq Records
        BY DEF ListBlocks
    <2>4. big \notin ListBlocks(after)
        BY <1>2, <1>3, <1>4
    <2>. QED  BY <1>4, <2>2, <2>3, <2>4
<1>6. /\ all = (held \cup ListBlocks(after)) \cup {big} /\ big \notin held \cup ListBlocks(after)
      /\ holds = (held \cup ListBlocks(after)) \cup {small}
    BY <1>1, <1>5 DEF Holdings
<1> DEFINE rest == held \cup ListBlocks(after)
<1> HIDE DEF rest, all, holds
<1>7. /\ all = rest \cup {big} /\ big \notin rest /\ holds = rest \cup {small}
    BY <1>6 DEF rest
<1>8. ASSUME NEW b \in rest
      PROVE  WordsOf(b) \cap WordsOf(small) = {} /\ b # small
    <2>1. WordsOf(b) \cap WordsOf(big) = {}
        BY <1>1, <1>7 DEF Spread
    <2>. QED  BY <1>4, <2>1
<1>9. Spread(holds)
    BY <1>1, <1>7, <1>8 DEF Spread
<1>10. \A b \in holds : \E c \in all : WordsOf(b) \subseteq WordsOf(c)
    BY <1>4, <1>7
<1>11. ASSUME m = n PROVE holds = all
    BY <1>7, <1>11 DEF small, big
<1>12. \A k \in Sizes : IsInjective(after[k])
    BY <1>1, <1>2, <1>3, Zenon
<1>13. (held \cup {small}) \cap ListBlocks(after) = {}
    <2>1. held \cap ListBlocks(after) = {}
        BY <1>1, <1>5
    <2>2. small \notin ListBlocks(after)
        BY <1>8 DEF rest
    <2>. QED  BY <2>1, <2>2
<1>14. Ledger(held \cup {small}, after)
    BY <1>1, <1>3, <1>4, <1>9, <1>12, <1>13 DEF Ledger, holds
<1>. QED  BY <1>10, <1>11, <1>14, Zenon DEF Lends, holds, all, after, small, x, l

\* The addresses a refill pushes are those of the blocks behind the first one.
LEMMA CarvedFacts ==
    ASSUME NEW base \in Nat, NEW n \in Sizes, NEW count \in Nat \ {0}
    PROVE  /\ Carved(base, n, count) \in Seq(Nat) /\ IsInjective(Carved(base, n, count))
           /\ {Block(base, n)} \cup BlocksAt(Carved(base, n, count), n) = Row(base, n, count)
           /\ {Block(base, n)} \cap BlocksAt(Carved(base, n, count), n) = {}
<1> DEFINE l == Carved(base, n, count)
<1>0. n \in Nat \ {0}
    BY DEF Sizes
<1>1. \A k \in 1..(count - 1) : count - k \in 1..(count - 1) /\ count - k \in Nat
    OBVIOUS
<1>2. \A j \in Nat : j * n \in Nat /\ base + j * n \in Nat
    BY <1>0, MulFacts
<1>3. l = [k \in 1..(count - 1) |-> base + (count - k) * n]
    BY DEF Carved
<1> HIDE DEF l
<1>4. /\ \A k \in 1..(count - 1) : l[k] = base + (count - k) * n
      /\ DOMAIN l = 1..(count - 1)
    BY <1>3
<1>5. \A k \in 1..(count - 1) : l[k] \in Nat
    BY <1>1, <1>2, <1>4
<1>6. l \in Seq(Nat) /\ Len(l) = count - 1
    <2>1. l \in [1..(count - 1) -> Nat] /\ count - 1 \in Nat
        BY <1>3, <1>4, <1>5
    <2>. QED  BY <2>1
<1>7. \A i, j \in Nat : i < j => base + i * n < base + j * n
    <2>1. ASSUME NEW i \in Nat, NEW j \in Nat, i < j PROVE base + i * n < base + j * n
        <3> DEFINE p == i * n
                   q == j * n
        <3>1. p \in Nat /\ q \in Nat /\ p + n <= q
            BY <1>0, <2>1, MulFacts
        <3> HIDE DEF p, q
        <3>2. base + p < base + q
            BY <1>0, <3>1
        <3>. QED  BY <3>2, Zenon DEF p, q
    <2>. QED  BY <2>1
<1>8. \A i, j \in 1..(count - 1) : l[i] = l[j] => i = j
    <2>1. ASSUME NEW i \in 1..(count - 1), NEW j \in 1..(count - 1), i < j PROVE l[i] # l[j]
        <3>1. count - j < count - i
            BY <2>1
        <3>2. base + (count - j) * n < base + (count - i) * n
            BY <1>1, <1>7, <3>1
        <3>3. base + (count - j) * n \in Nat /\ base + (count - i) * n \in Nat
            BY <1>1, <1>2
        <3>. QED  BY <1>4, <3>2, <3>3
    <2>2. \A i, j \in 1..(count - 1) : i < j \/ j < i \/ i = j
        OBVIOUS
    <2>. QED  BY <2>1, <2>2
<1>9. IsInjective(l)
    BY <1>4, <1>8 DEF IsInjective
<1>10. \A a : a \in ToSet(l) <=> \E j \in 1..(count - 1) : a = base + j * n
    <2>1. \A a : a \in ToSet(l) <=> \E k \in 1..(count - 1) : l[k] = a
        BY <1>4 DEF ToSet
    <2>2. \A j \in 1..(count - 1) : count - j \in 1..(count - 1) /\ count - (count - j) = j
        OBVIOUS
    <2>3. \A j \in 1..(count - 1) : l[count - j] = base + j * n
        BY <1>4, <2>2
    <2>4. ASSUME NEW a, NEW k \in 1..(count - 1), l[k] = a
          PROVE  \E j \in 1..(count - 1) : a = base + j * n
        BY <1>1, <1>4, <2>4
    <2>. QED  BY <2>1, <2>2, <2>3, <2>4, Zenon
<1>11. BlocksAt(l, n) = {Block(base + j * n, n) : j \in 1..(count - 1)}
    BY <1>10, Zenon DEF BlocksAt
<1>12. 0..(count - 1) = {0} \cup 1..(count - 1) /\ base + 0 * n = base
    BY <1>0
<1>13. {Block(base, n)} \cup BlocksAt(l, n) = Row(base, n, count)
    BY <1>11, <1>12, Zenon DEF Row
<1>14. {Block(base, n)} \cap BlocksAt(l, n) = {}
    <2>1. ASSUME NEW j \in 1..(count - 1) PROVE Block(base, n) # Block(base + j * n, n)
        <3>1. base + 0 * n < base + j * n /\ base + j * n \in Nat
            BY <1>2, <1>7
        <3>2. base # base + j * n
            BY <1>12, <3>1
        <3>. QED  BY <3>2 DEF Block
    <2>. QED  BY <1>11, <2>1
<1>. QED  BY <1>6, <1>9, <1>13, <1>14 DEF l

\* The blocks become more by some that cover the words.
Fills(held, lists, heldAfter, listsAfter, words) ==
    /\ Ledger(heldAfter, listsAfter)
    /\ Covered(Holdings(heldAfter, listsAfter)) = Covered(Holdings(held, lists)) \cup words
    /\ \A b \in Holdings(heldAfter, listsAfter) :
           b \in Holdings(held, lists) \/ WordsOf(b) \subseteq words

\* A list is refilled with blocks cut from memory where no block is.
LEMMA Refilled ==
    ASSUME NEW held, NEW lists, Ledger(held, lists), NEW base \in Nat, NEW n \in Sizes,
           NEW count \in Nat \ {0},
           (base..(base + count * n - 1)) \cap Covered(Holdings(held, lists)) = {}
    PROVE  Fills(held, lists, held \cup {Block(base, n)},
                 [lists EXCEPT ![n] = Carved(base, n, count) \o @], base..(base + count * n - 1))
<1> DEFINE l == Carved(base, n, count)
           new == {Block(base, n)}
           row == new \cup BlocksAt(l, n)
<1>1. /\ l \in Seq(Nat) /\ IsInjective(l) /\ new \cap BlocksAt(l, n) = {}
      /\ row = Row(base, n, count)
    BY CarvedFacts, Zenon
<1>2. /\ row \subseteq Records /\ Spread(row)
      /\ Covered(row) = base..(base + count * n - 1)
      /\ \A b \in row : WordsOf(b) \subseteq base..(base + count * n - 1)
    <2>1. Row(base, n, count) \subseteq Records /\ Spread(Row(base, n, count))
        BY RowFacts, Zenon
    <2>2. Covered(Row(base, n, count)) = base..(base + count * n - 1)
        BY RowFacts, Zenon
    <2>3. \A b \in Row(base, n, count) : WordsOf(b) \subseteq base..(base + count * n - 1)
        BY RowFacts, Zenon
    <2>. QED  BY <1>1, <2>1, <2>2, <2>3, Zenon
<1>3. new \in SUBSET Records
    BY <1>2
<1>4. Covered(row) \cap Covered(Holdings(held, lists)) = {}
    BY <1>2
<1> DEFINE after == [lists EXCEPT ![n] = l \o @]
           holds == Holdings(held \cup new, after)
<1>5. /\ Ledger(held \cup new, after) /\ holds = Holdings(held, lists) \cup row
      /\ Covered(holds) = Covered(Holdings(held, lists)) \cup Covered(row)
    <2> HIDE DEF l, new
    <2>1. Gains(held, lists, held \cup new, after, row)
        BY <1>1, <1>2, <1>3, <1>4, Given, Zenon
    <2>. QED  BY <2>1, Zenon DEF Gains
<1> HIDE DEF l, new, row, after, holds
<1>6. Covered(holds) = Covered(Holdings(held, lists)) \cup (base..(base + count * n - 1))
    BY <1>2, <1>5, Zenon
<1>7. \A b \in holds : \/ b \in Holdings(held, lists)
                       \/ WordsOf(b) \subseteq base..(base + count * n - 1)
    BY <1>2, <1>5
<1>. QED  BY <1>5, <1>6, <1>7, Zenon DEF Fills, l, new, after, holds

\* One block that goes to the list of its size.
LEMMA GivenOne ==
    ASSUME NEW held, NEW lists, Ledger(held, lists), NEW b \in Records,
           WordsOf(b) \cap Covered(Holdings(held, lists)) = {}
    PROVE  Gains(held, lists, held, Pushed(lists, b.size, b.at), {b})
<1> DEFINE front == <<b.at>>
           n == b.size
           none == {}
<1>1. n \in Sizes /\ b.at \in Nat /\ b = Block(b.at, n)
    BY RecordFacts
<1>2. front \in Seq(Nat) /\ ToSet(front) = {b.at} /\ IsInjective(front)
    BY <1>1 DEF ToSet, IsInjective
<1> HIDE DEF front, n
<1>3. BlocksAt(front, n) = {b}
    BY <1>1, <1>2 DEF BlocksAt
<1>4. /\ none \cup BlocksAt(front, n) = {b} /\ none \in SUBSET Records
      /\ none \cap BlocksAt(front, n) = {} /\ held \cup none = held
    BY <1>3
<1>5. Spread({b}) /\ Covered({b}) = WordsOf(b)
    BY DEF Spread, Covered
<1> HIDE DEF none
<1>6. /\ Spread(none \cup BlocksAt(front, n))
      /\ Covered(none \cup BlocksAt(front, n)) \cap Covered(Holdings(held, lists)) = {}
    BY <1>4, <1>5, Zenon
<1>7. Gains(held, lists, held \cup none, [lists EXCEPT ![n] = front \o @],
            none \cup BlocksAt(front, n))
    BY <1>1, <1>2, <1>4, <1>6, Given, Zenon
<1>8. Pushed(lists, b.size, b.at) = [lists EXCEPT ![n] = front \o @]
    BY Zenon DEF Pushed, front, n
<1>. QED  BY <1>4, <1>7, <1>8, Zenon

\* Fewer blocks are held.
LEMMA Fewer ==
    ASSUME NEW held, NEW lists, Ledger(held, lists), NEW b \in held
    PROVE  /\ Ledger(held \ {b}, lists) /\ b \in Records
           /\ Holdings(held, lists) = Holdings(held \ {b}, lists) \cup {b}
           /\ WordsOf(b) \cap Covered(Holdings(held \ {b}, lists)) = {}
<1> DEFINE less == Holdings(held \ {b}, lists)
<1>1. /\ held \subseteq Records /\ held \cap ListBlocks(lists) = {}
      /\ Spread(Holdings(held, lists))
    BY DEF Ledger
<1>2. Holdings(held, lists) = less \cup {b} /\ b \notin less
    BY <1>1 DEF Holdings
<1> HIDE DEF less
<1>3. Spread(less)
    BY <1>1, <1>2, PartCovers
<1>4. \A c \in less : WordsOf(b) \cap WordsOf(c) = {}
    BY <1>1, <1>2 DEF Spread
<1>5. WordsOf(b) \cap Covered(less) = {}
    BY <1>4 DEF Covered
<1>6. Ledger(held \ {b}, lists)
    BY <1>1, <1>3 DEF Ledger, less
<1>. QED  BY <1>1, <1>2, <1>5, <1>6 DEF less

-----------------------------------------------------------------------------
(* The invariant.  A failed malloc leaves start_free 0, and the next refill *)
(* ends the process; so the free heap is told of only until then.          *)

\* The blocks lie in what malloc returned.
Within(blocks) == \A b \in blocks : \E c \in chunks : WordsOf(b) \subseteq WordsOf(c)

\* What malloc returned is in blocks or in the free heap, which is behind the
\* blocks cut from the last chunk.
HeapInPlace ==
    /\ start_free = 0 => end_free = 0
    /\ Covered(Holdings(used, free_list)) \cap FreeHeap = {}
    /\ FreeHeap # {} => \E c \in chunks : FreeHeap \subseteq WordsOf(c)
    /\ Covered(chunks) = Covered(Holdings(used, free_list)) \cup FreeHeap

InPlace ==
    /\ Ledger(used, free_list)
    /\ Within(Holdings(used, free_list))
    /\ end_free = 0 => chunks = {}
    /\ end_free # 0 => end_free >= __FREELISTS
    /\ failed => start_free = 0 /\ end_free # 0
    /\ ~failed => HeapInPlace

PoolIInv ==
    /\ PoolTypeOK
    /\ start_free <= end_free
    /\ exited => failed
    /\ ~exited => InPlace

\* The free blocks are those of the lists.
LEMMA BlocksFacts ==
    ASSUME PoolTypeOK
    PROVE  Free = ListBlocks(free_list) /\ Blocks = Holdings(used, free_list)
<1>1. \A n \in Sizes : free_list[n] \in Seq(Nat)
    BY DEF PoolTypeOK
<1>2. ASSUME NEW n \in Sizes
      PROVE  FreeBlocks(n) = {b \in Records : b.size = n /\ b.at \in ToSet(free_list[n])}
    <2>1. ToSet(free_list[n]) = {free_list[n][k] : k \in DOMAIN free_list[n]}
        BY DEF ToSet
    <2>2. FreeBlocks(n) = {Block(a, n) : a \in ToSet(free_list[n])}
        BY <2>1 DEF FreeBlocks
    <2>3. ToSet(free_list[n]) \subseteq Nat
        BY <1>1, ToSetFacts
    <2>. QED  BY <2>2, <2>3 DEF Block, Records
<1>3. \A b \in Records : b.size \in Sizes
    BY RecordFacts
<1>4. Free = ListBlocks(free_list)
    BY <1>2, <1>3 DEF Free, ListBlocks
<1>. QED  BY <1>4 DEF Blocks, Holdings

\* What the invariant says is what the properties say.
LEMMA InvFromPlaces ==
    ASSUME PoolTypeOK
    PROVE  /\ Ledger(used, free_list) => Apart /\ \A n \in Sizes : IsInjective(free_list[n])
           /\ Within(Holdings(used, free_list)) => BlocksFromMalloc
           /\ HeapInPlace => NothingLost
           /\ HeapInPlace => \A b \in Blocks : WordsOf(b) \cap FreeHeap = {}
<1>1. Free = ListBlocks(free_list) /\ Blocks = Holdings(used, free_list)
    BY BlocksFacts
<1>2. Ledger(used, free_list) => Apart /\ \A n \in Sizes : IsInjective(free_list[n])
    BY <1>1 DEF Ledger, Apart, Spread
<1>3. Within(Holdings(used, free_list)) => BlocksFromMalloc
    BY DEF Within, BlocksFromMalloc, Holdings
<1>4. HeapInPlace => NothingLost
    <2>1. HeapInPlace => Covered(chunks) = Covered(Blocks) \cup FreeHeap
        BY <1>1, Zenon DEF HeapInPlace
    <2>2. /\ Covered(chunks) = UNION {WordsOf(c) : c \in chunks}
          /\ Covered(Blocks) = UNION {WordsOf(c) : c \in Blocks}
        BY DEF Covered
    <2>. QED  BY <2>1, <2>2, Zenon DEF NothingLost
<1>5. HeapInPlace => \A b \in Blocks : WordsOf(b) \cap FreeHeap = {}
    BY <1>1 DEF HeapInPlace, Covered
<1>. QED  BY <1>2, <1>3, <1>4, <1>5

-----------------------------------------------------------------------------
(* One lemma per operation.                                                *)

\* The pool starts with nothing.
LEMMA PoolInitFacts == PoolInit => PoolIInv
<1>1. SUFFICES ASSUME PoolInit PROVE PoolIInv
    OBVIOUS
<1>2. PoolTypeOK
    <2>1. <<>> \in Seq(Nat)
        OBVIOUS
    <2>2. free_list \in [Sizes -> Seq(Nat)]
        BY <1>1, <2>1, Zenon DEF PoolInit
    <2>. QED  BY <1>1, <2>2 DEF PoolInit, PoolTypeOK
<1>3. ListBlocks(free_list) = {} /\ used = {} /\ chunks = {}
    BY <1>1 DEF PoolInit, ListBlocks, Records, ToSet
<1>4. Holdings(used, free_list) = {}
    BY <1>3 DEF Holdings
<1>5. \A n \in Sizes : IsInjective(free_list[n])
    BY <1>1 DEF PoolInit, IsInjective
<1>6. Ledger(used, free_list)
    BY <1>2, <1>3, <1>4, <1>5 DEF Ledger, Spread, PoolTypeOK
<1>7. FreeHeap = {} /\ Covered({}) = {}
    BY <1>1 DEF FreeHeap, PoolInit, Covered
<1>8. HeapInPlace
    BY <1>1, <1>3, <1>4, <1>7 DEF HeapInPlace, PoolInit
<1>9. Within(Holdings(used, free_list))
    BY <1>4 DEF Within
<1>. QED  BY <1>1, <1>2, <1>6, <1>8, <1>9 DEF PoolIInv, InPlace, PoolInit

\* A block of the right size is the whole block that was free.
LEMMA TakeFromListKeeps ==
    ASSUME PoolIInv, ~exited, NEW n \in Sizes, TakeFromList(n)
    PROVE  PoolIInv'
<1>1. /\ PoolTypeOK /\ Ledger(used, free_list) /\ InPlace
    BY DEF PoolIInv, InPlace
<1>2. /\ used' = used \cup {Block(Head(free_list[n]), n)}
      /\ free_list' = [free_list EXCEPT ![n] = Tail(@)] /\ free_list[n] # <<>>
      /\ UNCHANGED <<start_free, end_free, heap_size, chunks, failed, exited>>
    BY DEF TakeFromList
<1>3. Lends(used, free_list, used', free_list', n = n)
    <2>1. n <= n
        BY DEF Sizes
    <2>. QED  BY <1>1, <1>2, <2>1, Taken, Zenon
<1>4. Ledger(used', free_list') /\ Holdings(used', free_list') = Holdings(used, free_list)
    BY <1>3, Zenon DEF Lends
<1>5. PoolTypeOK'
    <2>1. free_list' \in [Sizes -> Seq(Nat)] /\ used' \subseteq Records
        BY <1>4, Zenon DEF Ledger
    <2>. QED  BY <1>1, <1>2, <2>1 DEF PoolTypeOK, Records
<1>6. InPlace'
    <2>1. FreeHeap' = FreeHeap
        BY <1>2 DEF FreeHeap
    <2>. QED  BY <1>1, <1>2, <1>4, <2>1 DEF InPlace, HeapInPlace, Within
<1>. QED  BY <1>2, <1>5, <1>6 DEF PoolIInv

\* A block comes back to the list of its size.
LEMMA DeallocateKeeps ==
    ASSUME PoolIInv, NEW b \in used, deallocate(b)
    PROVE  PoolIInv'
<1>1. /\ PoolTypeOK /\ Ledger(used, free_list) /\ InPlace
    BY DEF PoolIInv, InPlace, deallocate
<1>2. /\ used' = used \ {b} /\ free_list' = Pushed(free_list, b.size, b.at)
      /\ UNCHANGED <<start_free, end_free, heap_size, chunks, failed, exited>>
    BY DEF deallocate
<1>3. /\ Ledger(used', free_list) /\ b \in Records
      /\ Holdings(used, free_list) = Holdings(used', free_list) \cup {b}
      /\ WordsOf(b) \cap Covered(Holdings(used', free_list)) = {}
    <2>1. /\ Ledger(used \ {b}, free_list) /\ b \in Records
          /\ Holdings(used, free_list) = Holdings(used \ {b}, free_list) \cup {b}
          /\ WordsOf(b) \cap Covered(Holdings(used \ {b}, free_list)) = {}
        BY <1>1, Fewer
    <2>. QED  BY <1>2, <2>1, Zenon
<1>4. Gains(used', free_list, used', free_list', {b})
    BY <1>2, <1>3, GivenOne, Zenon
<1>5. Ledger(used', free_list') /\ Holdings(used', free_list') = Holdings(used, free_list)
    BY <1>3, <1>4, Zenon DEF Gains
<1>6. PoolTypeOK'
    <2>1. free_list' \in [Sizes -> Seq(Nat)] /\ used' \subseteq Records
        BY <1>5, Zenon DEF Ledger
    <2>. QED  BY <1>1, <1>2, <2>1 DEF PoolTypeOK, Records
<1>7. InPlace'
    <2>1. FreeHeap' = FreeHeap
        BY <1>2 DEF FreeHeap
    <2>. QED  BY <1>1, <1>2, <1>5, <2>1 DEF InPlace, HeapInPlace, Within
<1>. QED  BY <1>2, <1>6, <1>7 DEF PoolIInv

\* A refill from the free heap cuts off the words at its front.  Once malloc has
\* failed, it cuts them from address 0, and that ends the process.
LEMMA CutFromHeapKeeps ==
    ASSUME PoolIInv, ~exited, NEW n \in Sizes, CutFromHeap(n)
    PROVE  PoolIInv'
<1> DEFINE nobjs == IF leftbytes >= NObjs * n THEN NObjs ELSE leftbytes \div n
           q == nobjs * n
           words == start_free..(start_free + q - 1)
<1>1. /\ PoolTypeOK /\ InPlace /\ Ledger(used, free_list) /\ start_free <= end_free
      /\ start_free \in Nat /\ end_free \in Nat /\ n \in Nat \ {0}
    BY DEF PoolIInv, InPlace, PoolTypeOK, Sizes
<1>2. /\ used' = used \cup {Block(start_free, n)}
      /\ free_list' = [free_list EXCEPT ![n] = Carved(start_free, n, nobjs) \o @]
      /\ start_free' = start_free + q /\ leftbytes >= n
      /\ exited' = (start_free = 0)
      /\ UNCHANGED <<end_free, heap_size, chunks, failed>>
    BY DEF CutFromHeap
<1>3. leftbytes = end_free - start_free /\ leftbytes \in Nat /\ NObjs \in Nat \ {0}
    BY <1>1, PoolAssumption DEF leftbytes
<1>4. nobjs \in Nat \ {0} /\ q \in Nat /\ n <= q /\ q <= leftbytes
    <2>1. CASE leftbytes >= NObjs * n
        <3>1. nobjs = NObjs
            BY <2>1
        <3>2. NObjs * n \in Nat /\ n <= NObjs * n
            BY <1>1, <1>3, MulFacts
        <3>. QED  BY <1>3, <2>1, <3>1, <3>2
    <2>2. CASE ~(leftbytes >= NObjs * n)
        <3>1. nobjs = leftbytes \div n
            BY <2>2
        <3>2. /\ leftbytes \div n \in Nat /\ (leftbytes \div n) * n \in Nat
              /\ (leftbytes \div n) * n <= leftbytes /\ leftbytes \div n >= 1
            BY <1>1, <1>2, <1>3, DivFacts
        <3> DEFINE d == leftbytes \div n
        <3> HIDE DEF d
        <3>3. d \in Nat \ {0} /\ d * n \in Nat /\ d * n <= leftbytes
            BY <3>2 DEF d
        <3>4. n <= d * n
            BY <1>1, <3>3, RowFacts
        <3>. QED  BY <3>1, <3>3, <3>4, Zenon DEF d
    <2>. QED  BY <2>1, <2>2
<1> HIDE DEF nobjs
<1>5. start_free' \in Nat /\ start_free' <= end_free' /\ start_free' # 0 /\ end_free # 0
    BY <1>1, <1>2, <1>3, <1>4
<1> HIDE DEF q
<1>6. CASE exited'
    <2>1. failed
        BY <1>1, <1>2, <1>5, <1>6 DEF InPlace, HeapInPlace
    <2>2. \A k \in Sizes : free_list[k] \in Seq(Nat)
        BY <1>1 DEF PoolTypeOK
    <2>3. Carved(start_free, n, nobjs) \in Seq(Nat)
        BY <1>1, <1>4, CarvedFacts
    <2>4. Carved(start_free, n, nobjs) \o free_list[n] \in Seq(Nat)
        BY <2>2, <2>3, JoinFacts, Zenon
    <2>5. free_list' \in [Sizes -> Seq(Nat)]
        <3> DEFINE l == Carved(start_free, n, nobjs) \o free_list[n]
        <3>1. free_list' = [free_list EXCEPT ![n] = l] /\ l \in Seq(Nat)
            BY <1>2, <2>4, Zenon
        <3> HIDE DEF l
        <3>. QED  BY <1>1, <3>1 DEF PoolTypeOK
    <2>6. Block(start_free, n) \in Records
        BY <1>1, WordFacts
    <2>7. PoolTypeOK'
        BY <1>1, <1>2, <1>5, <2>5, <2>6 DEF PoolTypeOK, Records
    <2>. QED  BY <1>2, <1>5, <1>6, <2>1, <2>7 DEF PoolIInv
<1>7. CASE ~exited'
    <2>1. start_free # 0 /\ ~failed /\ HeapInPlace
        BY <1>1, <1>2, <1>7 DEF InPlace
    <2>2. words \subseteq FreeHeap /\ FreeHeap = words \cup FreeHeap' /\ words \cap FreeHeap' = {}
        BY <1>1, <1>2, <1>3, <1>4 DEF FreeHeap
    <2>3. words \cap Covered(Holdings(used, free_list)) = {}
        BY <2>1, <2>2 DEF HeapInPlace
    <2>4. Fills(used, free_list, used', free_list', words)
        BY <1>1, <1>2, <1>4, <2>3, Refilled, Zenon DEF q
    <2>5. /\ Ledger(used', free_list')
          /\ Covered(Holdings(used', free_list')) = Covered(Holdings(used, free_list)) \cup words
          /\ \A b \in Holdings(used', free_list') :
                 b \in Holdings(used, free_list) \/ WordsOf(b) \subseteq words
        BY <2>4, Zenon DEF Fills
    <2> HIDE DEF words
    <2>6. PoolTypeOK'
        <3>1. free_list' \in [Sizes -> Seq(Nat)] /\ used' \subseteq Records
            BY <2>5, Zenon DEF Ledger
        <3>. QED  BY <1>1, <1>2, <1>5, <3>1 DEF PoolTypeOK, Records
    <2>7. \E c \in chunks : FreeHeap \subseteq WordsOf(c)
        <3>1. end_free - 1 \in FreeHeap
            BY <1>1, <1>2, <1>3 DEF FreeHeap
        <3>. QED  BY <2>1, <3>1 DEF HeapInPlace
    <2>8. Within(Holdings(used, free_list))'
        BY <1>1, <1>2, <2>2, <2>5, <2>7 DEF InPlace, Within
    <2>9. HeapInPlace'
        <3>1. Covered(chunks') = Covered(Holdings(used', free_list')) \cup FreeHeap'
            BY <1>2, <2>1, <2>2, <2>5 DEF HeapInPlace
        <3>2. Covered(Holdings(used', free_list')) \cap FreeHeap' = {}
            BY <2>1, <2>2, <2>5 DEF HeapInPlace
        <3>3. \E c \in chunks' : FreeHeap' \subseteq WordsOf(c)
            BY <1>2, <2>2, <2>7
        <3>. QED  BY <1>5, <3>1, <3>2, <3>3 DEF HeapInPlace
    <2>10. InPlace'
        BY <1>1, <1>2, <1>5, <2>1, <2>5, <2>8, <2>9 DEF InPlace, Within
    <2>. QED  BY <1>2, <1>5, <1>7, <2>6, <2>10 DEF PoolIInv
<1>. QED  BY <1>6, <1>7

\* What is left of the free heap becomes a free block, so that the blocks are
\* all that malloc has returned.
LEMMA LeftoverFacts ==
    ASSUME PoolIInv, ~exited, ~failed, NEW n \in Sizes, leftbytes < n
    PROVE  /\ Ledger(used, LeftoverKept) /\ Within(Holdings(used, LeftoverKept))
           /\ Covered(Holdings(used, LeftoverKept)) = Covered(chunks)
<1>1. /\ PoolTypeOK /\ InPlace /\ Ledger(used, free_list) /\ start_free <= end_free
      /\ start_free \in Nat /\ end_free \in Nat /\ HeapInPlace /\ leftbytes \in Nat
      /\ leftbytes = end_free - start_free /\ Within(Holdings(used, free_list))
    BY DEF PoolIInv, InPlace, PoolTypeOK, leftbytes
<1>2. CASE leftbytes = 0
    <2>1. LeftoverKept = free_list /\ FreeHeap = {}
        BY <1>1, <1>2 DEF LeftoverKept, FreeHeap
    <2>. QED  BY <1>1, <2>1 DEF HeapInPlace
<1>3. CASE leftbytes # 0
    <2> DEFINE b == Block(start_free, leftbytes)
    <2>1. leftbytes \in Sizes /\ leftbytes \in Nat \ {0} /\ leftbytes > 0
        BY <1>1, <1>3, PoolAssumption DEF Sizes
    <2>2. b \in Records /\ b.at = start_free /\ b.size = leftbytes
        BY <1>1, <2>1, WordFacts
    <2>3. WordsOf(b) = FreeHeap /\ FreeHeap # {}
        <3>1. WordsOf(b) = start_free..(start_free + leftbytes - 1)
            BY <1>1, <2>1, WordFacts
        <3>2. start_free + leftbytes - 1 = end_free - 1 /\ start_free \in FreeHeap
            BY <1>1, <2>1 DEF FreeHeap
        <3>. QED  BY <3>1, <3>2, Zenon DEF FreeHeap
    <2>4. LeftoverKept = Pushed(free_list, b.size, b.at)
        BY <2>1, <2>2, Zenon DEF LeftoverKept
    <2> HIDE DEF b
    <2>5. WordsOf(b) \cap Covered(Holdings(used, free_list)) = {}
        BY <1>1, <2>3 DEF HeapInPlace
    <2>6. Gains(used, free_list, used, LeftoverKept, {b})
        BY <1>1, <2>2, <2>4, <2>5, GivenOne, Zenon
    <2>7. /\ Ledger(used, LeftoverKept)
          /\ Holdings(used, LeftoverKept) = Holdings(used, free_list) \cup {b}
          /\ Covered(Holdings(used, LeftoverKept)) =
                 Covered(Holdings(used, free_list)) \cup Covered({b})
        BY <2>6, Zenon DEF Gains
    <2>8. Covered({b}) = FreeHeap
        BY <2>3 DEF Covered
    <2>9. Within(Holdings(used, LeftoverKept))
        BY <1>1, <2>3, <2>7 DEF HeapInPlace, Within
    <2>. QED  BY <1>1, <2>7, <2>8, <2>9 DEF HeapInPlace
<1>. QED  BY <1>2, <1>3

\* While the process runs, malloc is only called before it has failed.
LEMMA MallocOnce ==
    ASSUME PoolIInv, ~exited, NEW n \in Sizes, leftbytes < n
    PROVE  ~failed
BY PoolAssumption DEF PoolIInv, InPlace, PoolTypeOK, leftbytes, Sizes

\* What malloc is asked for has room for the blocks of the refill, and what is
\* left for more than the largest block.
LEMMA EnoughFacts ==
    ASSUME PoolTypeOK, NEW n \in Sizes
    PROVE  /\ NObjs * n \in Nat /\ n <= NObjs * n /\ bytes2get(n) \in Nat
           /\ 2 * (NObjs * n) <= bytes2get(n) /\ __FREELISTS <= bytes2get(n)
<1>1. n \in Nat \ {0} /\ NObjs \in Nat \ {0} /\ __FREELISTS \in Nat /\ heap_size \in Nat
    BY PoolAssumption DEF PoolTypeOK, Sizes
<1>2. /\ NObjs * n \in Nat /\ n <= NObjs * n
    BY <1>1, MulFacts
<1>3. NObjs <= NObjs * n
    BY <1>1
<1>4. 2 * NObjs * n = 2 * (NObjs * n)
    BY <1>1
<1>5. (((heap_size * 8) \div 16) + 7) \div 8 \in Nat
    BY <1>1
<1> DEFINE q == NObjs * n
           more == (((heap_size * 8) \div 16) + 7) \div 8
<1>6. bytes2get(n) = 2 * q + more
    BY <1>4, Zenon DEF bytes2get
<1> HIDE DEF q, more
<1>7. q \in Nat /\ more \in Nat /\ NObjs <= q
    BY <1>2, <1>3, <1>5 DEF q, more
<1>8. bytes2get(n) \in Nat /\ 2 * q <= bytes2get(n) /\ __FREELISTS <= bytes2get(n)
    BY <1>1, <1>6, <1>7, PoolAssumption
<1>. QED  BY <1>2, <1>8, Zenon DEF q

\* A refill from malloc: the blocks are cut from the front of the new chunk, and
\* the rest of it is the free heap.
LEMMA CutFromMallocKeeps ==
    ASSUME PoolIInv, ~exited, NEW n \in Sizes, CutFromMalloc(n)
    PROVE  PoolIInv'
<1> DEFINE size == bytes2get(n)
           q == NObjs * n
           lists == LeftoverKept
<1>1. /\ PoolTypeOK /\ InPlace /\ ~failed /\ leftbytes < n
      /\ n \in Nat \ {0} /\ NObjs \in Nat \ {0} /\ heap_size \in Nat
    <2>1. leftbytes < n /\ PoolTypeOK /\ InPlace
        BY DEF PoolIInv, CutFromMalloc
    <2>2. ~failed
        BY <2>1, MallocOnce
    <2>. QED  BY <2>1, <2>2, PoolAssumption DEF PoolTypeOK, Sizes
<1>2. PICK a \in Bases :
          /\ \A d \in chunks : WordsOf(Block(a, size)) \cap WordsOf(d) = {}
          /\ chunks' = chunks \cup {Block(a, size)}
          /\ used' = used \cup {Block(a, n)}
          /\ free_list' = [lists EXCEPT ![n] = Carved(a, n, NObjs) \o @]
          /\ start_free' = a + q
          /\ end_free' = a + Block(a, size).size
    BY DEF CutFromMalloc
<1>3. heap_size' = heap_size + size /\ UNCHANGED <<failed, exited>>
    BY DEF CutFromMalloc
<1>4. a \in Nat \ {0}
    BY PoolAssumption
<1>5. /\ q \in Nat /\ n <= q /\ size \in Nat /\ 2 * q <= size /\ __FREELISTS <= size
      /\ __FREELISTS \in Nat \ {0}
    BY <1>1, EnoughFacts, PoolAssumption
<1>6. /\ Ledger(used, lists) /\ Within(Holdings(used, lists))
      /\ Covered(Holdings(used, lists)) = Covered(chunks)
    BY <1>1, LeftoverFacts
<1> HIDE DEF lists, size
<1> DEFINE words == a..(a + q - 1)
           c == Block(a, size)
<1>7. c \in Chunks /\ c.size = size /\ WordsOf(c) = a..(a + size - 1) /\ size \in Nat \ {0}
    <2>1. size \in Nat \ {0}
        BY <1>1, <1>5
    <2>. QED  BY <1>4, <2>1, WordFacts
<1>8. WordsOf(c) \cap Covered(chunks) = {}
    BY <1>2 DEF Covered
<1>9. /\ words \subseteq WordsOf(c) /\ WordsOf(c) = words \cup FreeHeap'
      /\ words \cap FreeHeap' = {}
    <2> HIDE DEF q
    <2>1. start_free' = a + q /\ end_free' = a + size
        BY <1>2, <1>7
    <2>. QED  BY <1>4, <1>5, <1>7, <2>1 DEF FreeHeap
<1>10. words \cap Covered(Holdings(used, lists)) = {}
    BY <1>6, <1>8, <1>9
<1>11. Fills(used, lists, used', free_list', words)
    BY <1>1, <1>2, <1>4, <1>6, <1>10, Refilled, Zenon
<1> HIDE DEF c, q
<1>12. /\ Ledger(used', free_list')
       /\ Covered(Holdings(used', free_list')) = Covered(Holdings(used, lists)) \cup words
       /\ \A b \in Holdings(used', free_list') :
              b \in Holdings(used, lists) \/ WordsOf(b) \subseteq words
    BY <1>11, Zenon DEF Fills
<1> HIDE DEF words
<1>13. start_free' \in Nat /\ end_free' \in Nat /\ start_free' # 0 /\ end_free' # 0
       /\ start_free' <= end_free' /\ end_free' >= __FREELISTS /\ heap_size' \in Nat
       /\ chunks' = chunks \cup {c}
    BY <1>1, <1>2, <1>3, <1>4, <1>5, <1>7 DEF c
<1>14. PoolTypeOK'
    <2>1. free_list' \in [Sizes -> Seq(Nat)] /\ used' \subseteq Records
        BY <1>12, Zenon DEF Ledger
    <2>2. chunks' \subseteq Chunks
        BY <1>1, <1>7, <1>13 DEF PoolTypeOK, Chunks
    <2>. QED  BY <1>1, <1>3, <1>13, <2>1, <2>2 DEF PoolTypeOK, Records, Chunks
<1>15. Within(Holdings(used, free_list))'
    BY <1>6, <1>9, <1>12, <1>13 DEF Within
<1>16. Covered(chunks') = Covered(chunks) \cup WordsOf(c)
    BY <1>13 DEF Covered
<1>17. HeapInPlace'
    <2>1. Covered(chunks') = Covered(Holdings(used', free_list')) \cup FreeHeap'
        BY <1>6, <1>9, <1>12, <1>16
    <2>2. Covered(Holdings(used', free_list')) \cap FreeHeap' = {}
        BY <1>6, <1>8, <1>9, <1>12
    <2>3. \E d \in chunks' : FreeHeap' \subseteq WordsOf(d)
        BY <1>9, <1>13
    <2>. QED  BY <1>13, <2>1, <2>2, <2>3 DEF HeapInPlace
<1>18. InPlace'
    BY <1>1, <1>3, <1>12, <1>13, <1>15, <1>17 DEF InPlace
<1>. QED  BY <1>1, <1>3, <1>13, <1>14, <1>18 DEF PoolIInv

\* Of some sizes, one is the smallest.
LEMMA SmallestFact ==
    ASSUME NEW T \in SUBSET Sizes, T # {}
    PROVE  Min(T) \in T
<1>1. T \in SUBSET Nat
    BY DEF Sizes
<1>2. \E m \in T : \A k \in T : m <= k
    BY <1>1, LeastFact, Zenon
<1>. QED  BY <1>2, Zenon DEF Min

\* A failed malloc: what the program gets is part of a block that was free.
LEMMA MallocFailedKeeps ==
    ASSUME PoolIInv, ~exited, NEW n \in Sizes, MallocFailed(n)
    PROVE  /\ PoolIInv'
           /\ Ledger(used', free_list') /\ Within(Holdings(used, free_list))'
<1> DEFINE lists == LeftoverKept
           lenders == Lenders(lists, n)
           m == Min(lenders)
<1>1. /\ PoolTypeOK /\ InPlace /\ ~failed /\ leftbytes < n /\ end_free \in Nat
    BY MallocOnce DEF PoolIInv, MallocFailed, PoolTypeOK
<1>2. /\ start_free' = 0 /\ failed' = TRUE /\ UNCHANGED <<end_free, heap_size, chunks>>
      /\ IF lenders = {}
         THEN exited' = TRUE /\ free_list' = lists /\ UNCHANGED used
         ELSE /\ used' = used \cup {Block(Head(lists[m]), n)}
              /\ free_list' = [lists EXCEPT ![m] = Tail(@)]
              /\ UNCHANGED exited
    BY DEF MallocFailed
<1>3. /\ Ledger(used, lists) /\ Within(Holdings(used, lists))
      /\ Covered(Holdings(used, lists)) = Covered(chunks)
    BY <1>1, LeftoverFacts
<1> HIDE DEF lists
<1>4. /\ Ledger(used', free_list') /\ Within(Holdings(used, free_list))'
      /\ lenders # {} => Holdings(used', free_list') # {}
    <2>1. CASE lenders = {}
        BY <1>2, <1>3, <2>1 DEF Within
    <2>2. CASE lenders # {}
        <3>1. lenders \subseteq Sizes /\ \A k \in lenders : n <= k /\ lists[k] # <<>>
            BY PoolAssumption DEF Lenders, Sizes
        <3>2. m \in Sizes /\ n <= m /\ lists[m] # <<>>
            BY <2>2, <3>1, SmallestFact
        <3> HIDE DEF m
        <3>3. /\ used' = used \cup {Block(Head(lists[m]), n)}
              /\ free_list' = [lists EXCEPT ![m] = Tail(@)]
            BY <1>2, <2>2, Zenon
        <3>4. Lends(used, lists, used', free_list', m = n)
            BY <1>3, <3>2, <3>3, Taken, Zenon
        <3>5. /\ Ledger(used', free_list')
              /\ \A b \in Holdings(used', free_list') :
                     \E c \in Holdings(used, lists) : WordsOf(b) \subseteq WordsOf(c)
            BY <3>4, Zenon DEF Lends
        <3>6. Within(Holdings(used, free_list))'
            BY <1>2, <1>3, <3>5 DEF Within
        <3>7. Holdings(used', free_list') # {}
            BY <3>3 DEF Holdings
        <3>. QED  BY <3>5, <3>6, <3>7
    <2>. QED  BY <2>1, <2>2
<1>5. PoolTypeOK'
    <2>1. free_list' \in [Sizes -> Seq(Nat)] /\ used' \subseteq Records
        BY <1>4, Zenon DEF Ledger
    <2>2. exited' \in BOOLEAN
        BY <1>1, <1>2 DEF PoolTypeOK
    <2>. QED  BY <1>1, <1>2, <2>1, <2>2 DEF PoolTypeOK, Records
<1>6. ASSUME ~exited' PROVE InPlace'
    <2>1. Holdings(used', free_list') # {}
        BY <1>2, <1>4, <1>6
    <2>2. chunks # {}
        BY <1>2, <1>4, <2>1 DEF Within
    <2>3. end_free # 0
        BY <1>1, <2>2 DEF InPlace
    <2>. QED  BY <1>1, <1>2, <1>4, <2>3 DEF InPlace
<1>7. start_free' <= end_free'
    BY <1>1, <1>2
<1>. QED  BY <1>2, <1>4, <1>5, <1>6, <1>7 DEF PoolIInv

-----------------------------------------------------------------------------
(* The theorems.                                                           *)

\* Every operation of the program is one of the five.
LEMMA PoolStep ==
    ASSUME PoolIInv, PoolNext
    PROVE  PoolIInv'
<1>1. ASSUME NEW n \in Sizes, allocate(n) PROVE PoolIInv'
    <2>1. ~exited
        BY <1>1 DEF allocate
    <2>2. TakeFromList(n) \/ CutFromHeap(n) \/ CutFromMalloc(n) \/ MallocFailed(n)
        BY <1>1 DEF allocate
    <2>. QED  BY <2>1, <2>2, TakeFromListKeeps, CutFromHeapKeeps, CutFromMallocKeeps,
                 MallocFailedKeeps, Zenon
<1>2. ASSUME NEW b \in used, deallocate(b) PROVE PoolIInv'
    BY <1>2, DeallocateKeeps
<1>. QED  BY <1>1, <1>2 DEF PoolNext

\* The invariant is about the variables of the pool.
LEMMA PoolStutter == PoolIInv /\ UNCHANGED poolVars => PoolIInv'
BY DEF poolVars, PoolIInv, PoolTypeOK, InPlace, HeapInPlace, Within, FreeHeap

\* The inductive invariant of the pool.
LEMMA PoolInductive == PoolSpec => []PoolIInv
<1>1. PoolIInv /\ [PoolNext]_poolVars => PoolIInv'
    BY PoolStep, PoolStutter
<1>. QED  BY <1>1, PoolInitFacts, PTL DEF PoolSpec

\* Until malloc fails, no two blocks overlap, held or free, none is in a list
\* twice, none reaches into the free heap, and the program is only given memory
\* that malloc returned.
THEOREM BlocksStayApart == PoolSpec => []PoolInv
<1>1. PoolIInv => PoolInv
    <2>1. SUFFICES ASSUME PoolIInv PROVE PoolInv
        OBVIOUS
    <2>2. PoolTypeOK
        BY <2>1 DEF PoolIInv
    <2>3. ASSUME ~failed PROVE NoOverlap /\ BlocksFromMalloc
        <3>1. /\ Ledger(used, free_list) /\ HeapInPlace
              /\ Within(Holdings(used, free_list))
            BY <2>1, <2>3 DEF PoolIInv, InPlace
        <3>. QED  BY <2>2, <3>1, InvFromPlaces DEF NoOverlap
    <2>. QED  BY <2>2, <2>3 DEF PoolInv
<1>. QED  BY <1>1, PoolInductive, PTL

\* Until malloc fails, every word it returned is held, in a list or in the free
\* heap: refilling, keeping what is left and giving back lose none.
THEOREM NoWordIsLost == PoolSpec => []NothingLost
<1>1. PoolIInv => NothingLost
    <2>1. SUFFICES ASSUME PoolIInv, ~failed PROVE NothingLost
        BY DEF NothingLost
    <2>2. PoolTypeOK /\ HeapInPlace
        BY <2>1 DEF PoolIInv, InPlace
    <2>. QED  BY <2>2, InvFromPlaces
<1>. QED  BY <1>1, PoolInductive, PTL

\* The block borrowed when malloc fails is part of one that was free, and the
\* one it is part of leaves its list; so is every block the program gets until
\* the next refill.
THEOREM BorrowingIsSound == PoolSpec => BorrowsSoundly
<1>1. ASSUME PoolIInv, [PoolNext]_poolVars, Sound, start_free' = 0
      PROVE  Sound'
    <2>1. PoolIInv'
        BY <1>1, PoolStep, PoolStutter
    <2>2. PoolTypeOK'
        BY <2>1 DEF PoolIInv
    <2>3. CASE Ledger(used', free_list') /\ Within(Holdings(used, free_list))'
        <3>1. (Ledger(used, free_list) => Apart)' 
            BY <2>2, InvFromPlaces, PTL
        <3>2. (Within(Holdings(used, free_list)) => BlocksFromMalloc)'
            BY <2>2, InvFromPlaces, PTL
        <3>. QED  BY <2>3, <3>1, <3>2 DEF Sound
    <2>4. CASE ~exited'
        BY <2>1, <2>3, <2>4 DEF PoolIInv, InPlace
    <2>5. CASE UNCHANGED poolVars
        BY <1>1, <2>5 DEF poolVars, Sound, Apart, BlocksFromMalloc, Blocks, Free, FreeBlocks
    <2>6. ASSUME NEW n \in Sizes, allocate(n), exited' PROVE Sound'
        <3>1. ~exited
            BY <2>6 DEF allocate
        <3>2. CASE TakeFromList(n)
            BY <2>6, <3>1, <3>2 DEF TakeFromList
        <3>3. CASE CutFromHeap(n)
            <4>1. /\ PoolTypeOK /\ leftbytes >= n /\ leftbytes \in Nat /\ n \in Nat \ {0}
                  /\ NObjs \in Nat \ {0}
                BY <1>1, <3>3, PoolAssumption
                   DEF PoolIInv, PoolTypeOK, CutFromHeap, leftbytes, Sizes
            <4> DEFINE nobjs == IF leftbytes >= NObjs * n THEN NObjs ELSE leftbytes \div n
            <4>2. nobjs \in Nat \ {0}
                BY <4>1, DivFacts
            <4>3. start_free' = start_free + nobjs * n
                BY <3>3 DEF CutFromHeap
            <4> HIDE DEF nobjs
            <4>4. nobjs * n \in Nat /\ n <= nobjs * n
                BY <4>1, <4>2, RowFacts, Zenon DEF Sizes
            <4>5. start_free \in Nat
                BY <4>1 DEF PoolTypeOK
            <4>. QED  BY <1>1, <4>1, <4>3, <4>4, <4>5
        <3>4. CASE CutFromMalloc(n)
            BY <2>6, <3>1, <3>4 DEF CutFromMalloc
        <3>5. CASE MallocFailed(n)
            BY <1>1, <2>3, <3>1, <3>5, MallocFailedKeeps
        <3>. QED  BY <2>6, <3>2, <3>3, <3>4, <3>5 DEF allocate
    <2>7. ASSUME NEW b \in used, deallocate(b) PROVE ~exited'
        BY <2>7 DEF deallocate
    <2>. QED  BY <1>1, <2>4, <2>5, <2>6, <2>7 DEF PoolNext
<1>. QED  BY <1>1, PoolInductive, PTL DEF PoolSpec, BorrowsSoundly
=============================================================================

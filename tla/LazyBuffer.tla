---------------------------- MODULE LazyBuffer ----------------------------
(***************************************************************************)
(* The growing byte buffer of event_handler.h (LazyBuffer) and buffer.h    *)
(* (BufferV, the same code a second time): one vector with a read and a    *)
(* write index.                                                            *)
(*                                                                         *)
(* data[k + 1] is buffer_[k].  An operation is called only where the       *)
(* asserts on its arguments hold; the asserts on what the buffer did       *)
(* itself set aborted when they fail.                                      *)
(***************************************************************************)
EXTENDS Integers, Sequences, SequencesExt

CONSTANTS
    Bytes,          \* the values of a byte, without the 0 a vector is filled with
    kCheapPrepend,  \* bytes kept free in front
    kInitialSize,   \* bytes for content at first
    ShrinkAnywhere, \* whether shrink is called with other bytes than
                    \* kCheapPrepend in front of the content
    MaxLen,         \* bound: bytes per operation
    MaxContent      \* bound: readable bytes

ASSUME BufferAssumption ==
    /\ kCheapPrepend \in Nat /\ kInitialSize \in Nat /\ 0 \notin Bytes
    /\ ShrinkAnywhere \in BOOLEAN /\ MaxLen \in Nat /\ MaxContent \in Nat

VARIABLES
    data,       \* buffer_
    reader,     \* readerIndex_
    writer,     \* writerIndex_
    aborted     \* an assert on the buffer's own work has failed

vars == <<data, reader, writer, aborted>>

Cells == Bytes \cup {0}
Zeros(n) == [k \in 1..n |-> 0]

TypeOK ==
    /\ data \in Seq(Cells)
    /\ reader \in Nat /\ writer \in Nat
    /\ aborted \in BOOLEAN

Init ==
    /\ data = Zeros(kCheapPrepend + kInitialSize)
    /\ reader = kCheapPrepend /\ writer = kCheapPrepend
    /\ aborted = FALSE

readableBytes == writer - reader
writableBytes == Len(data) - writer
prependableBytes == reader

\* The readable bytes: [peek(), beginWrite()).
Content == SubSeq(data, reader + 1, writer)

\* std::copy of s to the cells behind index k.
Copied(d, k, s) ==
    [j \in DOMAIN d |-> IF j \in (k + 1)..(k + Len(s)) THEN s[j - k] ELSE d[j]]

-----------------------------------------------------------------------------
\* A definition with a suffix after an operation's name is that operation with
\* one plausible mistake; no action uses it.

\* makeSpace(more) resizes unless the space at both ends is enough.
MustResize_without_reserve(more) == writableBytes + prependableBytes < more
MustResize(more) == writableBytes + prependableBytes < more + kCheapPrepend

NewSize_of_content(more) == kCheapPrepend + readableBytes + more
NewSize(more) == writer + more

\* vector::resize fills with 0.
Resized(d, n) == [k \in 1..n |-> IF k <= Len(d) THEN d[k] ELSE 0]

\* The vector and the indexes after makeSpace(more), if append needs it.
Spaced_without_writer(more) ==
    IF writableBytes >= more
    THEN [d |-> data, r |-> reader, w |-> writer]
    ELSE IF MustResize(more)
    THEN [d |-> Resized(data, NewSize(more)), r |-> reader, w |-> writer]
    ELSE [d |-> Copied(data, kCheapPrepend, Content), r |-> kCheapPrepend, w |-> writer]
Spaced(more) ==
    IF writableBytes >= more
    THEN [d |-> data, r |-> reader, w |-> writer]
    ELSE IF MustResize(more)
    THEN [d |-> Resized(data, NewSize(more)), r |-> reader, w |-> writer]
    ELSE [d |-> Copied(data, kCheapPrepend, Content), r |-> kCheapPrepend,
          w |-> kCheapPrepend + readableBytes]

append(s) ==
    LET b == Spaced(Len(s))
    IN  /\ ~aborted /\ readableBytes + Len(s) <= MaxContent
        /\ reader' = b.r
        /\ IF Len(s) <= Len(b.d) - b.w
           THEN data' = Copied(b.d, b.w, s) /\ writer' = b.w + Len(s) /\ UNCHANGED aborted
           ELSE aborted' = TRUE /\ data' = b.d /\ writer' = b.w

prepend(s) ==
    /\ ~aborted /\ readableBytes + Len(s) <= MaxContent
    /\ Len(s) <= prependableBytes
    /\ reader' = reader - Len(s)
    /\ data' = Copied(data, reader - Len(s), s)
    /\ UNCHANGED <<writer, aborted>>

\* retrieve, and retrieveUntil with the pointer n bytes behind peek().
retrieve(n) ==
    /\ ~aborted /\ n <= readableBytes
    /\ reader' = reader + n
    /\ UNCHANGED <<data, writer, aborted>>

\* retrieveAll, and retrieveAsString once it has built its string.
retrieveAll ==
    /\ ~aborted
    /\ reader' = kCheapPrepend /\ writer' = kCheapPrepend
    /\ UNCHANGED <<data, aborted>>

\* shrink(reserve) moves the content and leaves the indexes as they are.
shrink(reserve) ==
    /\ ~aborted /\ (ShrinkAnywhere \/ reader = kCheapPrepend)
    /\ data' = Zeros(kCheapPrepend) \o Content \o Zeros(reserve)
    /\ UNCHANGED <<reader, writer, aborted>>

\* swap with a LazyBuffer just constructed.
swap ==
    /\ ~aborted
    /\ data' = Zeros(kCheapPrepend + kInitialSize)
    /\ reader' = kCheapPrepend /\ writer' = kCheapPrepend
    /\ UNCHANGED aborted

Next ==
    \/ \E s \in SeqOf(Bytes, MaxLen) : append(s) \/ prepend(s)
    \/ \E n \in 0..MaxContent : retrieve(n)
    \/ retrieveAll \/ swap
    \/ \E n \in 0..MaxLen : shrink(n)

Spec == Init /\ [][Next]_vars

-----------------------------------------------------------------------------
\* The picture above LazyBuffer:
\* 0 <= readerIndex <= writerIndex <= size.
IndexesOrdered == 0 <= reader /\ reader <= writer /\ writer <= Len(data)

\* The assert of append after makeSpace never fails.
AssertsHold == ~aborted

\* std::copy may copy to the front only: when makeSpace moves the content inside
\* the vector, it does so towards lower indexes.
MovesToFront ==
    \A n \in 0..MaxLen :
        writableBytes < n /\ ~MustResize(n) => kCheapPrepend < reader

\* The inductive invariant: the space in front never gets lost either, so that
\* retrieveAll always finds it.
BufferInv == TypeOK /\ IndexesOrdered /\ AssertsHold /\ kCheapPrepend <= Len(data)

\* The content as a byte queue, whatever the buffer does with its space.
Queue == INSTANCE ByteQueue WITH content <- Content
QueueSpec == Queue!Spec
============================================================================

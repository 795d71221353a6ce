----------------------------- MODULE ByteQueue -----------------------------
(***************************************************************************)
(* What LazyBuffer promises its callers: the readable bytes are a sequence *)
(* that grows at both ends and is consumed from the front.                 *)
(***************************************************************************)
EXTENDS Integers, Sequences, SequencesExt

CONSTANTS
    Bytes,      \* the values of a byte
    MaxLen      \* bound: bytes per operation

VARIABLE content    \* the readable bytes

Init == content = <<>>

Append_(s) == content' = content \o s
Prepend_(s) == content' = s \o content
Retrieve_(n) == content' = SubSeq(content, n + 1, Len(content))

Next ==
    \/ \E s \in SeqOf(Bytes, MaxLen) : Append_(s) \/ Prepend_(s)
    \/ \E n \in 0..Len(content) : Retrieve_(n)

Spec == Init /\ [][Next]_content
============================================================================

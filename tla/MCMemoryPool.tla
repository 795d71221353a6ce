--------------------------- MODULE MCMemoryPool ---------------------------
(* MemoryPool with blocks of 1 to 3 words, refilled 2 at a time. *)
EXTENDS MemoryPool
MCFewBases == {1, 21}
============================================================================

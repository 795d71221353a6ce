--------------------------- MODULE MCLazyBuffer ---------------------------
(* LazyBuffer on small instances. *)
EXTENDS LazyBuffer
MCBytes == {1, 2}
============================================================================

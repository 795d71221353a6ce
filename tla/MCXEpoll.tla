------------------------------ MODULE MCXEpoll ------------------------------
(* XEpoll on a small instance, both modes. *)
EXTENDS XEpoll
CONSTANTS c1, c2
============================================================================

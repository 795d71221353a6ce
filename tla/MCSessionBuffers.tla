------------------------- MODULE MCSessionBuffers -------------------------
(* SessionBuffers with two sessions and Buffers of two units. *)
EXTENDS SessionBuffers, TLC
CONSTANTS s1, s2
MCSessions == {s1, s2}
Perms == Permutations(MCSessions)
============================================================================

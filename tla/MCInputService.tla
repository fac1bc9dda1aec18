--------------------------- MODULE MCInputService ---------------------------
(* Instances of InputService for TLC. *)
EXTENDS InputService, TLC

CONSTANTS r1, r2, r3

Sym == Permutations(Http)
=============================================================================

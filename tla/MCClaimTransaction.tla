------------------------- MODULE MCClaimTransaction -------------------------
(* Instances of ClaimTransaction for TLC. *)
EXTENDS ClaimTransaction, TLC

CONSTANTS w1, w2, e1, e2, e3

Sym == Permutations(Worker) \cup Permutations(Entry)
=============================================================================

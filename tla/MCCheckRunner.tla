--------------------------- MODULE MCCheckRunner ---------------------------
(* Instances of CheckRunner for TLC: observations of two types at one time and *)
(* one of the first type an hour earlier.                                      *)
EXTENDS CheckRunner, TLC

CONSTANTS a, b, d, w1, w2

Obstime == [o \in Obs |-> IF o = a THEN 0 ELSE 60]
Typeid == [o \in Obs |-> IF o = d THEN 2 ELSE 1]
Back == <<0, 60>>
Back1 == <<60>>
Stored == [o \in Obs |-> IF o = a THEN 1 ELSE IF o = b THEN 2 ELSE 3]
Sym == Permutations(Worker)
=============================================================================

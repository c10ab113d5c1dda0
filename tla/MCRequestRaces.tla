--------------------------- MODULE MCRequestRaces ---------------------------
(* RequestRaces with one request in flight beside the atomic ones. *)
EXTENDS RequestRaces, TLC

CONSTANTS o1, m1, corp, i1, i2, c1, p1

MCSymmetry == Permutations(Items) \cup Permutations(Claims)
=============================================================================

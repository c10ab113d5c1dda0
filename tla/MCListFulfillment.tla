------------------------- MODULE MCListFulfillment -------------------------
(* Small instances of ListFulfillment for TLC: an owner o1, a member m1,  *)
(* one corporation, up to two items and two claims.                     *)
EXTENDS ListFulfillment, TLC

CONSTANTS o1, m1, corp, i1, i2, c1, c2

MCSymmetry == Permutations(Items) \cup Permutations(Claims)
=============================================================================

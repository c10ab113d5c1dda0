---------------------------- MODULE MCCorporations ----------------------------
EXTENDS Corporations, TLC

CONSTANTS u1, u2, a1, a2

MCOwnerOf == (a1 :> u1) @@ (a2 :> u2)
Swap == (u1 :> u2) @@ (u2 :> u1) @@ (a1 :> a2) @@ (a2 :> a1)
MCSymmetry == Permutations(Groups) \cup Permutations(Requests) \cup {Swap}
=============================================================================

------------------------------ MODULE MCAccounts ------------------------------
(* Two browsers, two accounts in EVE. *)
EXTENDS Accounts, TLC

CONSTANTS u1, u2, u3, s1, s2, ch1, ch2, o1, o2

MCSymmetry == Permutations(Users) \cup Permutations(Sessions)
                \cup Permutations(Owners) \cup Permutations(Characters)
=============================================================================

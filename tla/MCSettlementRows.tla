--------------------------- MODULE MCSettlementRows ---------------------------
(* Haulers h1 and h2 issue contracts. Item i1 is wanted once, i2 twice.      *)
EXTENDS SettlementRows, TLC

CONSTANTS i1, i2, h1, h2, h3, f1, f2, f3, c1, c2, q1, q2

MCQty == [i \in Items |-> IF i = i2 THEN 2 ELSE 1]
MCIssuer == [c \in Contracts |-> IF c = c1 THEN h1 ELSE h2]
MCSymmetry == Permutations(Requests) \cup Permutations(Fulfillments)
=============================================================================

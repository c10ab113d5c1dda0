------------------------ MODULE MCContractSettlement ------------------------
(* ContractSettlement with contracts that member m1 issued for o1.          *)
EXTENDS ContractSettlement, TLC

CONSTANTS o1, m1, i1, i2, x1, x2, p1, p2

MCIssuer == [c \in Contracts |-> m1]
MCAssignee == [c \in Contracts |-> o1]
MCSymmetry == Permutations(Contracts)
=============================================================================

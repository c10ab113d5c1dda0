------------------------------ MODULE MCCitadels ------------------------------
(* One character reads details; two read orders. *)
EXTENDS Citadels

CONSTANTS a1, a2

MCCharacters == <<a1, a2>>
MCScoped == [d \in Dims |-> IF d = "details" THEN {a1} ELSE {a1, a2}]
=============================================================================

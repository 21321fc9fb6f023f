------------------------- MODULE MCContractSigning -------------------------
(* A small instance of ContractSigning for TLC. *)
EXTENDS ContractSigning, TLC

MCSymmetry == Permutations(Notes)
=============================================================================

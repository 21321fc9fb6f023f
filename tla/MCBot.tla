------------------------------- MODULE MCBot -------------------------------
(* Small instances of Bot for TLC. *)
EXTENDS Bot, TLC

MCSymmetry == Permutations(Messages)
=============================================================================

------------------------------- MODULE MCLead -------------------------------
(* Small instances of Lead and Reception for TLC. *)
EXTENDS Lead, TLC

MCSymmetry == Permutations(Requests)
=============================================================================

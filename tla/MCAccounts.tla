----------------------------- MODULE MCAccounts -----------------------------
(* Small instances of Accounts for TLC. *)
EXTENDS Accounts, TLC

MCSymmetry ==
    Permutations(Tokens) \cup Permutations(Requests) \cup Permutations(FirstSuperadmins)
=============================================================================

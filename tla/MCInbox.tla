------------------------------ MODULE MCInbox ------------------------------
(* Small instances of Inbox for TLC. *)
EXTENDS Inbox, TLC

MCSymmetry == Permutations(Messages) \cup Permutations(Jobs) \cup
    Permutations(Users \ Superadmins)
=============================================================================

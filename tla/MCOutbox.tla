------------------------------ MODULE MCOutbox ------------------------------
(* A small instance of Outbox for TLC. *)
EXTENDS Outbox

\* Two attempts, the first retry after one unit of time.
MCRetryDelay == [n \in 1 .. MaxAttempts |-> n]
=============================================================================

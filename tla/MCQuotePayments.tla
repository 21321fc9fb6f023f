-------------------------- MODULE MCQuotePayments --------------------------
(* Small instances of QuotePayments for TLC. *)
EXTENDS QuotePayments
=============================================================================

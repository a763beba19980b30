---------------------------- MODULE MCDirectDebit ----------------------------
(* A small instance of DirectDebit for TLC. *)
EXTENDS DirectDebit

RetryDays == <<2>>
=============================================================================

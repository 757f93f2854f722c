----------------------------- MODULE MCPayments -----------------------------
(* One event that reports success, and a database that fails once.           *)
EXTENDS Payments
=============================================================================

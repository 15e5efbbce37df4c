----------------------------- MODULE MCPayments -----------------------------
(* Payments for TLC.                                                       *)
EXTENDS Payments

=============================================================================

---------------------------- MODULE MCPayments ----------------------------
(* Instances of Payments for TLC. *)
EXTENDS Payments
=============================================================================

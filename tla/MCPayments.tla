---------------------------- MODULE MCPayments ----------------------------
(* Bounded instances of Payments. *)
EXTENDS Payments, TLC

CONSTANTS u1, p1, i1, i2, a1, c1
=============================================================================

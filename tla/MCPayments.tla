----------------------------- MODULE MCPayments -----------------------------
(* Small instances of Payments for TLC.                                      *)
EXTENDS Payments, TLC

CONSTANTS o1, o2, c1, c2

TwoOrders == {o1, o2}
FirstOrder == {o1}
SecondOrder == {o2}
TwoCalls == {c1, c2}
=============================================================================

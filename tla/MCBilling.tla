----------------------------- MODULE MCBilling -----------------------------
(* Model values and bounds for Billing. *)
EXTENDS Billing, TLC

CONSTANTS i1, i2, p1, p2

MCInvoice == {i1, i2}
MCPayment == {p1, p2}
MCPrice == {2}
MCDiscount == {0, 2}
MCReceived == {3}
MCAmount == {1, 2}

Symmetry == Permutations(MCPayment) \cup Permutations(MCInvoice)
=============================================================================

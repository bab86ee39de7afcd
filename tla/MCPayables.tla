----------------------------- MODULE MCPayables -----------------------------
(* Two invoices, two payments, two transactions, amounts of one and two.   *)
EXTENDS Payables, TLC

CONSTANTS i1, i2, p1, p2, t1, t2

Symmetry == Permutations(Invoices) \cup Permutations(Payments) \cup Permutations(Txns)
=============================================================================

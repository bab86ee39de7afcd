----------------------------- MODULE MCBilling -----------------------------
(* Two invoices, one event, two runs at a time, suspension after two tries. *)
EXTENDS Billing, TLC

CONSTANTS i1, i2, e1, r1, r2

Symmetry == Permutations(Invoices) \cup Permutations(Runs)
=============================================================================

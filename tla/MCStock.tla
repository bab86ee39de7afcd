------------------------------ MODULE MCStock ------------------------------
(* Two warehouses with up to two units each, one count, two transactions.  *)
EXTENDS Stock, TLC

CONSTANTS w1, w2, c1, t1, t2

Symmetry == Permutations(Txns) \cup Permutations(Warehouses)
=============================================================================

---------------------------- MODULE MCCashDrawer ----------------------------
(* One drawer, two shifts one after the other, a sale of two units (one    *)
(* unit can be refunded, then the other, or both at once).                 *)
EXTENDS CashDrawer, TLC

CONSTANTS h1, h2, s1, s2, t1, t2, t3

Symmetry == Permutations(Txns) \cup Permutations(Shifts) \cup Permutations(SaleIds)
=============================================================================

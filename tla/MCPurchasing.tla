---------------------------- MODULE MCPurchasing ----------------------------
(* An order of two items, two receipts, one return.                        *)
EXTENDS Purchasing, TLC

CONSTANTS i1, i2, n1, n2, r1, t1, t2

Symmetry == Permutations(Items) \cup Permutations(Receipts) \cup Permutations(Txns)
=============================================================================

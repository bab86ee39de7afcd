------------------------------ MODULE MCLedger ------------------------------
(* Two months, three entries, two financial transactions, two at a time.   *)
EXTENDS Ledger, TLC

CONSTANTS e1, e2, e3, f1, f2, t1, t2

Symmetry == Permutations(Entries) \cup Permutations(FTs) \cup Permutations(Txns)
=============================================================================

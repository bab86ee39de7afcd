------------------------------ MODULE MCOutbox ------------------------------
EXTENDS Outbox, TLC
CONSTANTS u1, u2, s1, k1, l1
Symmetry == Permutations(Users)
=============================================================================

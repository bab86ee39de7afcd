------------------------- MODULE MCOfflineDelivery -------------------------
EXTENDS OfflineDelivery, TLC
CONSTANTS u1, u2, c1, c2, s1, k1, l1
OneCompany == [u \in Users |-> c1]
OwnCompany == [u \in Users |-> IF u = u1 THEN c1 ELSE c2]
Symmetry == Permutations(Users)

(* Operations meet only in the queue, which MCOutbox.cfg checks with two:   *)
(* here one operation of any kind goes through its whole life.             *)
OneOperation == Cardinality({o \in Ops : origin[o] # None}) <= 1
=============================================================================

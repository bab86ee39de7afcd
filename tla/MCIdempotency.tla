--------------------------- MODULE MCIdempotency ---------------------------
(* Three requests on one key, two with the same payload and one re-using   *)
(* the key for another: every collision the unique index arbitrates.       *)
EXTENDS Idempotency

CONSTANTS r1, r2, r3, k1, p1, p2

MCKeyOf == [r \in Reqs |-> k1]
MCPayloadOf == [r \in Reqs |-> IF r = r3 THEN p2 ELSE p1]
=============================================================================

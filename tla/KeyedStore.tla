----------------------------- MODULE KeyedStore -----------------------------
(***************************************************************************)
(* What the idempotency layer of the backend promises to a caller that     *)
(* sends a mutation under an Idempotency-Key: as long as the record of a   *)
(* key is alive the mutation takes effect once, every later request with   *)
(* the same payload is answered from the record, and only the end of the   *)
(* record's 24 hour life lets the mutation run again.  There are no        *)
(* transactions, locks or rows in this module: Idempotency.tla shows that  *)
(* the PostgreSQL protocol of IdempotencyService implements it, and        *)
(* OfflineDelivery.tla uses it as the server of the mobile outbox.         *)
(***************************************************************************)
EXTENDS Naturals, Null

CONSTANTS Keys, Payloads

VARIABLES
    stored,   \* stored[k]: the payload whose response key k replays, or None
    effects   \* effects[k]: how many times the mutation of k took effect

Init ==
    /\ stored = [k \in Keys |-> None]
    /\ effects = [k \in Keys |-> 0]

(* The first request of a key life takes effect and leaves its record.     *)
Apply(k, p) ==
    /\ stored[k] = None
    /\ stored' = [stored EXCEPT ![k] = p]
    /\ effects' = [effects EXCEPT ![k] = @ + 1]

(* The record's time to live runs out.                                     *)
Expire(k) ==
    /\ stored[k] # None
    /\ stored' = [stored EXCEPT ![k] = None]
    /\ UNCHANGED effects

Next == \E k \in Keys : Expire(k) \/ \E p \in Payloads : Apply(k, p)

Spec == Init /\ [][Next]_<<stored, effects>>
=============================================================================

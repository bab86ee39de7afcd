-------------------------- MODULE OfflineDelivery --------------------------
(***************************************************************************)
(* The mobile outbox of Outbox.tla delivering to the backend: the          *)
(* credentials a request carries, the single token refresh that answers a  *)
(* 401, requests and responses that are lost or late, and what the backend *)
(* does with a request.                                                    *)
(*                                                                         *)
(* The server side of a request is one step: Idempotency.tla shows that    *)
(* concurrent requests under one key are serialised, and the unique        *)
(* business identities are unique indexes of the database.  A request is   *)
(* attributed to the user whose token it carries, and its effect and its   *)
(* idempotency record belong to that user's company.                       *)
(***************************************************************************)
EXTENDS Outbox

CONSTANTS
    Companies,
    CompanyOf,   \* the company of each user
    MaxAccepts,  \* bound: Send anyway presses per operation
    MaxLate      \* bound: abandoned requests under way per operation

ASSUME DeliveryAssumption == CompanyOf \in [Users -> Companies]

VARIABLES
    token,       \* TokenStorage: whose tokens are stored, or None
    revoking,    \* the sign-out in progress has not cleared the tokens yet
    refreshing,  \* whose refresh token the refresh in flight carries, or None
    wire,        \* wire[o]: the request for o the client waits for, or None
    late,        \* late[o]: tokens of abandoned requests that may yet arrive
    record,      \* record[o][c]: who stored the live idempotency record
    count,       \* count[o][c]: how often o took effect in company c
    accepted     \* history: Send anyway presses, and sends of older builds

session == <<token, revoking, refreshing>>
network == <<wire, late>>
server == <<record, count>>
dvars == <<vars, session, network, server, accepted>>

Replies == {"ok", "unique", "again", "rejected", "denied", "unauthorized"}

RequestType == [by : Users \cup {None}, reply : Replies \cup {None}]

ASSUME NoneAssumption == None \notin Replies /\ None \notin RequestType

DeliveryTypeOK ==
    /\ TypeOK
    /\ token \in Users \cup {None} /\ refreshing \in Users \cup {None}
    /\ revoking \in BOOLEAN
    /\ wire \in [Ops -> {None} \cup RequestType]
    /\ late \in [Ops -> SUBSET Users]
    /\ record \in [Ops -> [Companies -> Users \cup {None}]]
    /\ count \in [Ops -> [Companies -> Nat]]
    /\ accepted \in [Ops -> Nat]

(* An entry of an older build may have been applied before the upgrade,    *)
(* with its record still alive or past its life.                           *)
DeliveryInit ==
    /\ Init
    /\ token = None /\ revoking = FALSE /\ refreshing = None
    /\ wire = [o \in Ops |-> None]
    /\ late = [o \in Ops |-> {}]
    /\ accepted \in [Ops -> {0, 1}]
    /\ \A o \in Ops : accepted[o] = 1 => origin[o] # None
    /\ count = [o \in Ops |-> [c \in Companies |->
                  IF accepted[o] = 1 /\ c = CompanyOf[origin[o]]
                  THEN 1 ELSE 0]]
    /\ record \in [Ops -> [Companies -> Users \cup {None}]]
    /\ \A o \in Ops, c \in Companies :
          record[o][c] # None => count[o][c] = 1 /\ record[o][c] = origin[o]

-----------------------------------------------------------------------------
(* The backend.                                                            *)

(* Another expiry or a cleanup: the record's 24 hours are over.            *)
ExpireRecord(o, c) ==
    /\ record[o][c] # None
    /\ record' = [record EXCEPT ![o][c] = None]
    /\ UNCHANGED <<vars, session, network, count, accepted>>

KeyIsLive(o, u) == record[o][CompanyOf[u]] # None

(* A unique index of the business tables knows the durable identity.       *)
KnownToBackend(o, u) == o \notin Legacy /\ count[o][CompanyOf[u]] > 0

(* A live record answers: the stored response for the same requester, 422  *)
(* for another one, whose id is part of the request hash.                  *)
Replay(o, u, reply) ==
    /\ KeyIsLive(o, u)
    /\ reply = IF record[o][CompanyOf[u]] = u THEN "ok" ELSE "rejected"
    /\ UNCHANGED server

(* Without a record the durable identity meets its unique index, unless    *)
(* an earlier check of the service (a closed shift, a received order)      *)
(* rejects the replay first, or it fails on the way.  The 409 of a sale    *)
(* number does not say "unique" (SalesRepository.create), which for an     *)
(* entry without a key is a failure for good.                              *)
Duplicate(o, u, reply) ==
    /\ ~KeyIsLive(o, u) /\ KnownToBackend(o, u)
    /\ reply \in {"rejected", "again"} \/ (o \notin Sales /\ reply = "unique")
    /\ UNCHANGED server

Apply(o, u, reply) ==
    /\ ~KeyIsLive(o, u) /\ ~KnownToBackend(o, u)
    /\ reply = "ok"
    /\ count' = [count EXCEPT ![o][CompanyOf[u]] = @ + 1]
    /\ record' = IF o \in Sales THEN record
                 ELSE [record EXCEPT ![o][CompanyOf[u]] = u]

(* A business refusal, or a transient 5xx / 408 / 429 that rolled back.    *)
(* Every violation of a unique index becomes a 409 that says "unique", not *)
(* only the one of the operation's identity: a stock row that somebody     *)
(* else has just created, a number taken.  A sale inserts under no other.  *)
Refuse(o, u, reply) ==
    /\ ~KeyIsLive(o, u) /\ ~KnownToBackend(o, u)
    /\ reply \in {"rejected", "again"} \/ (o \notin Sales /\ reply = "unique")
    /\ UNCHANGED server

Process(o, u, reply) ==
    \/ Replay(o, u, reply) \/ Duplicate(o, u, reply)
    \/ Apply(o, u, reply) \/ Refuse(o, u, reply)

Unanswered(o) == wire[o] # None /\ wire[o].reply = None

ServeWaiting(o) ==
    /\ Unanswered(o) /\ wire[o].by # None
    /\ \E reply \in Replies :
          /\ Process(o, wire[o].by, reply)
          /\ wire' = [wire EXCEPT ![o].reply = reply]
    /\ UNCHANGED <<vars, session, late, accepted>>

ServeLate(o, u) ==
    /\ u \in late[o]
    /\ \E reply \in Replies : Process(o, u, reply)
    /\ late' = [late EXCEPT ![o] = @ \ {u}]
    /\ UNCHANGED <<vars, session, wire, accepted>>

-----------------------------------------------------------------------------
(* Credentials: the auth interceptor and its one refresh at a time.        *)

(* A 401: the request waits for the refresh, which reads the refresh token *)
(* stored by now; with nothing stored the 401 goes to the caller.          *)
Unauthorized(o) ==
    /\ Unanswered(o)
    /\ IF refreshing = None /\ token = None
       THEN /\ wire' = [wire EXCEPT ![o].reply = "denied"]
            /\ UNCHANGED refreshing
       ELSE /\ wire' = [wire EXCEPT ![o].reply = "unauthorized"]
            /\ refreshing' = IF refreshing = None THEN token ELSE refreshing
    /\ UNCHANGED <<vars, token, revoking, late, server, accepted>>

(* The refreshed tokens replace whatever is stored, and the waiting        *)
(* requests are sent again under them; a failed refresh clears the store.  *)
RefreshSettled(ok) ==
    /\ refreshing # None
    /\ token' = IF ok THEN refreshing ELSE None
    /\ refreshing' = None
    /\ wire' = [o \in Ops |->
                  IF wire[o] = None \/ wire[o].reply # "unauthorized"
                  THEN wire[o]
                  ELSE IF ok THEN [by |-> refreshing, reply |-> None]
                  ELSE [wire[o] EXCEPT !.reply = "denied"]]
    /\ UNCHANGED <<vars, revoking, late, server, accepted>>

SignInWithTokens(u) ==
    /\ SignIn(u)
    /\ token' = u
    /\ UNCHANGED <<revoking, refreshing, network, server, accepted>>

BeginSignOut(discard) ==
    /\ SignOut(discard)
    /\ revoking' = TRUE
    /\ UNCHANGED <<token, refreshing, network, server, accepted>>

ClearTokens ==
    /\ revoking
    /\ token' = None /\ revoking' = FALSE
    /\ UNCHANGED <<vars, refreshing, network, server, accepted>>

FinishSignOut ==
    /\ CleanupForLogout
    /\ ~revoking
    /\ UNCHANGED <<session, network, server, accepted>>

-----------------------------------------------------------------------------
(* Requests of the client.                                                 *)

Request(o) == wire' = [wire EXCEPT ![o] = [by |-> token, reply |-> None]]

(* The client stops waiting; what was not answered may still arrive.       *)
Abandoned(o) ==
    IF Unanswered(o) /\ Cardinality(late[o]) < MaxLate
    THEN {wire[o].by} \ {None} ELSE {}

Abandon(o) ==
    /\ wire' = [wire EXCEPT ![o] = None]
    /\ \/ late' = late
       \/ late' = [late EXCEPT ![o] = @ \cup Abandoned(o)]

AnswerIn(o, replies) ==
    /\ wire[o].reply \in replies
    /\ wire' = [wire EXCEPT ![o] = None]
    /\ UNCHANGED late

CallOnline(o) ==
    /\ AskOnline(o)
    /\ Request(o)
    /\ UNCHANGED <<session, late, server, accepted>>

(* Any HTTP verdict but 5xx and 408 settles the call.                      *)
SettleOnline(o) ==
    /\ OnlineSettled(o)
    /\ AnswerIn(o, Replies \ {"unauthorized"})
    /\ UNCHANGED <<session, server, accepted>>

(* A 5xx or 408 answer, or none that reached the client.                   *)
ParkUncertain(o) ==
    /\ Park(o)
    /\ AnswerIn(o, {"again"}) \/ Abandon(o)
    /\ UNCHANGED <<session, server, accepted>>

StartPass(waived) ==
    /\ StartBurst(waived)
    /\ \A o \in waived : accepted[o] < MaxAccepts
    /\ accepted' = [o \in Ops |-> accepted[o] + IF o \in waived THEN 1 ELSE 0]
    /\ UNCHANGED <<session, network, server>>

DispatchRequest ==
    /\ Dispatch
    /\ Request(burst.cur)
    /\ UNCHANGED <<session, late, server, accepted>>

Confirming == {"ok", "unique"}

(* _classify: a 2xx or the 409 of any unique index confirms, ..            *)
Confirmed ==
    /\ ConfirmSent
    /\ AnswerIn(burst.cur, Confirming)
    /\ UNCHANGED <<session, server, accepted>>

(* .. a transient answer, a 401 or a lost answer is retried later, ..      *)
Retry ==
    /\ RetryLater
    /\ AnswerIn(burst.cur, {"again", "denied"}) \/ Abandon(burst.cur)
    /\ UNCHANGED <<session, server, accepted>>

(* .. and any other 4xx fails for good.                                    *)
FailForGood ==
    /\ GiveUp
    /\ AnswerIn(burst.cur, {"rejected"})
    /\ UNCHANGED <<session, server, accepted>>

Die ==
    /\ Crash
    /\ wire' = [o \in Ops |-> None]
    /\ \E arrive \in SUBSET {o \in Ops : Unanswered(o)} :
          late' = [o \in Ops |-> late[o] \cup
                     (IF o \in arrive THEN Abandoned(o) ELSE {})]
    /\ revoking' = FALSE /\ refreshing' = None
    /\ UNCHANGED <<token, server, accepted>>

(* The steps of the client that touch neither requests nor credentials.    *)
Local ==
    /\ \/ Hydrate \/ ReleaseAborted \/ EndBurst
       \/ \E o \in Ops :
             \/ EnqueueOffline(o) \/ RetryFailed(o) \/ Discard(o)
             \/ BackoffElapsed(o) \/ Skip(o) \/ MarkSending(o)
    /\ UNCHANGED <<session, network, server, accepted>>

-----------------------------------------------------------------------------
DeliveryNext ==
    \/ Local \/ DispatchRequest \/ Confirmed \/ Retry \/ FailForGood
    \/ ClearTokens \/ FinishSignOut \/ Die
    \/ \E o \in Ops :
          \/ CallOnline(o) \/ SettleOnline(o) \/ ParkUncertain(o)
          \/ ServeWaiting(o) \/ Unauthorized(o)
          \/ \E u \in Users : ServeLate(o, u)
          \/ \E c \in Companies : ExpireRecord(o, c)
    \/ \E waived \in SUBSET Legacy : StartPass(waived)
    \/ \E u \in Users : SignInWithTokens(u)
    \/ \E b \in BOOLEAN : BeginSignOut(b) \/ RefreshSettled(b)

DeliverySpec == DeliveryInit /\ [][DeliveryNext]_dvars

-----------------------------------------------------------------------------
(* An operation without a durable identity never repeats its effect        *)
(* unattended: over retries, late requests, expired records, crashes and   *)
(* changes of user, each execution is paid for by a press of Send anyway   *)
(* (or was made by the older build).  The backend would execute it as      *)
(* often as it comes: the gate of the burst is all there is.               *)
NoUnattendedRepeat ==
    \A o \in Legacy, c \in Companies : count[o][c] <= accepted[o]

Applied(o) == \E c \in Companies : count[o][c] > 0

(* An entry that leaves the queue on a 2xx, and any sale that leaves it as *)
(* delivered, has been applied, and in the company of the user whose token *)
(* the last request carried, however often that was sent again.            *)
SuccessWasApplied ==
    [][LET o == burst.cur
       IN  Confirmed /\ (wire[o].reply = "ok" \/ o \in Sales)
             => count[o][CompanyOf[wire[o].by]] > 0]_dvars

(* The comments of _classify and of toDuplicateOperationConflict: a 409    *)
(* that says "unique" means that the operation has been applied already.   *)
ConfirmedWasApplied == [][Confirmed => Applied(burst.cur)]_dvars

(* The comment of _classify again: a sale that is sent a second time, the  *)
(* answer to the first having been lost, is recognised and not given up.   *)
AppliedSaleNotGivenUp ==
    [][FailForGood /\ burst.cur \in Sales => ~Applied(burst.cur)]_dvars

(* The comment in the burst: a request it has dispatched "completes under  *)
(* the credentials captured at dispatch".                                  *)
CredentialsFixed ==
    [][LET o == burst.cur
       IN  /\ burst.phase = "post"
           /\ wire[o] # None /\ wire[o].reply \in {None, "unauthorized"}
           /\ wire'[o] # None
           => wire'[o].by = wire[o].by]_dvars
=============================================================================

------------------------------- MODULE Outbox -------------------------------
(***************************************************************************)
(* The durable outbox of the mobile application: the queue that            *)
(* OutboxController keeps in memory and OutboxStorage keeps in the         *)
(* preferences store, the sync worker that sends it, the online calls that *)
(* fall back to it, and the sign-in, sign-out and process death that       *)
(* happen around it.                                                       *)
(*                                                                         *)
(* The server and the credentials are not in this module: an online call   *)
(* or a burst's POST gets any verdict.  OfflineDelivery.tla adds them.     *)
(*                                                                         *)
(* Abstractions.  A user stands for the pair (companyId, userId) that      *)
(* scopes an entry.  An operation stands for its clientOperationId with    *)
(* its payload; its kind is the set it belongs to.  A backoff deadline is  *)
(* the flag `waiting`, which time clears.  Connectivity may change at any  *)
(* moment, so it is the choice between the actions that need it and the    *)
(* ones that do not.  A burst visits its snapshot in createdAt order in    *)
(* the code and in any order here: no property depends on the order.       *)
(***************************************************************************)
EXTENDS Naturals, FiniteSets, Null

CONSTANTS
    Users,             \* authenticated scopes
    Sales,             \* CREATE_SALE: no Idempotency-Key, unique saleNumber
    Keyed,             \* keyed kinds whose payload carries a durable identity
    Legacy,            \* keyed entries of older builds, without that identity
    MaxRetryAttempts,  \* OutboxController.maxRetryAttempts
    HardCapacityLimit  \* OutboxController.hardCapacityLimit

Ops == Sales \cup Keyed \cup Legacy

Entry == [owner: Users, status: {"pending", "sending", "failedPermanent"},
          attempts: Nat, waiting: BOOLEAN]

ASSUME OutboxAssumption ==
    /\ Sales \cap Keyed = {} /\ Sales \cap Legacy = {} /\ Keyed \cap Legacy = {}
    /\ None \notin Users /\ None \notin Ops /\ None \notin Entry
    /\ MaxRetryAttempts \in Nat \ {0} /\ HardCapacityLimit \in Nat

VARIABLES
    user,      \* AuthState: the authenticated scope, or None
    leaving,   \* the sign-out in progress, or None
    mem,       \* OutboxState.operations: mem[o] is o's entry, or None
    disk,      \* the persisted list
    hydrated,  \* OutboxController._hydrated
    burst,     \* the running syncAll pass
    asking,    \* operations whose direct online call is unanswered
    origin,    \* history: the user who performed the operation, or None
    owed       \* history: stored entries nobody has delivered or dismissed

vars == <<user, leaving, mem, disk, hydrated, burst, asking, origin, owed>>
auth == <<user, leaving>>

NoBurst == [phase |-> "idle", who |-> None, stale |-> FALSE, todo |-> {},
            cur |-> None, waived |-> {}]

TypeOK ==
    /\ user \in Users \cup {None}
    /\ leaving \in [who: Users, discard: BOOLEAN] \cup {None}
    /\ mem \in [Ops -> Entry \cup {None}]
    /\ disk \in [Ops -> Entry \cup {None}]
    /\ hydrated \in BOOLEAN
    /\ burst \in [phase: {"idle", "loop", "gate", "post"},
                  who: Users \cup {None}, stale: BOOLEAN, todo: SUBSET Ops,
                  cur: Ops \cup {None}, waived: SUBSET Legacy]
    /\ asking \in SUBSET Keyed
    /\ origin \in [Ops -> Users \cup {None}]
    /\ owed \in SUBSET Ops

(* A queue left by an older build: entries without a durable identity.     *)
LegacyQueue ==
    [Ops -> {None} \cup [owner: Users, status: {"pending"}, attempts: {0},
                         waiting: {FALSE}]]

Init ==
    /\ user = None /\ leaving = None
    /\ disk \in LegacyQueue
    /\ \A o \in Sales \cup Keyed : disk[o] = None
    /\ mem = [o \in Ops |-> None]
    /\ hydrated = FALSE
    /\ burst = NoBurst
    /\ asking = {}
    /\ origin = [o \in Ops |-> IF disk[o] = None THEN None ELSE disk[o].owner]
    /\ owed = {o \in Ops : disk[o] # None}

-----------------------------------------------------------------------------
(* The queue and its persistence.                                          *)

Fresh(u) == [owner |-> u, status |-> "pending", attempts |-> 0,
             waiting |-> FALSE]

(* Operators named Mutant.. are plausible bugs of the definition that      *)
(* follows them.                                                           *)
MutantLoad(q) == q

(* OutboxStorage.load: an entry found SENDING goes back to PENDING.        *)
Load(q) ==
    [o \in Ops |-> IF q[o] # None /\ q[o].status = "sending"
                   THEN [q[o] EXCEPT !.status = "pending"] ELSE q[o]]

(* The serialised tail of a queue mutation: the state is replaced, then    *)
(* the whole list is written, and the store may reject the write without   *)
(* an exception; nobody but the sign-out looks at the outcome.             *)
Save(q) == mem' = q /\ (disk' = q \/ disk' = disk)

(* History: what is stored and queued is owed until it is let go.          *)
LetGo(gone) ==
    owed' = (owed \ gone) \cup {o \in Ops : mem'[o] # None /\ disk'[o] # None}

(* _mutate: an entry that is no longer queued stays absent, and the list   *)
(* is written all the same.                                                *)
Mutate(o, entry) ==
    /\ Save(IF mem[o] = None THEN mem ELSE [mem EXCEPT ![o] = entry])
    /\ LetGo({})

Remove(o) ==
    /\ Save([mem EXCEPT ![o] = None])
    /\ LetGo({o})

Unresolved(q, u) == {o \in Ops : q[o] # None /\ q[o].owner = u}

MutantHydratedQueue == mem

HydratedQueue == IF hydrated THEN mem ELSE Load(disk)

(* enqueue: hydrate first, then refuse a duplicate or a full queue.        *)
Enqueue(o, u) ==
    LET q == HydratedQueue
    IN  /\ hydrated' = TRUE
        /\ IF \/ q[o] # None
              \/ Cardinality(Unresolved(q, u)) >= HardCapacityLimit
           THEN mem' = q /\ UNCHANGED disk
           ELSE Save([q EXCEPT ![o] = Fresh(u)])
        /\ LetGo({})

Hydrate ==
    /\ ~hydrated
    /\ hydrated' = TRUE
    /\ mem' = Load(disk) /\ disk' = disk
    /\ LetGo({})
    /\ UNCHANGED <<auth, burst, asking, origin>>

-----------------------------------------------------------------------------
(* The user's operations.                                                  *)

(* An operation performed while offline: queued under the current user.    *)
EnqueueOffline(o) ==
    /\ user # None
    /\ o \in Sales \cup Keyed /\ origin[o] = None
    /\ origin' = [origin EXCEPT ![o] = user]
    /\ Enqueue(o, user)
    /\ UNCHANGED <<auth, burst, asking>>

(* The same operation performed online: a direct call under a fresh key.   *)
AskOnline(o) ==
    /\ user # None
    /\ o \in Keyed /\ origin[o] = None
    /\ origin' = [origin EXCEPT ![o] = user]
    /\ asking' = asking \cup {o}
    /\ UNCHANGED <<auth, mem, disk, hydrated, burst, owed>>

(* A verdict that settles the call is shown to the user and not queued.    *)
OnlineSettled(o) ==
    /\ o \in asking
    /\ asking' = asking \ {o}
    /\ UNCHANGED <<auth, mem, disk, hydrated, burst, origin, owed>>

(* An uncertain outcome parks the operation under the key of the call and  *)
(* under whoever is signed in now; with nobody signed in it is refused.    *)
Park(o) ==
    /\ o \in asking
    /\ asking' = asking \ {o}
    /\ IF user # None
       THEN Enqueue(o, user)
       ELSE UNCHANGED <<mem, disk, hydrated, owed>>
    /\ UNCHANGED <<auth, burst, origin>>

RetryFailed(o) ==
    /\ user # None /\ o \in Unresolved(mem, user)
    /\ mem[o].status = "failedPermanent"
    /\ Mutate(o, Fresh(mem[o].owner))
    /\ UNCHANGED <<auth, hydrated, burst, asking, origin>>

(* Offered for a failed entry, and for one without a durable identity      *)
(* whatever its status: the list of those is not refreshed while open.     *)
Discard(o) ==
    /\ user # None /\ o \in Unresolved(mem, user)
    /\ o \in Legacy \/ mem[o].status = "failedPermanent"
    /\ Remove(o)
    /\ UNCHANGED <<auth, hydrated, burst, asking, origin>>

(* The deadline of a backoff passes.                                       *)
BackoffElapsed(o) ==
    LET due(q) == IF q[o] = None THEN q
                  ELSE [q EXCEPT ![o].waiting = FALSE]
    IN  /\ \/ mem[o] # None /\ mem[o].waiting
           \/ disk[o] # None /\ disk[o].waiting
        /\ mem' = due(mem) /\ disk' = due(disk)
        /\ UNCHANGED <<auth, hydrated, burst, asking, origin, owed>>

-----------------------------------------------------------------------------
(* The sync worker: one burst at a time.                                   *)

MutantStillValid == user # None

(* burstStillValid: the burst's user is signed in and nothing has moved    *)
(* the auth epoch since the burst began (burst.stale stands for the        *)
(* comparison of the two counters).                                        *)
StillValid == ~burst.stale /\ user = burst.who

MoveEpoch ==
    burst' = IF burst.phase = "idle" THEN burst
             ELSE [burst EXCEPT !.stale = TRUE]

(* syncAll: snapshot, identity and epoch are captured together.  Send      *)
(* anyway waives the durable-identity gate for one operation.              *)
Waivers == {{}} \cup {{o} : o \in Legacy \cap Unresolved(mem, user)}

StartBurst(waived) ==
    /\ burst.phase = "idle" /\ user # None
    /\ waived \in Waivers
    /\ burst' = [NoBurst EXCEPT
                    !.phase = "loop", !.who = user, !.waived = waived,
                    !.todo = {o \in Unresolved(mem, user) :
                                mem[o].status = "pending"}]
    /\ UNCHANGED <<auth, mem, disk, hydrated, asking, origin, owed>>

MutantBlocked(o) ==
    o \in Legacy /\ o \notin burst.waived /\ (mem[o] # None => mem[o].attempts = 0)

(* The durable-identity gate.                                              *)
Blocked(o) == o \in Legacy /\ o \notin burst.waived
NotDue(o) == mem[o] # None /\ mem[o].waiting

Skip(o) ==
    /\ burst.phase = "loop" /\ o \in burst.todo
    /\ StillValid /\ (NotDue(o) \/ Blocked(o))
    /\ burst' = [burst EXCEPT !.todo = @ \ {o}]
    /\ UNCHANGED <<auth, mem, disk, hydrated, asking, origin, owed>>

MarkSending(o) ==
    /\ burst.phase = "loop" /\ o \in burst.todo
    /\ StillValid /\ ~NotDue(o) /\ ~Blocked(o)
    /\ burst' = [burst EXCEPT !.todo = @ \ {o}, !.cur = o, !.phase = "gate"]
    /\ Mutate(o, [mem[o] EXCEPT !.status = "sending"])
    /\ UNCHANGED <<auth, hydrated, asking, origin>>

(* The last gate before the network call, after the await of markSending.  *)
Dispatch ==
    /\ burst.phase = "gate" /\ StillValid
    /\ burst' = [burst EXCEPT !.phase = "post"]
    /\ UNCHANGED <<auth, mem, disk, hydrated, asking, origin, owed>>

ReleaseAborted ==
    /\ burst.phase = "gate" /\ ~StillValid
    /\ Mutate(burst.cur, [mem[burst.cur] EXCEPT !.status = "pending"])
    /\ burst' = NoBurst
    /\ UNCHANGED <<auth, hydrated, asking, origin>>

NextVisit == burst' = [burst EXCEPT !.phase = "loop", !.cur = None]

(* 2xx, or the 409 of a recognised duplicate.                              *)
ConfirmSent ==
    /\ burst.phase = "post"
    /\ Remove(burst.cur)
    /\ NextVisit
    /\ UNCHANGED <<auth, hydrated, asking, origin>>

(* markRetryableFailure: backoff, or the end of the retry budget.          *)
Retried(e) ==
    IF e.attempts + 1 >= MaxRetryAttempts
    THEN [e EXCEPT !.status = "failedPermanent", !.attempts = @ + 1,
                   !.waiting = FALSE]
    ELSE [e EXCEPT !.status = "pending", !.attempts = @ + 1, !.waiting = TRUE]

RetryLater ==
    /\ burst.phase = "post"
    /\ Mutate(burst.cur, Retried(mem[burst.cur]))
    /\ NextVisit
    /\ UNCHANGED <<auth, hydrated, asking, origin>>

GiveUp ==
    /\ burst.phase = "post"
    /\ Mutate(burst.cur, [mem[burst.cur] EXCEPT !.status = "failedPermanent"])
    /\ NextVisit
    /\ UNCHANGED <<auth, hydrated, asking, origin>>

EndBurst ==
    /\ burst.phase = "loop"
    /\ burst.todo = {} \/ ~StillValid
    /\ burst' = NoBurst
    /\ UNCHANGED <<auth, mem, disk, hydrated, asking, origin, owed>>

-----------------------------------------------------------------------------
(* Authentication and process lifetime.                                    *)

(* A sign-in, or the restore of a session.                                 *)
SignIn(u) ==
    /\ user = None
    /\ user' = u
    /\ MoveEpoch
    /\ UNCHANGED <<leaving, mem, disk, hydrated, asking, origin, owed>>

(* logout invalidates the identity first; the queue is cleaned later, and  *)
(* another user may sign in before that.                                   *)
SignOut(discard) ==
    /\ user # None /\ leaving = None
    /\ user' = None
    /\ leaving' = [who |-> user, discard |-> discard]
    /\ MoveEpoch
    /\ UNCHANGED <<mem, disk, hydrated, asking, origin, owed>>

(* cleanupForLogout keeps the leaving user's entries, or nothing: those of *)
(* all others go, by design, and with them any that the next user has made *)
(* in the meantime.  The first frame has put hydrate on the serial lock    *)
(* before any sign-out.                                                    *)
CleanupForLogout ==
    LET kept == IF leaving.discard THEN {} ELSE Unresolved(mem, leaving.who)
    IN  /\ leaving # None
        /\ hydrated
        /\ Save([o \in Ops |-> IF o \in kept THEN mem[o] ELSE None])
        /\ LetGo({o \in Ops : mem[o] # None} \ kept)
        /\ leaving' = None
        /\ MoveEpoch
        /\ UNCHANGED <<user, hydrated, asking, origin>>

(* The process dies; of this state only the preferences survive.           *)
Crash ==
    /\ user' = None /\ leaving' = None
    /\ mem' = [o \in Ops |-> None] /\ hydrated' = FALSE
    /\ burst' = NoBurst /\ asking' = {}
    /\ UNCHANGED <<disk, origin, owed>>

-----------------------------------------------------------------------------
Next ==
    \/ Hydrate \/ Dispatch \/ ReleaseAborted \/ EndBurst
    \/ ConfirmSent \/ RetryLater \/ GiveUp
    \/ CleanupForLogout \/ Crash
    \/ \E o \in Ops :
          \/ EnqueueOffline(o) \/ AskOnline(o) \/ OnlineSettled(o) \/ Park(o)
          \/ RetryFailed(o) \/ Discard(o) \/ BackoffElapsed(o)
          \/ Skip(o) \/ MarkSending(o)
    \/ \E waived \in SUBSET Legacy : StartBurst(waived)
    \/ \E u \in Users : SignIn(u)
    \/ \E b \in BOOLEAN : SignOut(b)

Spec == Init /\ [][Next]_vars

-----------------------------------------------------------------------------
(* An entry that reached the store and that nobody has delivered,          *)
(* discarded or dismissed at a sign-out is still stored, and still queued  *)
(* once the queue is loaded: no crash, rejected write, stale burst or      *)
(* cold-start mutation loses it.  A sign-out dismisses whatever its        *)
(* clean-up does not keep: see CleanupSparesSignedIn.                      *)
NoLoss == \A o \in owed : disk[o] # None /\ (hydrated => mem[o] # None)

(* A SENDING entry belongs to the request the worker is waiting for: no    *)
(* abort, sign-out or discard strands one, which no later burst would      *)
(* pick up before the next start.                                          *)
SendingOwned ==
    \A o \in Ops :
        mem[o] # None /\ mem[o].status = "sending" =>
            burst.phase \in {"gate", "post"} /\ burst.cur = o

(* A request leaves the worker only for an entry of the signed-in user,    *)
(* however sign-outs, sign-ins and the awaits of the burst interleave.     *)
DispatchedByOwner ==
    [][burst.phase = "gate" /\ burst'.phase = "post" /\ mem[burst.cur] # None
         => mem[burst.cur].owner = user]_vars

(* The comment of logout: nothing can be enqueued while the clean-up runs, *)
(* which would keep it from what the next user has queued.                 *)
CleanupSparesSignedIn ==
    [][\A o \in Ops : CleanupForLogout /\ mem[o] # None /\ mem[o].owner = user
         => mem'[o] # None]_vars

(* An operation is queued under the user who performed it.                 *)
ParkedUnderOriginator ==
    \A o \in Ops : mem[o] # None => mem[o].owner = origin[o]
=============================================================================

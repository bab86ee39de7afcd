----------------------------- MODULE Idempotency -----------------------------
(***************************************************************************)
(* The idempotency layer of the backend: reserve / complete /              *)
(* cleanupExpired of IdempotencyService and the transaction that           *)
(* runWithIdempotency wraps around a keyed mutation, run by several        *)
(* requests at once on one PostgreSQL database (READ COMMITTED, the        *)
(* default the code runs with).                                            *)
(*                                                                         *)
(* A step is one SQL statement of one request, or the end of its           *)
(* transaction.  What a transaction has inserted or deleted and not yet    *)
(* committed is visible to it alone; a second transaction that meets it on *)
(* the unique index (companyId, idempotencyKey) waits until it ends, which *)
(* is here an action that is not enabled.  A key stands for one            *)
(* (companyId, idempotencyKey) pair, a payload for one request hash.       *)
(***************************************************************************)
EXTENDS Naturals, Null

CONSTANTS
    Reqs,       \* requests (one at a time per element: a client may re-send)
    Keys,       \* (companyId, idempotencyKey) pairs
    Payloads,   \* request hashes
    KeyOf,      \* the key each request carries
    PayloadOf,  \* the payload each request carries
    MaxSends,   \* bound: requests received in a behaviour
    MaxExpiries \* bound: record lifetimes that end in a behaviour

Statements == {"idle", "insert", "read", "drop", "work", "complete", "commit"}
Answers == {"applied", "replayed", "mismatch", "inFlight", "failed"}

Record == [id: Nat \ {0}, payload: Payloads, done: BOOLEAN, expired: BOOLEAN]
Draft == [by: Reqs, done: BOOLEAN]

ASSUME ReqsAssumption ==
    /\ KeyOf \in [Reqs -> Keys]
    /\ PayloadOf \in [Reqs -> Payloads]
    /\ None \notin Reqs \cup Payloads \cup Answers
    /\ None \notin Record /\ None \notin Draft

VARIABLES
    row,      \* row[k]: the committed IdempotencyRecord of k, or None
    draft,    \* draft[k]: the inserted, uncommitted record of k, or None
    doomed,   \* doomed[k]: the request that deleted row[k], uncommitted, or None
    pc,       \* pc[r]: the statement request r executes next
    old,      \* old[r]: id of the record already expired at r's `now`, or 0
    seen,     \* seen[r]: id of the expired record r has read, or 0
    answer,   \* answer[r]: how r's last request was answered, or None
    nextId,   \* id of the next record to be inserted
    sends,    \* requests received so far (only the bound reads it)
    effects,  \* effects[k]: committed executions of k's mutation
    expiries  \* expiries[k]: records of k whose time to live has run out

reserveVars ==
    <<row, draft, doomed, pc, old, seen, answer, nextId, sends, effects, expiries>>

ReserveTypeOK ==
    /\ row \in [Keys -> Record \cup {None}]
    /\ draft \in [Keys -> Draft \cup {None}]
    /\ doomed \in [Keys -> Reqs \cup {None}]
    /\ pc \in [Reqs -> Statements]
    /\ old \in [Reqs -> Nat] /\ seen \in [Reqs -> Nat]
    /\ answer \in [Reqs -> Answers \cup {None}]
    /\ nextId \in Nat \ {0} /\ sends \in Nat
    /\ effects \in [Keys -> Nat] /\ expiries \in [Keys -> Nat]

ReserveInit ==
    /\ row = [k \in Keys |-> None]
    /\ draft = [k \in Keys |-> None]
    /\ doomed = [k \in Keys |-> None]
    /\ pc = [r \in Reqs |-> "idle"]
    /\ old = [r \in Reqs |-> 0]
    /\ seen = [r \in Reqs |-> 0]
    /\ answer = [r \in Reqs |-> None]
    /\ nextId = 1
    /\ sends = 0
    /\ effects = [k \in Keys |-> 0]
    /\ expiries = [k \in Keys |-> 0]

-----------------------------------------------------------------------------
(* Operators named Mutant.. are plausible bugs of the definition that      *)
(* follows them.                                                           *)
MutantHeldByOther(r, k) == doomed[k] \notin {None, r}

(* Another transaction holds an uncommitted write on k's index entry.      *)
HeldByOther(r, k) ==
    \/ draft[k] # None /\ draft[k].by # r
    \/ doomed[k] \notin {None, r}

Goto(r, s) == pc' = [pc EXCEPT ![r] = s]

MutantRelease(r) ==
    /\ draft' = [k \in Keys |-> IF draft[k] # None /\ draft[k].by = r
                                THEN None ELSE draft[k]]
    /\ UNCHANGED doomed

(* The transaction of r ends: what it had not committed disappears.        *)
Release(r) ==
    /\ draft' = [k \in Keys |-> IF draft[k] # None /\ draft[k].by = r
                                THEN None ELSE draft[k]]
    /\ doomed' = [k \in Keys |-> IF doomed[k] = r THEN None ELSE doomed[k]]

Finish(r, a) ==
    /\ Goto(r, "idle")
    /\ answer' = [answer EXCEPT ![r] = a]

-----------------------------------------------------------------------------
(* The id of k's record if it is past its life, or 0.                      *)
ExpiredAlready(k) == IF row[k] # None /\ row[k].expired THEN row[k].id ELSE 0

(* A request arrives, opens its transaction and takes its `now`, once for  *)
(* all the attempts of reserve.  A record that is past its life at that    *)
(* moment stays expired for this request; one that runs out later does not *)
(* count as expired for it.                                                *)
Begin(r) ==
    /\ pc[r] = "idle"
    /\ sends < MaxSends
    /\ sends' = sends + 1
    /\ old' = [old EXCEPT ![r] = ExpiredAlready(KeyOf[r])]
    /\ seen' = [seen EXCEPT ![r] = 0]
    /\ answer' = [answer EXCEPT ![r] = None]
    /\ Goto(r, "insert")
    /\ UNCHANGED <<row, draft, doomed, nextId, effects, expiries>>

(* INSERT .. ON CONFLICT DO NOTHING wins the index entry.                  *)
InsertWins(r) ==
    LET k == KeyOf[r] IN
    /\ pc[r] = "insert"
    /\ ~HeldByOther(r, k)
    /\ row[k] = None \/ doomed[k] = r
    /\ draft' = [draft EXCEPT ![k] = [by |-> r, done |-> FALSE]]
    /\ Goto(r, "work")
    /\ UNCHANGED <<row, doomed, old, seen, answer, nextId, sends, effects,
                   expiries>>

(* The same INSERT meets a committed record: it changes nothing.           *)
InsertConflicts(r) ==
    LET k == KeyOf[r] IN
    /\ pc[r] = "insert"
    /\ ~HeldByOther(r, k)
    /\ row[k] # None /\ doomed[k] # r
    /\ Goto(r, "read")
    /\ UNCHANGED <<row, draft, doomed, old, seen, answer, nextId, sends,
                   effects, expiries>>

(* findUnique finds nothing: the record it lost against is gone again.     *)
ReadNothing(r) ==
    /\ pc[r] = "read"
    /\ row[KeyOf[r]] = None
    /\ Goto(r, "insert")
    /\ UNCHANGED <<row, draft, doomed, old, seen, answer, nextId, sends,
                   effects, expiries>>

MutantStale(r, rec) == rec.done

(* The record was past its life at r's `now`.                              *)
Stale(r, rec) == rec.id = old[r]

(* findUnique finds a record that expired before this request's `now`.     *)
ReadExpired(r) ==
    LET k == KeyOf[r] IN
    /\ pc[r] = "read"
    /\ row[k] # None
    /\ Stale(r, row[k])
    /\ seen' = [seen EXCEPT ![r] = row[k].id]
    /\ Goto(r, "drop")
    /\ UNCHANGED <<row, draft, doomed, old, answer, nextId, sends, effects,
                   expiries>>

(* How reserve answers a live record: 422 for another payload, 409 for an  *)
(* unfinished one, the stored response otherwise.                          *)
Verdict(r, rec) ==
    IF rec.payload # PayloadOf[r] THEN "mismatch"
    ELSE IF ~rec.done THEN "inFlight" ELSE "replayed"

ReadLive(r) ==
    LET k == KeyOf[r] IN
    /\ pc[r] = "read"
    /\ row[k] # None
    /\ ~Stale(r, row[k])
    /\ Finish(r, Verdict(r, row[k]))
    /\ Release(r)
    /\ UNCHANGED <<row, old, seen, nextId, sends, effects, expiries>>

MutantIsSeen(r, k) == row[k] # None

IsSeen(r, k) == row[k] # None /\ row[k].id = seen[r]

(* deleteMany({id}) of the expired record.  Under READ COMMITTED the       *)
(* statement waits for a concurrent deleter and then looks at the row      *)
(* again: a record that has been replaced has another id and is spared.    *)
DropExpired(r) ==
    LET k == KeyOf[r] IN
    /\ pc[r] = "drop"
    /\ ~HeldByOther(r, k)
    /\ doomed' = IF IsSeen(r, k) THEN [doomed EXCEPT ![k] = r] ELSE doomed
    /\ Goto(r, "insert")
    /\ UNCHANGED <<row, draft, old, seen, answer, nextId, sends, effects,
                   expiries>>

(* The business mutation, on the same transaction client.                  *)
Work(r) ==
    /\ pc[r] = "work"
    /\ Goto(r, "complete")
    /\ UNCHANGED <<row, draft, doomed, old, seen, answer, nextId, sends,
                   effects, expiries>>

(* updateMany(.. responseStatus = PENDING) stores the response.            *)
Complete(r) ==
    LET k == KeyOf[r] IN
    /\ pc[r] = "complete"
    /\ draft' = [draft EXCEPT ![k].done = TRUE]
    /\ Goto(r, "commit")
    /\ UNCHANGED <<row, doomed, old, seen, answer, nextId, sends, effects,
                   expiries>>

(* The transaction commits: record and business effect appear together.    *)
Commit(r) ==
    LET k == KeyOf[r] IN
    /\ pc[r] = "commit"
    /\ row' = [row EXCEPT ![k] = [id |-> nextId, payload |-> PayloadOf[r],
                                  done |-> draft[k].done, expired |-> FALSE]]
    /\ nextId' = nextId + 1
    /\ effects' = [effects EXCEPT ![k] = @ + 1]
    /\ Release(r)
    /\ Finish(r, "applied")
    /\ UNCHANGED <<old, seen, sends, expiries>>

(* The mutation throws, the statement or the transaction times out, or the *)
(* server process dies: PostgreSQL rolls everything back.                  *)
Rollback(r) ==
    /\ pc[r] # "idle"
    /\ Release(r)
    /\ Finish(r, "failed")
    /\ UNCHANGED <<row, old, seen, nextId, sends, effects, expiries>>

-----------------------------------------------------------------------------
(* 24 hours have passed since the record was reserved.                     *)
Expire(k) ==
    /\ row[k] # None /\ ~row[k].expired
    /\ expiries[k] < MaxExpiries
    /\ row' = [row EXCEPT ![k].expired = TRUE]
    /\ expiries' = [expiries EXCEPT ![k] = @ + 1]
    /\ UNCHANGED <<draft, doomed, pc, old, seen, answer, nextId, sends, effects>>

(* cleanupExpired: a statement of its own; it waits for a row lock.        *)
CleanupExpired(k) ==
    /\ row[k] # None /\ row[k].expired
    /\ doomed[k] = None
    /\ row' = [row EXCEPT ![k] = None]
    /\ UNCHANGED <<draft, doomed, pc, old, seen, answer, nextId, sends,
                   effects, expiries>>

Step(r) ==
    \/ InsertWins(r) \/ InsertConflicts(r)
    \/ ReadNothing(r) \/ ReadExpired(r) \/ ReadLive(r) \/ DropExpired(r)
    \/ Work(r) \/ Complete(r) \/ Commit(r)

ReserveNext ==
    \/ \E r \in Reqs : Begin(r) \/ Step(r) \/ Rollback(r)
    \/ \E k \in Keys : Expire(k) \/ CleanupExpired(k)

ReserveSpec == ReserveInit /\ [][ReserveNext]_reserveVars

(* Fairness: the database and the event loop run an open transaction on.   *)
(* Nobody has to send, to fail or to let a record expire.                  *)
FairSpec == ReserveSpec /\ \A r \in Reqs : WF_reserveVars(Step(r))

-----------------------------------------------------------------------------
(* A key's mutation is committed once per record life: the executions are  *)
(* exactly the lives that have ended plus the one that is running, however *)
(* retries, expiry and the cleanup job interleave.                         *)
Live(k) == row[k] # None /\ ~row[k].expired

OneEffectPerLife ==
    \A k \in Keys : effects[k] = expiries[k] + (IF Live(k) THEN 1 ELSE 0)

(* No two requests are inside the same key's mutation at the same time.    *)
Executing(r) == pc[r] \in {"work", "complete", "commit"}

OneExecution ==
    \A r, s \in Reqs :
        Executing(r) /\ Executing(s) /\ KeyOf[r] = KeyOf[s] => r = s

(* The 409 "already being processed" branch is dead: a request that meets  *)
(* an unfinished reservation waits for it, so nobody ever reads one.       *)
NeverInFlight == \A r \in Reqs : answer[r] # "inFlight"

(* A request that has begun is answered.                                   *)
Answered == \A r \in Reqs : (pc[r] # "idle") ~> (pc[r] = "idle")

(* The protocol implements the promise: a record is stored while it lives. *)
Abstract == INSTANCE KeyedStore WITH
    stored <- [k \in Keys |-> IF Live(k) THEN row[k].payload ELSE None]

ImplementsKeyedStore == Abstract!Spec
=============================================================================

------------------------- MODULE OfflineDeliveryProofs -------------------------
(***************************************************************************)
(* Both ends of an offline mutation.                                       *)
(*                                                                         *)
(* Safety of the mobile outbox for every set of users and operations and   *)
(* every retry budget and capacity.  First the queue and the worker of     *)
(* Outbox.tla, whatever the server answers (IInv): type correctness,       *)
(* NoLoss, SendingOwned and DispatchedByOwner.  Then the delivery to the   *)
(* backend (DInv): it implements the outbox, NoUnattendedRepeat and        *)
(* SuccessWasApplied of OfflineDelivery.tla.                               *)
(* Last the idempotency layer of the backend, Idempotency.tla              *)
(* (ReserveInv).                                                           *)
(***************************************************************************)
EXTENDS OfflineDelivery, Idempotency, FiniteSetTheorems, TLAPS

(* Before the queue is loaded nothing is in memory, and a burst has taken  *)
(* nothing from it.                                                        *)
ColdQueue ==
    /\ ~hydrated => \A o \in Ops : mem[o] = None
    /\ burst.todo # {} \/ burst.phase \in {"gate", "post"} => hydrated

(* The worker is at an operation exactly between MarkSending and the       *)
(* outcome.                                                                *)
AtOperation == burst.phase \in {"gate", "post"} => burst.cur \in Ops

(* An operation nobody has performed, or whose direct call is unanswered,  *)
(* is neither queued nor in the worker's hands.                            *)
Untouched(o) ==
    /\ mem[o] = None /\ disk[o] = None
    /\ o \notin burst.todo
    /\ burst.phase \in {"gate", "post"} => burst.cur # o

NotYetQueued ==
    \A o \in Ops :
        /\ origin[o] = None => o \notin asking
        /\ origin[o] = None \/ o \in asking => Untouched(o)

(* What the worker still has to send or is sending belongs to its user.    *)
InHand(o) == o \in burst.todo \/ (burst.phase \in {"gate", "post"} /\ burst.cur = o)

BurstOwner ==
    \A o \in Ops : InHand(o) /\ mem[o] # None => mem[o].owner = burst.who

IInv == TypeOK /\ ColdQueue /\ AtOperation /\ NotYetQueued /\ BurstOwner
        /\ NoLoss /\ SendingOwned

Queue == [Ops -> Entry \cup {None}]

-----------------------------------------------------------------------------
(* Lemmas about the queue operators.                                       *)

(* Loading keeps every entry with its owner, and none comes back SENDING   *)
(* (OutboxStorage.load).                                                   *)
LEMMA LoadKeepsEntries ==
    ASSUME NEW q \in Queue
    PROVE  /\ Load(q) \in Queue
           /\ \A o \in Ops :
                 /\ Load(q)[o] = None <=> q[o] = None
                 /\ Load(q)[o] # None => /\ Load(q)[o].owner = q[o].owner
                                         /\ Load(q)[o].status # "sending"
<1>1. \A o \in Ops : q[o] = None \/ q[o] \in Entry
  BY DEF Queue
<1>2. ASSUME NEW o \in Ops, q[o] \in Entry
      PROVE  /\ [q[o] EXCEPT !.status = "pending"] \in Entry
             /\ [q[o] EXCEPT !.status = "pending"].owner = q[o].owner
             /\ [q[o] EXCEPT !.status = "pending"].status = "pending"
  BY <1>2 DEF Entry
<1>3. None \notin Entry
  BY OutboxAssumption
<1>4. \A o \in Ops : Load(q)[o] = IF q[o] # None /\ q[o].status = "sending"
                                  THEN [q[o] EXCEPT !.status = "pending"]
                                  ELSE q[o]
  BY DEF Load
<1>5. Load(q) \in Queue
  BY <1>1, <1>2 DEF Load, Queue
<1> QED
  BY <1>1, <1>2, <1>3, <1>4, <1>5

LEMMA FreshIsEntry == \A u \in Users : /\ Fresh(u) \in Entry
                                       /\ Fresh(u).owner = u
                                       /\ Fresh(u).status # "sending"
BY DEF Fresh, Entry

(* A mutation of one entry touches no other entry, forgets none, and the   *)
(* store holds the old list or the new one (_mutate).                      *)
LEMMA MutateKeepsEntries ==
    ASSUME TypeOK, NoLoss, hydrated, UNCHANGED hydrated,
           NEW o \in Ops, NEW e, mem[o] # None => e \in Entry, Mutate(o, e)
    PROVE  /\ mem' \in Queue /\ disk' \in Queue /\ owed' \in SUBSET Ops
           /\ \A x \in Ops : mem'[x] = None <=> mem[x] = None
           /\ \A x \in Ops \ {o} : mem'[x] = mem[x]
           /\ mem[o] # None => mem'[o] = e
           /\ disk' = disk \/ disk' = mem'
           /\ NoLoss'
<1>1. mem \in Queue /\ disk \in Queue /\ owed \in SUBSET Ops
  BY DEF TypeOK, Queue
<1>2. mem' = IF mem[o] = None THEN mem ELSE [mem EXCEPT ![o] = e]
  BY DEF Mutate, Save
<1>3. mem' \in Queue
  BY <1>1, <1>2 DEF Queue
<1>4. /\ \A x \in Ops \ {o} : mem'[x] = mem[x]
      /\ mem[o] # None => mem'[o] = e
      /\ mem[o] = None => mem'[o] = None
  BY <1>1, <1>2 DEF Queue
<1>5. \A x \in Ops : mem'[x] = None <=> mem[x] = None
  BY <1>4, OutboxAssumption
<1>6. disk' = disk \/ disk' = mem'
  BY DEF Mutate, Save
<1>7. owed' = owed \cup {x \in Ops : mem'[x] # None /\ disk'[x] # None}
  BY DEF Mutate, LetGo
<1>8. NoLoss'
  BY <1>5, <1>6, <1>7, <1>1 DEF NoLoss
<1> QED
  BY <1>1, <1>3, <1>4, <1>5, <1>6, <1>7, <1>8

(* Removing an entry touches no other one (confirmSent).                   *)
LEMMA RemoveKeepsOthers ==
    ASSUME TypeOK, NoLoss, hydrated, UNCHANGED hydrated,
           NEW o \in Ops, Remove(o)
    PROVE  /\ mem' \in Queue /\ disk' \in Queue /\ owed' \in SUBSET Ops
           /\ \A x \in Ops \ {o} : mem'[x] = mem[x]
           /\ mem'[o] = None
           /\ disk' = disk \/ disk' = mem'
           /\ NoLoss'
<1>1. mem \in Queue /\ disk \in Queue /\ owed \in SUBSET Ops
  BY DEF TypeOK, Queue
<1>2. mem' = [mem EXCEPT ![o] = None]
  BY DEF Remove, Save
<1>3. /\ mem' \in Queue
      /\ \A x \in Ops \ {o} : mem'[x] = mem[x]
      /\ mem'[o] = None
  BY <1>1, <1>2 DEF Queue
<1>4. disk' = disk \/ disk' = mem'
  BY DEF Remove, Save
<1>5. owed' = (owed \ {o}) \cup {x \in Ops : mem'[x] # None /\ disk'[x] # None}
  BY DEF Remove, LetGo
<1>6. NoLoss'
  BY <1>1, <1>3, <1>4, <1>5 DEF NoLoss
<1> QED
  BY <1>1, <1>3, <1>4, <1>5, <1>6

(* enqueue loads the queue first, keeps every entry it finds with its      *)
(* owner, and adds at most the new one.                                    *)
LEMMA EnqueueKeepsEntries ==
    ASSUME IInv, NEW o \in Ops, NEW u \in Users, Enqueue(o, u),
           mem[o] = None, disk[o] = None
    PROVE  /\ mem' \in Queue /\ disk' \in Queue /\ owed' \in SUBSET Ops
           /\ hydrated'
           /\ hydrated => \A x \in Ops \ {o} : mem'[x] = mem[x]
           /\ \A x \in Ops \ {o} : mem'[x] = None \/ mem[x] # None \/ disk[x] # None
           /\ \A x \in Ops \ {o} : disk'[x] = None \/ mem'[x] # None \/ disk[x] # None
           /\ \A x \in Ops : mem'[x] # None /\ mem'[x].status = "sending"
                               => mem'[x] = mem[x]
           /\ NoLoss'
<1> DEFINE q == HydratedQueue
<1>1. mem \in Queue /\ disk \in Queue /\ owed \in SUBSET Ops /\ hydrated \in BOOLEAN
  BY DEF IInv, TypeOK, Queue
<1>2. q = IF hydrated THEN mem ELSE Load(disk)
  BY DEF HydratedQueue
<1>3. q \in Queue
  BY <1>1, <1>2, LoadKeepsEntries
<1>4. \A x \in Ops : hydrated => q[x] = mem[x]
  BY <1>2
<1>5. \A x \in Ops : ~hydrated =>
         /\ q[x] = None <=> disk[x] = None
         /\ q[x] # None => q[x].status # "sending"
  BY <1>1, <1>2, LoadKeepsEntries
<1>6. \A x \in owed : disk[x] # None /\ q[x] # None
  BY <1>1, <1>4, <1>5 DEF IInv, NoLoss
<1>7. hydrated' /\ owed' = owed \cup {x \in Ops : mem'[x] # None /\ disk'[x] # None}
  BY DEF Enqueue, LetGo
<1>8. \/ mem' = q /\ disk' = disk
      \/ /\ mem' = [q EXCEPT ![o] = Fresh(u)]
         /\ disk' = disk \/ disk' = mem'
  BY DEF Enqueue, Save
<1>9. Fresh(u) \in Entry /\ Fresh(u) # None /\ Fresh(u).status # "sending"
  BY FreshIsEntry, OutboxAssumption
<1>10. mem' \in Queue /\ disk' \in Queue
  BY <1>1, <1>3, <1>8, <1>9 DEF Queue
<1>11. \A x \in Ops \ {o} : mem'[x] = q[x]
  BY <1>3, <1>8 DEF Queue
<1>12. mem'[o] = q[o] \/ mem'[o] = Fresh(u)
  BY <1>3, <1>8 DEF Queue
<1>13. \A x \in Ops : q[x] # None => mem'[x] # None
  BY <1>9, <1>11, <1>12
<1>14. \A x \in Ops : disk'[x] = disk[x] \/ disk'[x] = mem'[x]
  BY <1>8
<1>15. NoLoss'
  BY <1>1, <1>6, <1>7, <1>13, <1>14 DEF NoLoss
<1>16. q[o] = None
  BY <1>1, <1>4, <1>5
<1>17. \A x \in Ops : mem'[x] # None /\ mem'[x].status = "sending"
                        => mem'[x] = mem[x]
  BY <1>1, <1>4, <1>5, <1>9, <1>11, <1>12, <1>16
<1>18. /\ hydrated => \A x \in Ops \ {o} : mem'[x] = mem[x]
       /\ \A x \in Ops \ {o} : mem'[x] = None \/ mem[x] # None \/ disk[x] # None
       /\ \A x \in Ops \ {o} : disk'[x] = None \/ mem'[x] # None \/ disk[x] # None
  BY <1>1, <1>4, <1>5, <1>11, <1>14
<1>19. owed' \in SUBSET Ops
  BY <1>1, <1>7
<1> QED
  BY <1>7, <1>10, <1>15, <1>17, <1>18, <1>19

-----------------------------------------------------------------------------
(* The invariant holds initially and is kept by every step.                *)

BurstType == [phase: {"idle", "loop", "gate", "post"},
              who: Users \cup {None}, stale: BOOLEAN, todo: SUBSET Ops,
              cur: Ops \cup {None}, waived: SUBSET Legacy]

LEMMA NoBurstType == NoBurst \in BurstType
BY DEF NoBurst, BurstType

(* What the worker has in hand can only shrink, and only under its user.   *)
Narrowed ==
    /\ burst' \in BurstType
    /\ AtOperation'
    /\ \A x \in Ops : InHand(x)' => InHand(x)
    /\ burst'.who = burst.who \/ \A x \in Ops : ~InHand(x)'

(* A step that rewrites one entry in place keeps the invariant, whatever   *)
(* the worker does in the same step, if the entry keeps its owner and is   *)
(* SENDING only in the worker's hands.                                     *)
LEMMA MutatePreserves ==
    ASSUME IInv, hydrated, UNCHANGED <<auth, hydrated, asking, origin>>,
           NEW o \in Ops, NEW e,
           mem[o] # None => e \in Entry /\ e.owner = mem[o].owner,
           Mutate(o, e), Narrowed,
           \A x \in Ops \ {o} :
              mem[x] # None /\ mem[x].status = "sending" =>
                 burst'.phase \in {"gate", "post"} /\ burst'.cur = x,
           mem[o] # None /\ e.status = "sending" =>
              burst'.phase \in {"gate", "post"} /\ burst'.cur = o
    PROVE  IInv'
<1>1. /\ mem' \in Queue /\ disk' \in Queue /\ owed' \in SUBSET Ops
      /\ \A x \in Ops : mem'[x] = None <=> mem[x] = None
      /\ \A x \in Ops \ {o} : mem'[x] = mem[x]
      /\ mem[o] # None => mem'[o] = e
      /\ disk' = disk \/ disk' = mem'
      /\ NoLoss'
  BY MutateKeepsEntries DEF IInv
<1>2. TypeOK'
  BY <1>1 DEF IInv, TypeOK, Narrowed, BurstType, Queue, auth
<1>3. ColdQueue' /\ AtOperation'
  BY DEF ColdQueue, Narrowed
<1>4. NotYetQueued'
  <2>1. SUFFICES ASSUME NEW x \in Ops
                 PROVE  /\ origin[x] = None => x \notin asking
                        /\ origin[x] = None \/ x \in asking => Untouched(x)'
    BY DEF NotYetQueued
  <2>2. origin[x] = None => x \notin asking
    BY DEF IInv, NotYetQueued
  <2>3. ASSUME Untouched(x) PROVE Untouched(x)'
    <3>1. mem'[x] = None /\ disk'[x] = None
      BY <1>1, <2>3 DEF Untouched
    <3>2. ~InHand(x)'
      BY <2>3 DEF Narrowed, Untouched, InHand
    <3> QED
      BY <3>1, <3>2 DEF Untouched, InHand
  <2> QED
    BY <2>2, <2>3 DEF IInv, NotYetQueued
<1>5. BurstOwner'
  BY <1>1 DEF IInv, BurstOwner, Narrowed
<1>6. SendingOwned'
  BY <1>1 DEF SendingOwned
<1> QED
  BY <1>1, <1>2, <1>3, <1>4, <1>5, <1>6 DEF IInv

(* So does a step that removes one entry.                                  *)
LEMMA RemovePreserves ==
    ASSUME IInv, hydrated, UNCHANGED <<auth, hydrated, asking, origin>>,
           NEW o \in Ops, Remove(o), Narrowed,
           \A x \in Ops \ {o} :
              mem[x] # None /\ mem[x].status = "sending" =>
                 burst'.phase \in {"gate", "post"} /\ burst'.cur = x
    PROVE  IInv'
<1>1. /\ mem' \in Queue /\ disk' \in Queue /\ owed' \in SUBSET Ops
      /\ \A x \in Ops \ {o} : mem'[x] = mem[x]
      /\ mem'[o] = None
      /\ disk' = disk \/ disk' = mem'
      /\ NoLoss'
  BY RemoveKeepsOthers DEF IInv
<1>2. TypeOK'
  BY <1>1 DEF IInv, TypeOK, Narrowed, BurstType, Queue, auth
<1>3. ColdQueue' /\ AtOperation'
  BY DEF ColdQueue, Narrowed
<1>4. NotYetQueued'
  <2>1. SUFFICES ASSUME NEW x \in Ops
                 PROVE  /\ origin[x] = None => x \notin asking
                        /\ origin[x] = None \/ x \in asking => Untouched(x)'
    BY DEF NotYetQueued
  <2>2. origin[x] = None => x \notin asking
    BY DEF IInv, NotYetQueued
  <2>3. ASSUME Untouched(x) PROVE Untouched(x)'
    <3>1. mem'[x] = None /\ disk'[x] = None
      BY <1>1, <2>3 DEF Untouched
    <3>2. ~InHand(x)'
      BY <2>3 DEF Narrowed, Untouched, InHand
    <3> QED
      BY <3>1, <3>2 DEF Untouched, InHand
  <2> QED
    BY <2>2, <2>3 DEF IInv, NotYetQueued
<1>5. BurstOwner'
  BY <1>1 DEF IInv, BurstOwner, Narrowed
<1>6. SendingOwned'
  BY <1>1 DEF SendingOwned
<1> QED
  BY <1>1, <1>2, <1>3, <1>4, <1>5, <1>6 DEF IInv

(* So does a step that leaves the queue and the direct calls alone.        *)
LEMMA QueueUntouchedPreserves ==
    ASSUME IInv, UNCHANGED <<mem, disk, hydrated, asking, origin, owed>>,
           user' \in Users \cup {None},
           leaving' \in [who: Users, discard: BOOLEAN] \cup {None},
           Narrowed,
           \A x \in Ops :
              mem[x] # None /\ mem[x].status = "sending" =>
                 burst'.phase \in {"gate", "post"} /\ burst'.cur = x
    PROVE  IInv'
<1>1. TypeOK'
  BY DEF IInv, TypeOK, Narrowed, BurstType
<1>2. AtOperation' /\ BurstOwner' /\ NoLoss' /\ SendingOwned'
  BY DEF IInv, Narrowed, BurstOwner, NoLoss, SendingOwned
<1>3. ColdQueue'
  <2>1. burst'.todo \in SUBSET Ops
    BY DEF Narrowed, BurstType
  <2>2. burst'.todo # {} \/ burst'.phase \in {"gate", "post"}
          => \E x \in Ops : InHand(x)'
    BY <2>1 DEF InHand, Narrowed, AtOperation
  <2>3. (\E x \in Ops : InHand(x)) => hydrated
    BY DEF IInv, ColdQueue, InHand
  <2> QED
    BY <2>2, <2>3 DEF IInv, ColdQueue, Narrowed
<1>4. NotYetQueued'
  <2>1. ASSUME NEW x \in Ops, Untouched(x) PROVE Untouched(x)'
    <3>1. ~InHand(x)'
      BY <2>1 DEF Narrowed, Untouched, InHand
    <3> QED
      BY <2>1, <3>1 DEF Untouched, InHand
  <2> QED
    BY <2>1 DEF IInv, NotYetQueued
<1> QED
  BY <1>1, <1>2, <1>3, <1>4 DEF IInv

(* An operation that is performed offline, or parked after an uncertain    *)
(* answer, enters a queue that does not know it.                           *)
LEMMA EnqueuePreserves ==
    ASSUME IInv, UNCHANGED <<auth, burst>>,
           NEW o \in Ops, NEW u \in Users, Enqueue(o, u), Untouched(o),
           origin' \in [Ops -> Users \cup {None}],
           \A x \in Ops \ {o} : origin'[x] = origin[x],
           origin'[o] # None, o \notin asking',
           asking' \in SUBSET asking
    PROVE  IInv'
<1> USE DEF auth
<1>1. /\ mem' \in Queue /\ disk' \in Queue /\ owed' \in SUBSET Ops
      /\ hydrated'
      /\ hydrated => \A x \in Ops \ {o} : mem'[x] = mem[x]
      /\ \A x \in Ops \ {o} : mem'[x] = None \/ mem[x] # None \/ disk[x] # None
      /\ \A x \in Ops \ {o} : disk'[x] = None \/ mem'[x] # None \/ disk[x] # None
      /\ \A x \in Ops : mem'[x] # None /\ mem'[x].status = "sending"
                          => mem'[x] = mem[x]
      /\ NoLoss'
  BY EnqueueKeepsEntries DEF Untouched
<1>2. TypeOK'
  BY <1>1 DEF IInv, TypeOK, Queue
<1>3. ColdQueue' /\ AtOperation'
  BY <1>1 DEF IInv, ColdQueue, AtOperation
<1>4. NotYetQueued'
  <2>1. ASSUME NEW x \in Ops, origin'[x] = None \/ x \in asking'
        PROVE  Untouched(x)'
    <3>1. x # o /\ Untouched(x)
      BY <2>1 DEF IInv, NotYetQueued
    <3> QED
      BY <1>1, <3>1 DEF Untouched
  <2>2. \A x \in Ops : origin'[x] = None => x \notin asking'
    BY DEF IInv, NotYetQueued
  <2> QED
    BY <2>1, <2>2 DEF NotYetQueued
<1>5. BurstOwner'
  <2>1. \A x \in Ops : InHand(x) => hydrated /\ x # o
    BY DEF IInv, ColdQueue, InHand, Untouched
  <2>2. \A x \in Ops : InHand(x)' <=> InHand(x)
    BY DEF InHand
  <2> QED
    BY <1>1, <2>1, <2>2 DEF IInv, BurstOwner
<1>6. SendingOwned'
  BY <1>1, OutboxAssumption DEF IInv, SendingOwned
<1> QED
  BY <1>1, <1>2, <1>3, <1>4, <1>5, <1>6 DEF IInv

LEMMA InitEstablishes == Init => IInv
<1> SUFFICES ASSUME Init PROVE IInv
  OBVIOUS
<1>1. disk \in LegacyQueue
  BY DEF Init
<1>2. ASSUME NEW e \in [owner: Users, status: {"pending"}, attempts: {0},
                        waiting: {FALSE}]
      PROVE  e \in Entry
  <2>1. e = [owner |-> e.owner, status |-> "pending", attempts |-> 0,
             waiting |-> FALSE]
    OBVIOUS
  <2>2. e.owner \in Users
    OBVIOUS
  <2>3. e = Fresh(e.owner)
    BY <2>1 DEF Fresh
  <2> QED
    BY <2>2, <2>3, FreshIsEntry
<1>3. /\ disk \in [Ops -> Entry \cup {None}]
      /\ \A o \in Ops : disk[o] # None => disk[o].owner \in Users
  BY <1>1, <1>2 DEF LegacyQueue, Entry
<1>4. TypeOK
  BY <1>3, NoBurstType DEF Init, TypeOK, BurstType
<1>5. \A o \in Ops : origin[o] = None <=> disk[o] = None
  BY <1>3, OutboxAssumption DEF Init
<1> QED
  BY <1>4, <1>5 DEF Init, IInv, ColdQueue, AtOperation, NotYetQueued, Untouched,
     BurstOwner, InHand, NoLoss, SendingOwned, NoBurst

(* The facts of the invariant every action's proof starts from.            *)
LEMMA QueuedEntry ==
    ASSUME IInv, NEW o \in Ops, mem[o] # None
    PROVE  mem[o] \in Entry /\ hydrated
BY DEF IInv, TypeOK, ColdQueue

(* Loading the queue.                                                      *)
LEMMA HydratePreserves ==
    ASSUME IInv, Hydrate
    PROVE  IInv'
<1>1. /\ UNCHANGED <<auth, burst, asking, origin>>
      /\ ~hydrated /\ hydrated' /\ mem' = Load(disk) /\ disk' = disk
      /\ owed' = owed \cup {x \in Ops : mem'[x] # None /\ disk'[x] # None}
  BY DEF Hydrate, LetGo
<1>2. disk \in Queue
  BY DEF IInv, TypeOK, Queue
<1>3. /\ mem' \in Queue
      /\ \A x \in Ops : mem'[x] = None <=> disk[x] = None
      /\ \A x \in Ops : mem'[x] # None => mem'[x].status # "sending"
  BY <1>1, <1>2, LoadKeepsEntries
<1>4. \A x \in Ops : ~InHand(x)'
  BY <1>1 DEF IInv, ColdQueue, InHand
<1>5. NotYetQueued'
  BY <1>1, <1>3 DEF IInv, NotYetQueued, Untouched
<1>6. TypeOK'
  BY <1>1, <1>3 DEF IInv, TypeOK, Queue, auth
<1>7. ColdQueue' /\ AtOperation' /\ NoLoss' /\ SendingOwned' /\ BurstOwner'
  BY <1>1, <1>3, <1>4 DEF IInv, ColdQueue, AtOperation, NoLoss, SendingOwned,
     BurstOwner, TypeOK
<1> QED
  BY <1>5, <1>6, <1>7 DEF IInv

(* A step of the user's own or of the clock.                               *)
LEMMA UserStepPreserves ==
    ASSUME IInv, NEW o \in Ops,
           \/ EnqueueOffline(o) \/ AskOnline(o) \/ OnlineSettled(o) \/ Park(o)
           \/ RetryFailed(o) \/ Discard(o) \/ BackoffElapsed(o)
    PROVE  IInv'
<1>1. CASE EnqueueOffline(o)
  <2>1. user \in Users /\ origin \in [Ops -> Users \cup {None}] /\ asking \in SUBSET Keyed
    BY <1>1 DEF EnqueueOffline, IInv, TypeOK
  <2>2. Untouched(o) /\ o \notin asking
    BY <1>1 DEF EnqueueOffline, IInv, NotYetQueued
  <2> QED
    BY <1>1, <2>1, <2>2, EnqueuePreserves, OutboxAssumption DEF EnqueueOffline
<1>2. CASE AskOnline(o)
  <2>1. /\ user # None /\ origin[o] = None /\ o \in Keyed
        /\ origin' = [origin EXCEPT ![o] = user]
        /\ asking' = asking \cup {o}
        /\ UNCHANGED <<auth, mem, disk, hydrated, burst, owed>>
    BY <1>2 DEF AskOnline
  <2>2. TypeOK'
    BY <2>1 DEF IInv, TypeOK, auth
  <2>3. NotYetQueued'
    <3>1. \A x \in Ops : origin'[x] = None \/ x \in asking'
                           => origin[x] = None \/ x \in asking
      BY <2>1 DEF IInv, TypeOK
    <3>2. \A x \in Ops : Untouched(x) => Untouched(x)'
      BY <2>1 DEF Untouched
    <3>3. \A x \in Ops : origin'[x] = None => x \notin asking'
      BY <2>1 DEF IInv, NotYetQueued, TypeOK
    <3> QED
      BY <3>1, <3>2, <3>3 DEF IInv, NotYetQueued
  <2>4. ColdQueue' /\ AtOperation' /\ BurstOwner' /\ NoLoss' /\ SendingOwned'
    BY <2>1 DEF IInv, ColdQueue, AtOperation, BurstOwner, InHand, NoLoss,
       SendingOwned
  <2> QED
    BY <2>2, <2>3, <2>4 DEF IInv
<1>3. ASSUME asking' = asking \ {o},
             UNCHANGED <<auth, mem, disk, hydrated, burst, origin, owed>>
      PROVE  IInv'
  <2>1. TypeOK'
    BY <1>3 DEF IInv, TypeOK, auth
  <2>2. NotYetQueued'
    BY <1>3 DEF IInv, NotYetQueued, Untouched
  <2>3. ColdQueue' /\ AtOperation' /\ BurstOwner' /\ NoLoss' /\ SendingOwned'
    BY <1>3 DEF IInv, ColdQueue, AtOperation, BurstOwner, InHand, NoLoss,
       SendingOwned
  <2> QED
    BY <2>1, <2>2, <2>3 DEF IInv
<1>4. CASE OnlineSettled(o)
  BY <1>3, <1>4 DEF OnlineSettled
<1>5. CASE Park(o) /\ user = None
  BY <1>3, <1>5 DEF Park
<1>6. CASE Park(o) /\ user # None
  <2>1. user \in Users /\ o \in asking /\ origin \in [Ops -> Users \cup {None}]
    BY <1>6 DEF Park, IInv, TypeOK
  <2>2. Untouched(o) /\ origin[o] # None
    BY <2>1 DEF IInv, NotYetQueued
  <2> QED
    BY <1>6, <2>1, <2>2, EnqueuePreserves DEF Park
<1>7. \A x \in Ops : mem[x] # None /\ mem[x].status = "sending" =>
         burst.phase \in {"gate", "post"} /\ burst.cur = x
  BY DEF IInv, SendingOwned
<1>8. CASE RetryFailed(o)
  <2>1. mem[o] # None /\ UNCHANGED <<auth, hydrated, burst, asking, origin>>
    BY <1>8 DEF RetryFailed, Unresolved
  <2>2. mem[o] \in Entry /\ hydrated
    BY <2>1, QueuedEntry
  <2>3. mem[o].owner \in Users
    BY <2>2 DEF Entry
  <2>4. Narrowed
    BY <2>1 DEF Narrowed, IInv, TypeOK, BurstType, AtOperation, InHand
  <2> QED
    BY <1>7, <1>8, <2>1, <2>2, <2>3, <2>4, FreshIsEntry, MutatePreserves
    DEF RetryFailed
<1>9. CASE Discard(o)
  <2>1. mem[o] # None /\ UNCHANGED <<auth, hydrated, burst, asking, origin>>
    BY <1>9 DEF Discard, Unresolved
  <2>2. hydrated
    BY <2>1, QueuedEntry
  <2>3. Narrowed
    BY <2>1 DEF Narrowed, IInv, TypeOK, BurstType, AtOperation, InHand
  <2> QED
    BY <1>7, <1>9, <2>1, <2>2, <2>3, RemovePreserves DEF Discard
<1>10. CASE BackoffElapsed(o)
  <2> DEFINE due(q) == IF q[o] = None THEN q
                       ELSE [q EXCEPT ![o].waiting = FALSE]
  <2>1. /\ mem' = due(mem) /\ disk' = due(disk)
        /\ UNCHANGED <<auth, hydrated, burst, asking, origin, owed>>
    BY <1>10 DEF BackoffElapsed
  <2>2. ASSUME NEW q \in Queue
        PROVE  /\ due(q) \in Queue
               /\ \A x \in Ops : due(q)[x] = None <=> q[x] = None
               /\ \A x \in Ops : q[x] # None =>
                     /\ due(q)[x].owner = q[x].owner
                     /\ due(q)[x].status = q[x].status
    <3>1. CASE q[o] = None
      BY <3>1
    <3>2. CASE q[o] # None
      <4>1. q[o] \in Entry
        BY <3>2 DEF Queue
      <4>2. /\ [q[o] EXCEPT !.waiting = FALSE] \in Entry
            /\ [q[o] EXCEPT !.waiting = FALSE].owner = q[o].owner
            /\ [q[o] EXCEPT !.waiting = FALSE].status = q[o].status
        BY <4>1 DEF Entry
      <4>3. due(q) = [q EXCEPT ![o] = [q[o] EXCEPT !.waiting = FALSE]]
        BY <3>2
      <4>4. [q[o] EXCEPT !.waiting = FALSE] # None
        BY <4>2, OutboxAssumption
      <4> HIDE DEF due
      <4> QED
        BY <3>2, <4>2, <4>3, <4>4 DEF Queue
    <3> QED
      BY <3>1, <3>2
  <2> HIDE DEF due
  <2>3. mem \in Queue /\ disk \in Queue
    BY DEF IInv, TypeOK, Queue
  <2>4. /\ mem' \in Queue /\ disk' \in Queue
        /\ \A x \in Ops : mem'[x] = None <=> mem[x] = None
        /\ \A x \in Ops : disk'[x] = None <=> disk[x] = None
        /\ \A x \in Ops : mem[x] # None => /\ mem'[x].owner = mem[x].owner
                                           /\ mem'[x].status = mem[x].status
    BY <2>1, <2>2, <2>3
  <2>5. TypeOK'
    BY <2>1, <2>4 DEF IInv, TypeOK, Queue, auth
  <2>6. NotYetQueued'
    BY <2>1, <2>4 DEF IInv, NotYetQueued, Untouched
  <2>7. ColdQueue' /\ AtOperation' /\ NoLoss' /\ SendingOwned'
    BY <2>1, <2>4 DEF IInv, ColdQueue, AtOperation, NoLoss, SendingOwned, TypeOK
  <2>8. BurstOwner'
    BY <2>1, <2>4 DEF IInv, BurstOwner, InHand
  <2> QED
    BY <2>5, <2>6, <2>7, <2>8 DEF IInv
<1> QED
  BY <1>1, <1>2, <1>4, <1>5, <1>6, <1>8, <1>9, <1>10

(* The worker's record stays well-formed under the updates it makes.       *)
LEMMA BurstUpdates ==
    ASSUME burst \in BurstType
    PROVE  /\ \A o \in Ops : [burst EXCEPT !.todo = @ \ {o}] \in BurstType
           /\ \A o \in Ops : [burst EXCEPT !.todo = @ \ {o}, !.cur = o,
                                           !.phase = "gate"] \in BurstType
           /\ [burst EXCEPT !.phase = "post"] \in BurstType
           /\ [burst EXCEPT !.phase = "loop", !.cur = None] \in BurstType
           /\ [burst EXCEPT !.stale = TRUE] \in BurstType
BY DEF BurstType

(* A retryable failure keeps the entry's owner and ends SENDING            *)
(* (markRetryableFailure).                                                 *)
LEMMA RetriedIsEntry ==
    ASSUME NEW e \in Entry
    PROVE  /\ Retried(e) \in Entry
           /\ Retried(e).owner = e.owner
           /\ Retried(e).status # "sending"
<1>1. e.attempts + 1 \in Nat
  BY DEF Entry
<1>2. CASE e.attempts + 1 >= MaxRetryAttempts
  <2>1. Retried(e) = [e EXCEPT !.status = "failedPermanent",
                               !.attempts = @ + 1, !.waiting = FALSE]
    BY <1>2 DEF Retried
  <2> QED
    BY <1>1, <2>1 DEF Entry
<1>3. CASE ~(e.attempts + 1 >= MaxRetryAttempts)
  <2>1. Retried(e) = [e EXCEPT !.status = "pending",
                               !.attempts = @ + 1, !.waiting = TRUE]
    BY <1>3 DEF Retried
  <2> QED
    BY <1>1, <2>1 DEF Entry
<1> QED
  BY <1>2, <1>3

(* A step of the sync worker.                                              *)
LEMMA WorkerStepPreserves ==
    ASSUME IInv,
           \/ Dispatch \/ ReleaseAborted \/ ConfirmSent \/ RetryLater \/ GiveUp
           \/ EndBurst \/ \E o \in Ops : Skip(o) \/ MarkSending(o)
           \/ \E waived \in SUBSET Legacy : StartBurst(waived)
    PROVE  IInv'
<1>1. burst \in BurstType /\ AtOperation
  BY DEF IInv, TypeOK, BurstType
<1>2. \A x \in Ops : mem[x] # None /\ mem[x].status = "sending" =>
         burst.phase \in {"gate", "post"} /\ burst.cur = x
  BY DEF IInv, SendingOwned
<1>3. /\ user \in Users \cup {None}
      /\ leaving \in [who: Users, discard: BOOLEAN] \cup {None}
  BY DEF IInv, TypeOK
<1>4. CASE Dispatch
  <2>1. /\ burst.phase = "gate" /\ burst' = [burst EXCEPT !.phase = "post"]
        /\ UNCHANGED <<auth, mem, disk, hydrated, asking, origin, owed>>
    BY <1>4 DEF Dispatch
  <2>2. burst'.phase = "post" /\ burst'.cur = burst.cur /\ burst'.todo = burst.todo
        /\ burst'.who = burst.who
    BY <1>1, <2>1 DEF BurstType
  <2>3. Narrowed
    BY <1>1, <2>1, <2>2, BurstUpdates DEF Narrowed, AtOperation, InHand
  <2> QED
    BY <1>2, <1>3, <2>1, <2>2, <2>3, QueueUntouchedPreserves DEF auth
<1>5. ASSUME burst' = NoBurst PROVE Narrowed
  BY <1>5, NoBurstType DEF Narrowed, NoBurst, AtOperation, InHand
<1>6. CASE ReleaseAborted
  <2>1. burst.phase = "gate" /\ burst' = NoBurst /\ burst.cur \in Ops
    BY <1>1, <1>6 DEF ReleaseAborted, AtOperation
  <2>2. hydrated
    BY <2>1 DEF IInv, ColdQueue
  <2>3. Narrowed
    BY <1>5, <2>1
  <2>4. ASSUME mem[burst.cur] # None
        PROVE  /\ [mem[burst.cur] EXCEPT !.status = "pending"] \in Entry
               /\ [mem[burst.cur] EXCEPT !.status = "pending"].owner = mem[burst.cur].owner
               /\ [mem[burst.cur] EXCEPT !.status = "pending"].status = "pending"
    BY <2>1, <2>4, QueuedEntry DEF Entry
  <2>5. /\ UNCHANGED <<auth, hydrated, asking, origin>>
        /\ Mutate(burst.cur, [mem[burst.cur] EXCEPT !.status = "pending"])
    BY <1>6 DEF ReleaseAborted
  <2> QED
    BY <1>2, <2>1, <2>2, <2>3, <2>4, <2>5, MutatePreserves
<1>7. ASSUME burst.phase = "post", NextVisit
      PROVE  Narrowed /\ hydrated /\ burst.cur \in Ops
  <2>1. /\ burst'.phase = "loop" /\ burst'.todo = burst.todo
        /\ burst'.who = burst.who /\ burst' \in BurstType
    BY <1>1, <1>7, BurstUpdates DEF NextVisit, BurstType
  <2>2. hydrated /\ burst.cur \in Ops
    BY <1>7 DEF IInv, ColdQueue, AtOperation
  <2> QED
    BY <2>1, <2>2 DEF Narrowed, AtOperation, InHand
<1>8. CASE ConfirmSent
  <2>1. /\ burst.phase = "post" /\ NextVisit /\ Remove(burst.cur)
        /\ UNCHANGED <<auth, hydrated, asking, origin>>
    BY <1>8 DEF ConfirmSent
  <2> QED
    BY <1>2, <1>7, <2>1, RemovePreserves
<1>9. CASE RetryLater
  <2>1. /\ burst.phase = "post" /\ NextVisit
        /\ Mutate(burst.cur, Retried(mem[burst.cur]))
        /\ UNCHANGED <<auth, hydrated, asking, origin>>
    BY <1>9 DEF RetryLater
  <2>2. ASSUME mem[burst.cur] # None
        PROVE  /\ Retried(mem[burst.cur]) \in Entry
               /\ Retried(mem[burst.cur]).owner = mem[burst.cur].owner
               /\ Retried(mem[burst.cur]).status # "sending"
    BY <1>7, <2>1, <2>2, QueuedEntry, RetriedIsEntry
  <2> QED
    BY <1>2, <1>7, <2>1, <2>2, MutatePreserves
<1>10. CASE GiveUp
  <2>1. /\ burst.phase = "post" /\ NextVisit
        /\ Mutate(burst.cur, [mem[burst.cur] EXCEPT !.status = "failedPermanent"])
        /\ UNCHANGED <<auth, hydrated, asking, origin>>
    BY <1>10 DEF GiveUp
  <2>2. ASSUME mem[burst.cur] # None
        PROVE  /\ [mem[burst.cur] EXCEPT !.status = "failedPermanent"] \in Entry
               /\ [mem[burst.cur] EXCEPT !.status = "failedPermanent"].owner
                    = mem[burst.cur].owner
               /\ [mem[burst.cur] EXCEPT !.status = "failedPermanent"].status
                    = "failedPermanent"
    BY <1>7, <2>1, <2>2, QueuedEntry DEF Entry
  <2> QED
    BY <1>2, <1>7, <2>1, <2>2, MutatePreserves
<1>11. CASE EndBurst
  <2>1. /\ burst.phase = "loop" /\ burst' = NoBurst
        /\ UNCHANGED <<auth, mem, disk, hydrated, asking, origin, owed>>
    BY <1>11 DEF EndBurst
  <2> QED
    BY <1>2, <1>3, <1>5, <2>1, QueueUntouchedPreserves DEF auth
<1>12. ASSUME NEW o \in Ops, Skip(o) PROVE IInv'
  <2>1. /\ burst.phase = "loop" /\ burst' = [burst EXCEPT !.todo = @ \ {o}]
        /\ UNCHANGED <<auth, mem, disk, hydrated, asking, origin, owed>>
    BY <1>12 DEF Skip
  <2>2. /\ burst'.phase = "loop" /\ burst'.todo = burst.todo \ {o}
        /\ burst'.who = burst.who
    BY <1>1, <2>1 DEF BurstType
  <2>3. Narrowed
    BY <1>1, <2>1, <2>2, BurstUpdates DEF Narrowed, AtOperation, InHand
  <2> QED
    BY <1>2, <1>3, <2>1, <2>3, QueueUntouchedPreserves DEF auth
<1>13. ASSUME NEW o \in Ops, MarkSending(o) PROVE IInv'
  <2>1. /\ burst.phase = "loop" /\ o \in burst.todo
        /\ burst' = [burst EXCEPT !.todo = @ \ {o}, !.cur = o, !.phase = "gate"]
        /\ Mutate(o, [mem[o] EXCEPT !.status = "sending"])
        /\ UNCHANGED <<auth, hydrated, asking, origin>>
    BY <1>13 DEF MarkSending
  <2>2. /\ burst'.phase = "gate" /\ burst'.cur = o
        /\ burst'.todo = burst.todo \ {o} /\ burst'.who = burst.who
    BY <1>1, <2>1 DEF BurstType
  <2>3. Narrowed
    BY <1>1, <2>1, <2>2, BurstUpdates DEF Narrowed, AtOperation, InHand
  <2>4. hydrated
    BY <2>1 DEF IInv, ColdQueue
  <2>5. ASSUME mem[o] # None
        PROVE  /\ [mem[o] EXCEPT !.status = "sending"] \in Entry
               /\ [mem[o] EXCEPT !.status = "sending"].owner = mem[o].owner
    BY <2>5, QueuedEntry DEF Entry
  <2> QED
    BY <1>2, <2>1, <2>2, <2>3, <2>4, <2>5, MutatePreserves
<1>14. ASSUME NEW waived \in SUBSET Legacy, StartBurst(waived) PROVE IInv'
  <2> DEFINE todo == {o \in Ops : /\ mem[o] # None /\ mem[o].owner = user
                                  /\ mem[o].status = "pending"}
  <2>1. /\ burst.phase = "idle" /\ user # None
        /\ burst' = [NoBurst EXCEPT !.phase = "loop", !.who = user,
                                    !.waived = waived, !.todo = todo]
        /\ UNCHANGED <<auth, mem, disk, hydrated, asking, origin, owed>>
    BY <1>14 DEF StartBurst, Unresolved
  <2>2. /\ burst' \in BurstType /\ burst'.phase = "loop"
        /\ burst'.who = user /\ burst'.todo = todo
    BY <1>3, <2>1 DEF NoBurst, BurstType
  <2>3. /\ \A x \in Ops : mem[x] # None => mem[x].status # "sending"
        /\ \A x \in Ops : x \in todo => hydrated
    BY <1>2, <2>1, QueuedEntry
  <2>4. TypeOK'
    BY <2>1, <2>2 DEF IInv, TypeOK, BurstType, auth
  <2>5. ColdQueue' /\ AtOperation'
    BY <2>1, <2>2, <2>3 DEF IInv, ColdQueue, AtOperation
  <2>6. NotYetQueued'
    BY <2>1, <2>2 DEF IInv, NotYetQueued, Untouched
  <2>7. BurstOwner'
    BY <2>1, <2>2 DEF BurstOwner, InHand
  <2>8. NoLoss' /\ SendingOwned'
    BY <2>1, <2>3 DEF IInv, NoLoss, SendingOwned
  <2> QED
    BY <2>4, <2>5, <2>6, <2>7, <2>8 DEF IInv
<1> QED
  BY <1>4, <1>6, <1>8, <1>9, <1>10, <1>11, <1>12, <1>13, <1>14

(* A change of the auth epoch only marks a running burst stale.            *)
LEMMA EpochKeepsBurst ==
    ASSUME burst \in BurstType, AtOperation, MoveEpoch
    PROVE  /\ Narrowed
           /\ burst'.phase = burst.phase /\ burst'.cur = burst.cur
           /\ burst'.todo = burst.todo /\ burst'.who = burst.who
<1>1. /\ burst' \in BurstType
      /\ burst'.phase = burst.phase /\ burst'.cur = burst.cur
      /\ burst'.todo = burst.todo /\ burst'.who = burst.who
  BY BurstUpdates DEF MoveEpoch, BurstType
<1> QED
  BY <1>1 DEF Narrowed, AtOperation, InHand

(* The clean-up of a sign-out drops entries and keeps the others as they   *)
(* are.                                                                    *)
LEMMA CleanupPreserves ==
    ASSUME IInv, CleanupForLogout
    PROVE  IInv'
<1> DEFINE kept == IF leaving.discard THEN {} ELSE Unresolved(mem, leaving.who)
           q == [o \in Ops |-> IF o \in kept THEN mem[o] ELSE None]
<1>1. /\ leaving' = None /\ hydrated /\ MoveEpoch
      /\ UNCHANGED <<user, hydrated, asking, origin>>
      /\ mem' = q /\ (disk' = q \/ disk' = disk)
      /\ owed' = (owed \ ({o \in Ops : mem[o] # None} \ kept))
                   \cup {o \in Ops : mem'[o] # None /\ disk'[o] # None}
  BY DEF CleanupForLogout, Save, LetGo
<1>2. /\ mem \in Queue /\ disk \in Queue /\ owed \in SUBSET Ops
      /\ burst \in BurstType /\ AtOperation
  BY DEF IInv, TypeOK, Queue, BurstType
<1>3. /\ q \in Queue
      /\ \A x \in Ops : q[x] # None => q[x] = mem[x]
      /\ \A x \in Ops : x \in kept => q[x] = mem[x]
  BY <1>2 DEF Queue
<1> HIDE DEF kept, q
<1>4. /\ Narrowed
      /\ burst'.phase = burst.phase /\ burst'.cur = burst.cur
      /\ burst'.todo = burst.todo /\ burst'.who = burst.who
  BY <1>1, <1>2, EpochKeepsBurst
<1>5. TypeOK'
  BY <1>1, <1>2, <1>3, <1>4 DEF IInv, TypeOK, Queue, Narrowed, BurstType
<1>6. ColdQueue' /\ AtOperation'
  BY <1>1, <1>2, <1>4 DEF ColdQueue, AtOperation
<1>7. NotYetQueued'
  <2>1. ASSUME NEW x \in Ops, Untouched(x) PROVE Untouched(x)'
    BY <1>1, <1>3, <1>4, <2>1 DEF Untouched
  <2> QED
    BY <1>1, <2>1 DEF IInv, NotYetQueued
<1>8. BurstOwner' /\ SendingOwned'
  BY <1>1, <1>3, <1>4 DEF IInv, BurstOwner, InHand, SendingOwned
<1>9. NoLoss'
  <2>1. ASSUME NEW x \in owed' PROVE disk'[x] # None /\ mem'[x] # None
    <3>1. CASE mem'[x] # None /\ disk'[x] # None
      BY <3>1
    <3>2. CASE x \in owed /\ x \notin {o \in Ops : mem[o] # None} \ kept
      <4>1. mem[x] # None /\ disk[x] # None /\ x \in Ops
        BY <1>1, <1>2, <3>2 DEF IInv, NoLoss
      <4> QED
        BY <1>1, <1>3, <3>2, <4>1
    <3> QED
      BY <1>1, <2>1, <3>1, <3>2
  <2> QED
    BY <2>1 DEF NoLoss
<1> QED
  BY <1>5, <1>6, <1>7, <1>8, <1>9 DEF IInv

(* A sign-in, a sign-out and the death of the process.                     *)
LEMMA SessionStepPreserves ==
    ASSUME IInv,
           \/ \E u \in Users : SignIn(u)
           \/ \E b \in BOOLEAN : SignOut(b)
           \/ Crash
    PROVE  IInv'
<1>1. /\ burst \in BurstType /\ AtOperation
      /\ user \in Users \cup {None}
      /\ leaving \in [who: Users, discard: BOOLEAN] \cup {None}
  BY DEF IInv, TypeOK, BurstType
<1>2. \A x \in Ops : mem[x] # None /\ mem[x].status = "sending" =>
         burst.phase \in {"gate", "post"} /\ burst.cur = x
  BY DEF IInv, SendingOwned
<1>3. ASSUME NEW u \in Users, SignIn(u) PROVE IInv'
  <2>1. /\ user' = u /\ MoveEpoch
        /\ UNCHANGED <<leaving, mem, disk, hydrated, asking, origin, owed>>
    BY <1>3 DEF SignIn
  <2> QED
    BY <1>1, <1>2, <2>1, EpochKeepsBurst, QueueUntouchedPreserves
<1>4. ASSUME NEW b \in BOOLEAN, SignOut(b) PROVE IInv'
  <2>1. /\ user # None /\ user' = None /\ MoveEpoch
        /\ leaving' = [who |-> user, discard |-> b]
        /\ UNCHANGED <<mem, disk, hydrated, asking, origin, owed>>
    BY <1>4 DEF SignOut
  <2> QED
    BY <1>1, <1>2, <2>1, EpochKeepsBurst, QueueUntouchedPreserves
<1>5. CASE Crash
  <2>1. /\ user' = None /\ leaving' = None
        /\ mem' = [o \in Ops |-> None] /\ hydrated' = FALSE
        /\ burst' = NoBurst /\ asking' = {}
        /\ UNCHANGED <<disk, origin, owed>>
    BY <1>5 DEF Crash
  <2>2. TypeOK'
    BY <2>1, NoBurstType DEF IInv, TypeOK, BurstType
  <2>3. ColdQueue' /\ AtOperation' /\ BurstOwner' /\ SendingOwned'
    BY <2>1 DEF ColdQueue, AtOperation, BurstOwner, SendingOwned, NoBurst
  <2>4. NotYetQueued'
    BY <2>1 DEF IInv, NotYetQueued, Untouched, NoBurst
  <2>5. NoLoss'
    BY <2>1 DEF IInv, NoLoss
  <2> QED
    BY <2>2, <2>3, <2>4, <2>5 DEF IInv
<1> QED
  BY <1>3, <1>4, <1>5

LEMMA StepPreserves == IInv /\ [Next]_vars => IInv'
<1> SUFFICES ASSUME IInv, [Next]_vars PROVE IInv'
  OBVIOUS
<1>1. CASE UNCHANGED vars
  BY <1>1 DEF vars, IInv, TypeOK, ColdQueue, AtOperation, NotYetQueued,
     Untouched, BurstOwner, InHand, NoLoss, SendingOwned
<1>2. CASE CleanupForLogout
  BY <1>2, CleanupPreserves
<1>3. CASE \/ Crash
           \/ \E u \in Users : SignIn(u)
           \/ \E b \in BOOLEAN : SignOut(b)
  BY <1>3, SessionStepPreserves
<1>4. CASE \/ Dispatch \/ ReleaseAborted \/ ConfirmSent \/ RetryLater \/ GiveUp
           \/ EndBurst \/ \E o \in Ops : Skip(o) \/ MarkSending(o)
           \/ \E waived \in SUBSET Legacy : StartBurst(waived)
  BY <1>4, WorkerStepPreserves
<1>5. ASSUME NEW o \in Ops,
             \/ EnqueueOffline(o) \/ AskOnline(o) \/ OnlineSettled(o) \/ Park(o)
             \/ RetryFailed(o) \/ Discard(o) \/ BackoffElapsed(o)
      PROVE  IInv'
  BY <1>5, UserStepPreserves
<1>6. CASE Hydrate
  BY <1>6, HydratePreserves
<1> QED
  BY <1>1, <1>2, <1>3, <1>4, <1>5, <1>6 DEF Next

-----------------------------------------------------------------------------
(* The results.                                                            *)

(* IInv is an inductive invariant of the outbox.                           *)
THEOREM Invariance == Spec => []IInv
<1>1. Init => IInv
  BY InitEstablishes
<1>2. IInv /\ [Next]_vars => IInv'
  BY StepPreserves
<1> QED
  BY <1>1, <1>2, PTL DEF Spec

(* Every state of the queue, the store, the worker and the sign-out is     *)
(* well-formed (OutboxOperation, OutboxState, OutboxSyncService).          *)
THEOREM TypeCorrect == Spec => []TypeOK
<1>1. IInv => TypeOK
  BY DEF IInv
<1> QED
  BY <1>1, Invariance, PTL

(* No stored operation is lost to a crash, a rejected write, a stale burst *)
(* or a mutation of a queue that is not loaded yet (hydrate, _mutate,      *)
(* cleanupForLogout).                                                      *)
THEOREM NothingLost == Spec => []NoLoss
<1>1. IInv => NoLoss
  BY DEF IInv
<1> QED
  BY <1>1, Invariance, PTL

(* No entry is stranded in SENDING outside the worker's hands (markSending *)
(* and the ways out of it).                                                *)
THEOREM NoneStranded == Spec => []SendingOwned
<1>1. IInv => SendingOwned
  BY DEF IInv
<1> QED
  BY <1>1, Invariance, PTL

(* The sync worker never dispatches an operation of another user than the  *)
(* one signed in at the last gate (_syncAllGuarded).                       *)
THEOREM DispatchesOwn == Spec => DispatchedByOwner
<1>1. ASSUME IInv, [Next]_vars, burst.phase = "gate", burst'.phase = "post",
             mem[burst.cur] # None
      PROVE  mem[burst.cur].owner = user
  <2>1. burst \in BurstType
    BY <1>1 DEF IInv, TypeOK, BurstType
  <2>2. Dispatch
    <3>1. MoveEpoch => burst'.phase = burst.phase
      BY <2>1, BurstUpdates DEF MoveEpoch, BurstType
    <3>2. \A waived \in SUBSET Legacy : StartBurst(waived) => burst.phase = "idle"
      BY DEF StartBurst
    <3>3. NoBurst.phase = "idle"
      BY DEF NoBurst
    <3>4. burst' # burst
      BY <1>1
    <3>5. ~(Crash \/ CleanupForLogout \/ (\E u \in Users : SignIn(u))
             \/ (\E b \in BOOLEAN : SignOut(b)))
      BY <1>1, <3>1, <3>3 DEF Crash, CleanupForLogout, SignIn, SignOut
    <3>6. ~Hydrate /\ ~\E o \in Ops :
             \/ EnqueueOffline(o) \/ AskOnline(o) \/ OnlineSettled(o) \/ Park(o)
             \/ RetryFailed(o) \/ Discard(o) \/ BackoffElapsed(o)
      BY <3>4 DEF Hydrate, EnqueueOffline, AskOnline, OnlineSettled, Park,
         RetryFailed, Discard, BackoffElapsed
    <3>7. ~(ReleaseAborted \/ ConfirmSent \/ RetryLater \/ GiveUp \/ EndBurst
             \/ \E o \in Ops : Skip(o) \/ MarkSending(o))
      BY <1>1, <3>3 DEF ReleaseAborted, ConfirmSent, RetryLater, GiveUp,
         EndBurst, Skip, MarkSending
    <3>8. ~UNCHANGED vars /\ ~\E waived \in SUBSET Legacy : StartBurst(waived)
      BY <1>1, <3>2, <3>4 DEF vars
    <3> QED
      BY <1>1, <3>5, <3>6, <3>7, <3>8 DEF Next
  <2>3. burst.cur \in Ops /\ InHand(burst.cur)
    BY <1>1 DEF IInv, AtOperation, InHand
  <2>4. mem[burst.cur].owner = burst.who
    BY <1>1, <2>3 DEF IInv, BurstOwner
  <2> QED
    BY <2>2, <2>4 DEF Dispatch, StillValid
<1>2. IInv /\ [Next]_vars =>
        [burst.phase = "gate" /\ burst'.phase = "post" /\ mem[burst.cur] # None
           => mem[burst.cur].owner = user]_vars
  BY <1>1
<1> QED
  BY <1>2, Invariance, PTL DEF Spec, DispatchedByOwner

-----------------------------------------------------------------------------
(* Delivery: the server and the credentials of OfflineDelivery.tla.        *)

(* Every step of the delivery is a step of the outbox or leaves it alone.  *)
LEMMA DeliveryStepIsOutboxStep == [DeliveryNext]_dvars => [Next]_vars
<1> SUFFICES ASSUME [DeliveryNext]_dvars PROVE [Next]_vars
  OBVIOUS
<1>1. CASE UNCHANGED dvars
  BY <1>1 DEF dvars
<1>2. CASE Local
  BY <1>2 DEF Local, Next
<1>3. CASE DispatchRequest \/ Confirmed \/ Retry \/ FailForGood
           \/ FinishSignOut \/ Die
  BY <1>3 DEF DispatchRequest, Confirmed, Retry, FailForGood, FinishSignOut, Die, Next
<1>4. ASSUME NEW o \in Ops, CallOnline(o) \/ SettleOnline(o) \/ ParkUncertain(o)
      PROVE  Next
  BY <1>4 DEF CallOnline, SettleOnline, ParkUncertain, Next
<1>5. ASSUME NEW waived \in SUBSET Legacy, StartPass(waived) PROVE Next
  BY <1>5 DEF StartPass, Next
<1>6. ASSUME NEW u \in Users, SignInWithTokens(u) PROVE Next
  BY <1>6 DEF SignInWithTokens, Next
<1>7. ASSUME NEW b \in BOOLEAN, BeginSignOut(b) PROVE Next
  BY <1>7 DEF BeginSignOut, Next
<1>8. CASE ClearTokens \/ (\E b \in BOOLEAN : RefreshSettled(b))
           \/ \E o \in Ops : \/ ServeWaiting(o) \/ Unauthorized(o)
                             \/ \E u \in Users : ServeLate(o, u)
                             \/ \E c \in Companies : ExpireRecord(o, c)
  BY <1>8 DEF ClearTokens, RefreshSettled, ServeWaiting, Unauthorized, ServeLate,
     ExpireRecord
<1> QED
  BY <1>1, <1>2, <1>3, <1>4, <1>5, <1>6, <1>7, <1>8 DEF DeliveryNext

(* The delivering outbox is an outbox: whatever Outbox.tla promises with a *)
(* server that gives any verdict holds with the backend behind it.         *)
THEOREM DeliveryImplementsOutbox == DeliverySpec => Spec
<1>1. DeliveryInit => Init
  BY DEF DeliveryInit
<1>2. [DeliveryNext]_dvars => [Next]_vars
  BY DeliveryStepIsOutboxStep
<1> QED
  BY <1>1, <1>2, PTL DEF DeliverySpec, Spec

(* A request that the backend may still have to process: unanswered, or    *)
(* held by the interceptor until the refresh settles.                      *)
Waiting(o) == wire[o] # None /\ wire[o].reply \in {None, "unauthorized"}

(* A press of Send anyway that has not led to a request yet.               *)
Undispatched(o) ==
    /\ o \in burst.waived
    /\ o \in burst.todo \/ (burst.phase = "gate" /\ burst.cur = o)

One(b) == IF b THEN 1 ELSE 0

(* What may still be executed for o, unless it is paid for once more.      *)
Pending(o) ==
    Cardinality(late[o]) + One(Waiting(o)) + One(Undispatched(o))

(* Every execution, past or still possible, is paid for by a press.        *)
PaidFor ==
    \A o \in Legacy, c \in Companies : count[o][c] + Pending(o) <= accepted[o]

(* The worker stands before an operation that is not in its list any more, *)
(* and before one without a durable identity only if that was waived.      *)
BurstFits ==
    burst.phase = "gate" =>
        /\ burst.cur \notin burst.todo
        /\ burst.cur \in Legacy => burst.cur \in burst.waived

(* The worker waits for a request that is on the wire.                     *)
PostWaits == burst.phase = "post" => wire[burst.cur] # None

(* A live record, and a success, mean that the operation has been applied, *)
(* a success in the company of the user who asked last; and a sale is      *)
(* never answered by an index.                                             *)
AnswerBehind(o, u, reply) ==
    /\ reply = "ok" => u \in Users /\ count[o][CompanyOf[u]] > 0
    /\ reply = "unique" => o \notin Sales

AppliedBehind ==
    /\ \A o \in Ops, c \in Companies : record[o][c] # None => count[o][c] > 0
    /\ \A o \in Ops : wire[o] # None /\ wire[o].reply \in Confirming
                        => AnswerBehind(o, wire[o].by, wire[o].reply)

LateFinite == \A o \in Ops : IsFiniteSet(late[o])

DInv ==
    /\ IInv /\ DeliveryTypeOK /\ LateFinite /\ BurstFits /\ PostWaits
    /\ AppliedBehind /\ PaidFor

-----------------------------------------------------------------------------
(* What a step of the outbox makes of the worker's list.                   *)

(* No press is spent, none is added, and the worker does not begin to wait *)
(* for another request.                                                    *)
ListShrinks ==
    /\ \A o \in Ops : Undispatched(o)' => Undispatched(o)
    /\ BurstFits'
    /\ burst'.phase = "post" => burst.phase = "post" /\ burst'.cur = burst.cur

LEMMA UnchangedBurst ==
    ASSUME BurstFits, burst' = burst
    PROVE  ListShrinks
BY DEF ListShrinks, BurstFits, Undispatched

LEMMA EndedBurst ==
    ASSUME burst' = NoBurst
    PROVE  ListShrinks
BY DEF ListShrinks, BurstFits, Undispatched, NoBurst

LEMMA EpochShrinks ==
    ASSUME BurstFits, burst \in BurstType, MoveEpoch
    PROVE  ListShrinks
<1>1. /\ burst'.phase = burst.phase /\ burst'.cur = burst.cur
      /\ burst'.todo = burst.todo /\ burst'.waived = burst.waived
  BY DEF MoveEpoch, BurstType
<1> QED
  BY <1>1 DEF ListShrinks, BurstFits, Undispatched

LEMMA NextVisitShrinks ==
    ASSUME burst \in BurstType, burst.phase = "post", NextVisit
    PROVE  ListShrinks /\ burst'.phase = "loop"
<1>1. /\ burst'.phase = "loop" /\ burst'.todo = burst.todo
      /\ burst'.waived = burst.waived
  BY DEF NextVisit, BurstType
<1> QED
  BY <1>1 DEF ListShrinks, BurstFits, Undispatched

LEMMA LocalShrinks ==
    ASSUME IInv, BurstFits, Local
    PROVE  ListShrinks
<1>1. burst \in BurstType
  BY DEF IInv, TypeOK, BurstType
<1>2. CASE Hydrate
  BY <1>2, UnchangedBurst DEF Hydrate
<1>3. CASE ReleaseAborted \/ EndBurst
  BY <1>3, EndedBurst DEF ReleaseAborted, EndBurst
<1>4. ASSUME NEW o \in Ops, EnqueueOffline(o) \/ RetryFailed(o) \/ Discard(o)
                            \/ BackoffElapsed(o)
      PROVE  ListShrinks
  BY <1>4, UnchangedBurst DEF EnqueueOffline, RetryFailed, Discard, BackoffElapsed
<1>5. ASSUME NEW o \in Ops, Skip(o) PROVE ListShrinks
  <2>1. /\ burst'.phase = "loop" /\ burst'.todo = burst.todo \ {o}
        /\ burst'.waived = burst.waived
    BY <1>1, <1>5 DEF Skip, BurstType
  <2> QED
    BY <2>1 DEF ListShrinks, BurstFits, Undispatched
<1>6. ASSUME NEW o \in Ops, MarkSending(o) PROVE ListShrinks
  <2>1. /\ burst'.phase = "gate" /\ burst'.todo = burst.todo \ {o}
        /\ burst'.waived = burst.waived /\ burst'.cur = o
    BY <1>1, <1>6 DEF MarkSending, BurstType
  <2>2. o \in burst.todo /\ (o \in Legacy => o \in burst.waived)
    BY <1>6 DEF MarkSending, Blocked
  <2> QED
    BY <2>1, <2>2 DEF ListShrinks, BurstFits, Undispatched
<1> QED
  BY <1>2, <1>3, <1>4, <1>5, <1>6 DEF Local

-----------------------------------------------------------------------------
(* The arithmetic of what is pending.                                      *)

LEMMA OneIsSmall == \A b \in BOOLEAN : One(b) \in {0, 1} /\ (b <=> One(b) = 1)
BY DEF One

LEMMA PendingTypes ==
    ASSUME DeliveryTypeOK, LateFinite, NEW o \in Ops
    PROVE  /\ Cardinality(late[o]) \in Nat
           /\ One(Waiting(o)) \in {0, 1}
           /\ One(Undispatched(o)) \in {0, 1}
           /\ Pending(o) \in Nat
<1>1. Cardinality(late[o]) \in Nat
  BY FS_CardinalityType DEF LateFinite
<1>2. One(Waiting(o)) \in {0, 1} /\ One(Undispatched(o)) \in {0, 1}
  BY DEF One
<1> QED
  BY <1>1, <1>2 DEF Pending

LEMMA PendingNextType ==
    ASSUME LateFinite', NEW o \in Ops
    PROVE  Pending(o)' \in Nat
<1>1. Cardinality(late'[o]) \in Nat
  BY FS_CardinalityType DEF LateFinite
<1>2. One(Waiting(o))' \in {0, 1} /\ One(Undispatched(o))' \in {0, 1}
  BY DEF One
<1> QED
  BY <1>1, <1>2 DEF Pending

LEMMA CountTypes ==
    ASSUME DeliveryTypeOK, NEW o \in Ops
    PROVE  /\ accepted[o] \in Nat
           /\ \A c \in Companies : count[o][c] \in Nat
           /\ \A u \in Users : CompanyOf[u] \in Companies
BY DeliveryAssumption DEF DeliveryTypeOK

(* Fewer requests and presses leave less pending.                          *)
LEMMA PendingShrinks ==
    ASSUME DeliveryTypeOK, LateFinite, NEW o \in Ops,
           late'[o] = late[o],
           Waiting(o)' => Waiting(o),
           Undispatched(o)' => Undispatched(o)
    PROVE  Pending(o)' <= Pending(o)
<1>1. /\ One(Waiting(o))' \in {0, 1} /\ One(Undispatched(o))' \in {0, 1}
      /\ One(Waiting(o))' <= One(Waiting(o))
      /\ One(Undispatched(o))' <= One(Undispatched(o))
  BY DEF One
<1> QED
  BY <1>1, PendingTypes DEF Pending

(* A step of the client or of the session, which leaves the server alone.  *)
LEMMA ClientStep ==
    ASSUME DInv, IInv', DeliveryTypeOK', LateFinite', BurstFits', PostWaits',
           UNCHANGED server,
           \A o \in Ops : wire'[o] # None /\ wire'[o].reply \in Confirming
                            => wire'[o] = wire[o],
           \A o \in Legacy : /\ accepted'[o] \in Nat
                             /\ Pending(o)' - accepted'[o] <= Pending(o) - accepted[o]
    PROVE  DInv'
<1>1. AppliedBehind'
  <2>1. ASSUME NEW o \in Ops, (wire[o] # None /\ wire[o].reply \in Confirming)'
        PROVE  AnswerBehind(o, wire[o].by, wire[o].reply)'
    BY <2>1 DEF DInv, AppliedBehind, AnswerBehind, server
  <2> QED
    BY <2>1 DEF DInv, AppliedBehind, server
<1>2. PaidFor'
  <2>1. ASSUME NEW o \in Legacy, NEW c \in Companies
        PROVE  (count[o][c] + Pending(o) <= accepted[o])'
    <3>1. o \in Ops
      BY DEF Ops
    <3>2. /\ count[o][c] \in Nat /\ accepted[o] \in Nat /\ accepted'[o] \in Nat
          /\ Pending(o) \in Nat /\ count'[o][c] = count[o][c]
      BY <3>1, CountTypes, PendingTypes DEF DInv, server
    <3>3. Pending(o)' \in Nat
      BY <3>1, PendingNextType
    <3> QED
      BY <3>2, <3>3 DEF DInv, PaidFor
  <2> QED
    BY <2>1 DEF PaidFor
<1> QED
  BY <1>1, <1>2 DEF DInv

-----------------------------------------------------------------------------
(* The backend.                                                            *)

(* One request for o processed for u, whatever the answer: the effect is   *)
(* added at most once, and stands behind every record and success.         *)
LEMMA ProcessedOnce ==
    ASSUME DInv, NEW o \in Ops, NEW u \in Users, NEW reply \in Replies,
           Process(o, u, reply)
    PROVE  /\ record' \in [Ops -> [Companies -> Users \cup {None}]]
           /\ count' \in [Ops -> [Companies -> Nat]]
           /\ \A x \in Ops, c \in Companies : count'[x][c] >= count[x][c]
           /\ \A x \in Ops \ {o}, c \in Companies : count'[x][c] = count[x][c]
           /\ \A c \in Companies : count'[o][c] <= count[o][c] + 1
           /\ \A x \in Ops, c \in Companies : record'[x][c] # None => count'[x][c] > 0
           /\ AnswerBehind(o, u, reply)'
           /\ reply \in Replies \ {"unauthorized"}
<1> DEFINE k == CompanyOf[u]
<1>1. /\ k \in Companies /\ count \in [Ops -> [Companies -> Nat]]
      /\ record \in [Ops -> [Companies -> Users \cup {None}]]
      /\ count[o] \in [Companies -> Nat]
  BY DeliveryAssumption DEF DInv, DeliveryTypeOK
<1>2. \A x \in Ops, c \in Companies : record[x][c] # None => count[x][c] > 0
  BY DEF DInv, AppliedBehind
<1>3. CASE Apply(o, u, reply)
  <2>1. /\ reply = "ok"
        /\ count' = [count EXCEPT ![o][k] = @ + 1]
        /\ record' = record \/ record' = [record EXCEPT ![o][k] = u]
    BY <1>3 DEF Apply
  <2>2. /\ \A x \in Ops \ {o} : count'[x] = count[x] /\ record'[x] = record[x]
        /\ \A c \in Companies \ {k} : /\ count'[o][c] = count[o][c]
                                      /\ record'[o][c] = record[o][c]
        /\ count'[o][k] = count[o][k] + 1
        /\ count' \in [Ops -> [Companies -> Nat]]
        /\ record' \in [Ops -> [Companies -> Users \cup {None}]]
    <3>1. /\ count[o][k] + 1 \in Nat /\ record[o] \in [Companies -> Users \cup {None}]
          /\ count' = [count EXCEPT ![o] = [count[o] EXCEPT ![k] = count[o][k] + 1]]
      BY <1>1, <2>1
    <3>2. /\ count'[o] = [count[o] EXCEPT ![k] = count[o][k] + 1]
          /\ count'[o] \in [Companies -> Nat]
          /\ \A x \in Ops \ {o} : count'[x] = count[x]
          /\ count' \in [Ops -> [Companies -> Nat]]
      BY <1>1, <3>1
    <3>3. /\ record'[o] \in [Companies -> Users \cup {None}]
          /\ \A c \in Companies \ {k} : record'[o][c] = record[o][c]
          /\ \A x \in Ops \ {o} : record'[x] = record[x]
          /\ record' \in [Ops -> [Companies -> Users \cup {None}]]
      <4>1. CASE record' = record
        BY <1>1, <3>1, <4>1
      <4>2. CASE record' = [record EXCEPT ![o][k] = u]
        BY <1>1, <3>1, <4>2
      <4> QED
        BY <2>1, <4>1, <4>2
    <3> QED
      BY <1>1, <3>2, <3>3
  <2>3. \A x \in Ops, c \in Companies :
           count'[x][c] >= count[x][c] /\ count[x][c] \in Nat
    BY <1>1, <2>2
  <2>4. \A x \in Ops, c \in Companies : record'[x][c] # None => count'[x][c] > 0
    BY <1>1, <1>2, <2>2, <2>3
  <2>5. AnswerBehind(o, u, reply)'
    BY <1>1, <2>1, <2>2 DEF AnswerBehind
  <2> QED
    BY <1>1, <2>1, <2>2, <2>3, <2>4, <2>5
<1>4. CASE ~Apply(o, u, reply)
  <2>1. /\ UNCHANGED server
        /\ reply \in Replies \ {"unauthorized"}
        /\ AnswerBehind(o, u, reply)
    BY <1>1, <1>2, <1>4 DEF Process, Replay, Duplicate, Refuse, KeyIsLive,
       AnswerBehind, Replies
  <2> QED
    BY <1>1, <1>2, <2>1 DEF server, AnswerBehind
<1> QED
  BY <1>3, <1>4

(* A request on the wire, or one that was given up, reaches the backend.   *)
LEMMA ServedStep ==
    ASSUME DInv, IInv', DeliveryTypeOK', LateFinite', NEW o \in Ops, NEW u \in Users,
           NEW reply \in Replies, Process(o, u, reply),
           burst' = burst, accepted' = accepted,
           \A x \in Ops \ {o} : wire'[x] = wire[x] /\ late'[x] = late[x],
           \/ wire'[o] = wire[o]
           \/ wire'[o] # None /\ wire'[o].by = u /\ wire'[o].reply = reply,
           wire[o] # None => wire'[o] # None,
           Pending(o)' + 1 <= Pending(o)
    PROVE  DInv'
<1>1. BurstFits' /\ \A x \in Ops : Undispatched(x)' <=> Undispatched(x)
  BY DEF DInv, BurstFits, Undispatched
<1>2. PostWaits'
  <2>1. ASSUME burst.phase = "post" PROVE burst.cur \in Ops /\ wire[burst.cur] # None
    BY <2>1 DEF DInv, IInv, AtOperation, PostWaits
  <2> QED
    BY <2>1 DEF PostWaits
<1>3. AppliedBehind'
  <2>1. ASSUME NEW x \in Ops, (wire[x] # None /\ wire[x].reply \in Confirming)'
        PROVE  AnswerBehind(x, wire[x].by, wire[x].reply)'
    <3>1. CASE wire'[x] = wire[x]
      <4>1. AnswerBehind(x, wire[x].by, wire[x].reply)
        BY <2>1, <3>1 DEF DInv, AppliedBehind
      <4>2. \A c \in Companies : /\ count[x][c] \in Nat /\ count'[x][c] \in Nat
                                 /\ count'[x][c] >= count[x][c]
        BY ProcessedOnce, CountTypes DEF DInv
      <4>3. \A v \in Users : CompanyOf[v] \in Companies
        BY DeliveryAssumption
      <4> QED
        BY <3>1, <4>1, <4>2, <4>3 DEF AnswerBehind
    <3>2. CASE x = o /\ wire'[o].by = u /\ wire'[o].reply = reply
      <4>1. AnswerBehind(o, u, reply)'
        BY ProcessedOnce
      <4> QED
        BY <3>2, <4>1 DEF AnswerBehind
    <3> QED
      BY <3>1, <3>2
  <2> QED
    BY <2>1, ProcessedOnce DEF AppliedBehind
<1>4. PaidFor'
  <2>1. ASSUME NEW x \in Legacy, NEW c \in Companies
        PROVE  (count[x][c] + Pending(x) <= accepted[x])'
    <3>1. x \in Ops
      BY DEF Ops
    <3>2. /\ count[x][c] \in Nat /\ accepted[x] \in Nat /\ Pending(x) \in Nat
          /\ count[x][c] + Pending(x) <= accepted[x]
      BY <3>1, CountTypes, PendingTypes DEF DInv, PaidFor
    <3>3. Pending(x)' \in Nat /\ count'[x][c] \in Nat
      BY <3>1, PendingNextType, ProcessedOnce
    <3>4. CASE x = o
      BY <3>1, <3>2, <3>3, <3>4, ProcessedOnce
    <3>5. CASE x # o
      <4>1. Pending(x)' = Pending(x)
        BY <1>1, <3>1, <3>5 DEF Pending, Waiting, One
      <4> QED
        BY <3>1, <3>2, <3>5, <4>1, ProcessedOnce
    <3> QED
      BY <3>4, <3>5
  <2> QED
    BY <2>1 DEF PaidFor
<1> QED
  BY <1>1, <1>2, <1>3, <1>4 DEF DInv

-----------------------------------------------------------------------------
(* Steps of the client and of the session.                                 *)

LEMMA RequestIsTyped ==
    ASSUME DeliveryTypeOK, NEW o \in Ops, NEW r \in RequestType \cup {None}
    PROVE  /\ [wire EXCEPT ![o] = r] \in [Ops -> {None} \cup RequestType]
           /\ [wire EXCEPT ![o] = r][o] = r
           /\ \A x \in Ops \ {o} : [wire EXCEPT ![o] = r][x] = wire[x]
BY DEF DeliveryTypeOK

LEMMA AnswerIsTyped ==
    ASSUME DeliveryTypeOK, NEW o \in Ops, NEW reply \in Replies, wire[o] # None
    PROVE  /\ [wire EXCEPT ![o].reply = reply] \in [Ops -> {None} \cup RequestType]
           /\ [wire EXCEPT ![o].reply = reply][o] # None
           /\ [wire EXCEPT ![o].reply = reply][o].reply = reply
           /\ [wire EXCEPT ![o].reply = reply][o].by = wire[o].by
           /\ \A x \in Ops \ {o} : [wire EXCEPT ![o].reply = reply][x] = wire[x]
<1>1. wire[o] \in RequestType /\ wire \in [Ops -> {None} \cup RequestType]
  BY DEF DeliveryTypeOK
<1>2. [wire[o] EXCEPT !.reply = reply] \in RequestType
  BY <1>1 DEF RequestType
<1>3. /\ [wire[o] EXCEPT !.reply = reply].reply = reply
      /\ [wire[o] EXCEPT !.reply = reply].by = wire[o].by
  BY <1>1 DEF RequestType
<1> QED
  BY <1>1, <1>2, <1>3, NoneAssumption

(* Steps that touch no request: only the queue, the session or the list.   *)
LEMMA QuietStep ==
    ASSUME DInv, IInv', ListShrinks, UNCHANGED <<network, server, accepted>>,
           token' \in Users \cup {None}, refreshing' \in Users \cup {None},
           revoking' \in BOOLEAN
    PROVE  DInv'
<1>1. DeliveryTypeOK' /\ LateFinite'
  BY DEF DInv, IInv, DeliveryTypeOK, LateFinite, network, server
<1>2. PostWaits'
  BY DEF DInv, PostWaits, ListShrinks, network
<1>3. ASSUME NEW o \in Legacy
      PROVE  accepted'[o] \in Nat /\ Pending(o)' - accepted'[o] <= Pending(o) - accepted[o]
  <2>1. o \in Ops
    BY DEF Ops
  <2>2. Pending(o)' <= Pending(o)
    BY <2>1, PendingShrinks DEF DInv, network, ListShrinks, Waiting
  <2> QED
    BY <2>1, <2>2, CountTypes, PendingTypes, PendingNextType, <1>1 DEF DInv
<1> QED
  BY <1>1, <1>2, <1>3, ClientStep DEF network, ListShrinks

LEMMA QuietPreserves ==
    ASSUME DInv, IInv',
           \/ Local \/ ClearTokens \/ FinishSignOut \/ UNCHANGED dvars
           \/ \E u \in Users : SignInWithTokens(u)
           \/ \E b \in BOOLEAN : BeginSignOut(b)
    PROVE  DInv'
<1>1. /\ burst \in BurstType /\ BurstFits /\ IInv
      /\ token \in Users \cup {None} /\ refreshing \in Users \cup {None}
      /\ revoking \in BOOLEAN
  BY DEF DInv, IInv, TypeOK, BurstType, DeliveryTypeOK
<1>2. CASE Local
  BY <1>1, <1>2, LocalShrinks, QuietStep DEF Local, session
<1>3. CASE ClearTokens \/ UNCHANGED dvars
  BY <1>1, <1>3, UnchangedBurst, QuietStep DEF ClearTokens, dvars, vars, session
<1>4. CASE FinishSignOut
  BY <1>1, <1>4, EpochShrinks, QuietStep DEF FinishSignOut, CleanupForLogout, session
<1>5. ASSUME NEW u \in Users, SignInWithTokens(u) PROVE DInv'
  BY <1>1, <1>5, EpochShrinks, QuietStep DEF SignInWithTokens, SignIn
<1>6. ASSUME NEW b \in BOOLEAN, BeginSignOut(b) PROVE DInv'
  BY <1>1, <1>6, EpochShrinks, QuietStep DEF BeginSignOut, SignOut
<1> QED
  BY <1>2, <1>3, <1>4, <1>5, <1>6

(* Requests that change while the list stays or shrinks: none is new, and  *)
(* none is answered by a confirmation.                                     *)
LEMMA RequestsShrink ==
    ASSUME DInv, IInv', ListShrinks, LateFinite',
           UNCHANGED <<server, accepted>>,
           token' \in Users \cup {None}, refreshing' \in Users \cup {None},
           revoking' \in BOOLEAN,
           wire' \in [Ops -> {None} \cup RequestType],
           late' \in [Ops -> SUBSET Users],
           burst'.phase = "post" => wire'[burst'.cur] # None,
           \A o \in Ops : wire'[o] # None /\ wire'[o].reply \in Confirming
                            => wire'[o] = wire[o],
           \A o \in Legacy :
              Cardinality(late'[o]) + One(Waiting(o))'
                <= Cardinality(late[o]) + One(Waiting(o))
    PROVE  DInv'
<1>1. DeliveryTypeOK'
  BY DEF DInv, IInv, DeliveryTypeOK, server
<1>2. PostWaits' /\ BurstFits'
  BY DEF PostWaits, ListShrinks
<1>3. ASSUME NEW o \in Legacy
      PROVE  accepted'[o] \in Nat /\ Pending(o)' - accepted'[o] <= Pending(o) - accepted[o]
  <2>1. o \in Ops
    BY DEF Ops
  <2>2. /\ Cardinality(late[o]) \in Nat /\ One(Waiting(o)) \in {0, 1}
        /\ One(Undispatched(o)) \in {0, 1} /\ accepted[o] \in Nat
    BY <2>1, PendingTypes, CountTypes DEF DInv
  <2>3. Cardinality(late'[o]) \in Nat
    BY <2>1, FS_CardinalityType DEF LateFinite
  <2>4. /\ One(Waiting(o))' \in {0, 1}
        /\ One(Undispatched(o))' \in {0, 1}
        /\ One(Undispatched(o))' <= One(Undispatched(o))
    BY <2>1 DEF One, ListShrinks
  <2> QED
    BY <2>2, <2>3, <2>4, <1>3 DEF Pending
<1> QED
  BY <1>1, <1>2, <1>3, ClientStep

(* The refresh settles: the requests that waited for it are sent again, or *)
(* answered with the 401.                                                  *)
LEMMA RefreshPreserves ==
    ASSUME DInv, IInv', NEW ok \in BOOLEAN, RefreshSettled(ok)
    PROVE  DInv'
<1>1. /\ wire \in [Ops -> {None} \cup RequestType] /\ late \in [Ops -> SUBSET Users]
      /\ refreshing \in Users /\ revoking' \in BOOLEAN
      /\ AtOperation /\ BurstFits /\ PostWaits /\ LateFinite
  BY DEF DInv, IInv, DeliveryTypeOK, RefreshSettled
<1>2. /\ burst' = burst /\ late' = late /\ UNCHANGED <<server, accepted>>
      /\ token' \in Users \cup {None} /\ refreshing' = None
  BY <1>1 DEF RefreshSettled, vars
<1>3. ASSUME NEW o \in Ops
      PROVE  /\ wire'[o] \in {None} \cup RequestType
             /\ wire'[o] = None <=> wire[o] = None
             /\ wire'[o] # None /\ wire'[o].reply \in Confirming => wire'[o] = wire[o]
             /\ Waiting(o)' => Waiting(o)
  <2> DEFINE sent == [by |-> refreshing, reply |-> None]
             denied == [wire[o] EXCEPT !.reply = "denied"]
  <2>1. CASE wire[o] = None \/ wire[o].reply # "unauthorized"
    BY <1>1, <2>1 DEF RefreshSettled, Waiting
  <2>2. CASE wire[o] # None /\ wire[o].reply = "unauthorized"
    <3>1. wire'[o] = IF ok THEN sent ELSE denied
      BY <2>2 DEF RefreshSettled
    <3>2. sent \in RequestType /\ denied \in RequestType /\ wire[o] \in RequestType
      BY <1>1, <2>2 DEF RequestType, Replies
    <3>3. sent.reply = None /\ denied.reply = "denied"
      BY <3>2 DEF RequestType
    <3> QED
      BY <2>2, <3>1, <3>2, <3>3, NoneAssumption DEF Waiting, Confirming, Replies
  <2> QED
    BY <2>1, <2>2
<1>4. wire' \in [Ops -> {None} \cup RequestType]
  BY <1>3 DEF RefreshSettled
<1>5. ListShrinks /\ LateFinite'
  BY <1>1, <1>2, UnchangedBurst DEF LateFinite
<1>6. burst'.phase = "post" => wire'[burst'.cur] # None
  BY <1>1, <1>2, <1>3 DEF AtOperation, PostWaits
<1>7. ASSUME NEW o \in Legacy
      PROVE  Cardinality(late'[o]) + One(Waiting(o))' <= Cardinality(late[o]) + One(Waiting(o))
  <2>1. o \in Ops /\ Cardinality(late[o]) \in Nat
    BY PendingTypes DEF Ops, DInv
  <2> QED
    BY <1>2, <1>3, <2>1 DEF One
<1> QED
  BY <1>1, <1>2, <1>3, <1>4, <1>5, <1>6, <1>7, RequestsShrink

(* A 401: the request waits for the refresh, or the caller gets it.        *)
LEMMA UnauthorizedPreserves ==
    ASSUME DInv, IInv', NEW o \in Ops, Unauthorized(o)
    PROVE  DInv'
<1>1. /\ wire \in [Ops -> {None} \cup RequestType] /\ late \in [Ops -> SUBSET Users]
      /\ token \in Users \cup {None} /\ refreshing \in Users \cup {None}
      /\ revoking \in BOOLEAN
      /\ AtOperation /\ BurstFits /\ PostWaits /\ LateFinite /\ DeliveryTypeOK
  BY DEF DInv, IInv, DeliveryTypeOK
<1>2. /\ burst' = burst /\ late' = late /\ UNCHANGED <<server, accepted>>
      /\ UNCHANGED <<token, revoking>> /\ refreshing' \in Users \cup {None}
      /\ wire[o] # None /\ wire[o].reply = None
  BY <1>1 DEF Unauthorized, Unanswered, vars
<1>3. PICK reply \in {"denied", "unauthorized"} : wire' = [wire EXCEPT ![o].reply = reply]
  BY DEF Unauthorized
<1>4. /\ wire' \in [Ops -> {None} \cup RequestType]
      /\ wire'[o] # None /\ wire'[o].reply = reply
      /\ \A x \in Ops \ {o} : wire'[x] = wire[x]
  <2>1. reply \in Replies
    BY DEF Replies
  <2> HIDE DEF Replies
  <2> QED
    BY <1>1, <1>2, <1>3, <2>1, AnswerIsTyped
<1>5. ListShrinks /\ LateFinite'
  BY <1>1, <1>2, UnchangedBurst DEF LateFinite
<1>6. burst'.phase = "post" => wire'[burst'.cur] # None
  BY <1>1, <1>2, <1>4 DEF AtOperation, PostWaits
<1>7. ASSUME NEW x \in Legacy
      PROVE  Cardinality(late'[x]) + One(Waiting(x))' <= Cardinality(late[x]) + One(Waiting(x))
  <2>1. x \in Ops /\ Cardinality(late[x]) \in Nat
    BY PendingTypes DEF Ops, DInv
  <2>2. Waiting(x)' => Waiting(x)
    BY <1>2, <1>4, <2>1 DEF Waiting
  <2> QED
    BY <1>2, <2>1, <2>2 DEF One
<1>8. \A x \in Ops : wire'[x] # None /\ wire'[x].reply \in Confirming => wire'[x] = wire[x]
  BY <1>4 DEF Confirming
<1> QED
  BY <1>1, <1>2, <1>4, <1>5, <1>6, <1>7, <1>8, RequestsShrink

(* Giving up a request leaves at most what was pending: the one that was   *)
(* waited for may still arrive.                                            *)
LEMMA AbandonKeepsPending ==
    ASSUME DInv, NEW o \in Ops, wire[o] # None
    PROVE  /\ Abandoned(o) \in SUBSET Users
           /\ IsFiniteSet(late[o] \cup Abandoned(o))
           /\ Cardinality(late[o] \cup Abandoned(o))
                <= Cardinality(late[o]) + One(Waiting(o))
<1>1. IsFiniteSet(late[o]) /\ wire[o] \in RequestType
  BY DEF DInv, LateFinite, DeliveryTypeOK
<1>2. Cardinality(late[o]) \in Nat /\ One(Waiting(o)) \in {0, 1}
  BY PendingTypes DEF DInv
<1>3. CASE Abandoned(o) = {}
  BY <1>1, <1>2, <1>3
<1>4. CASE Abandoned(o) # {}
  <2>1. /\ Unanswered(o) /\ Abandoned(o) = {wire[o].by} /\ wire[o].by \in Users
    BY <1>1, <1>4 DEF Abandoned, RequestType
  <2>2. One(Waiting(o)) = 1
    BY <2>1 DEF Unanswered, Waiting, One
  <2>3. /\ IsFiniteSet(late[o] \cup {wire[o].by})
        /\ Cardinality(late[o] \cup {wire[o].by}) <= Cardinality(late[o]) + 1
    BY <1>1, <1>2, FS_AddElement
  <2> QED
    BY <2>1, <2>2, <2>3
<1> QED
  BY <1>3, <1>4

(* The end of a request: answered, or given up.                            *)
LEMMA RequestEnds ==
    ASSUME DInv, NEW o \in Ops, wire[o] # None,
           wire' = [wire EXCEPT ![o] = None],
           \/ late' = late
           \/ late' = [late EXCEPT ![o] = @ \cup Abandoned(o)]
    PROVE  /\ wire' \in [Ops -> {None} \cup RequestType]
           /\ late' \in [Ops -> SUBSET Users]
           /\ LateFinite'
           /\ wire'[o] = None /\ \A x \in Ops \ {o} : wire'[x] = wire[x]
           /\ \A x \in Legacy :
                Cardinality(late'[x]) + One(Waiting(x))'
                  <= Cardinality(late[x]) + One(Waiting(x))
<1>1. /\ wire \in [Ops -> {None} \cup RequestType] /\ late \in [Ops -> SUBSET Users]
      /\ DeliveryTypeOK /\ LateFinite
  BY DEF DInv, DeliveryTypeOK
<1>2. /\ wire' \in [Ops -> {None} \cup RequestType]
      /\ wire'[o] = None /\ \A x \in Ops \ {o} : wire'[x] = wire[x]
  BY <1>1, RequestIsTyped
<1>3. /\ late' \in [Ops -> SUBSET Users]
      /\ late'[o] \in {late[o], late[o] \cup Abandoned(o)}
      /\ \A x \in Ops \ {o} : late'[x] = late[x]
  BY <1>1, AbandonKeepsPending
<1>4. LateFinite'
  <2>1. ASSUME NEW x \in Ops PROVE IsFiniteSet(late'[x])
    BY <1>1, <1>3, AbandonKeepsPending DEF LateFinite
  <2> QED
    BY <2>1 DEF LateFinite
<1>5. ASSUME NEW x \in Legacy
      PROVE  Cardinality(late'[x]) + One(Waiting(x))' <= Cardinality(late[x]) + One(Waiting(x))
  <2>1. /\ x \in Ops /\ Cardinality(late[x]) \in Nat /\ One(Waiting(x)) \in {0, 1}
    BY PendingTypes DEF Ops, DInv
  <2>2. CASE x = o
    <3>1. One(Waiting(x))' = 0
      BY <1>2, <2>2 DEF Waiting, One
    <3>2. Cardinality(late'[x]) <= Cardinality(late[x]) + One(Waiting(x))
      <4>1. CASE late'[o] = late[o]
        BY <2>1, <2>2, <4>1
      <4>2. CASE late'[o] = late[o] \cup Abandoned(o)
        BY <2>2, <4>2, AbandonKeepsPending
      <4> QED
        BY <1>3, <4>1, <4>2
    <3>3. Cardinality(late'[x]) \in Nat
      BY <1>4, <2>1, FS_CardinalityType DEF LateFinite
    <3> QED
      BY <2>1, <3>1, <3>2, <3>3
  <2>3. CASE x # o
    BY <1>2, <1>3, <2>1, <2>3 DEF Waiting, One
  <2> QED
    BY <2>2, <2>3
<1> QED
  BY <1>2, <1>3, <1>4, <1>5

(* A direct call, its answer and its parking: only keyed operations.       *)
LEMMA OnlinePreserves ==
    ASSUME DInv, IInv', NEW o \in Ops,
           CallOnline(o) \/ SettleOnline(o) \/ ParkUncertain(o)
    PROVE  DInv'
<1>1. /\ wire \in [Ops -> {None} \cup RequestType] /\ late \in [Ops -> SUBSET Users]
      /\ token \in Users \cup {None} /\ refreshing \in Users \cup {None}
      /\ revoking \in BOOLEAN /\ asking \subseteq Keyed
      /\ AtOperation /\ BurstFits /\ PostWaits /\ LateFinite /\ DeliveryTypeOK
      /\ NotYetQueued
  BY DEF DInv, IInv, TypeOK, DeliveryTypeOK
<1>2. /\ burst' = burst /\ UNCHANGED <<session, server, accepted>>
      /\ o \in Keyed /\ o \notin Legacy
      /\ burst.phase = "post" => burst.cur # o
  <2>1. CASE CallOnline(o)
    BY <1>1, <2>1, OutboxAssumption DEF CallOnline, AskOnline, NotYetQueued, Untouched
  <2>2. CASE SettleOnline(o) \/ ParkUncertain(o)
    BY <1>1, <2>2, OutboxAssumption DEF SettleOnline, ParkUncertain, OnlineSettled, Park,
       NotYetQueued, Untouched
  <2> QED
    BY <2>1, <2>2
<1>3. /\ ListShrinks
      /\ token' \in Users \cup {None} /\ refreshing' \in Users \cup {None}
      /\ revoking' \in BOOLEAN
  BY <1>1, <1>2, UnchangedBurst DEF session
<1>4. CASE CallOnline(o)
  <2> DEFINE r == [by |-> token, reply |-> None]
  <2>1. late' = late /\ wire' = [wire EXCEPT ![o] = r]
    BY <1>4 DEF CallOnline, Request
  <2>2. r \in RequestType /\ r.reply = None
    BY <1>1 DEF RequestType
  <2>3. /\ wire' \in [Ops -> {None} \cup RequestType] /\ wire'[o] = r
        /\ \A x \in Ops \ {o} : wire'[x] = wire[x]
    BY <1>1, <2>1, <2>2, RequestIsTyped
  <2>4. burst'.phase = "post" => wire'[burst'.cur] # None
    BY <1>1, <1>2, <2>3 DEF AtOperation, PostWaits
  <2>5. \A x \in Ops : wire'[x] # None /\ wire'[x].reply \in Confirming => wire'[x] = wire[x]
    BY <2>2, <2>3, NoneAssumption DEF Confirming, Replies
  <2>6. ASSUME NEW x \in Legacy
        PROVE  Cardinality(late'[x]) + One(Waiting(x))' <= Cardinality(late[x]) + One(Waiting(x))
    <3>1. x \in Ops /\ x # o
      BY <1>2 DEF Ops
    <3> QED
      BY <2>1, <2>3, <3>1, PendingTypes DEF DInv, Waiting, One
  <2>7. LateFinite'
    BY <1>1, <2>1 DEF LateFinite
  <2> QED
    BY <1>1, <1>2, <1>3, <2>1, <2>3, <2>4, <2>5, <2>6, <2>7, RequestsShrink
<1>5. CASE SettleOnline(o) \/ ParkUncertain(o)
  <2>1. /\ wire' = [wire EXCEPT ![o] = None]
        /\ late' = late \/ late' = [late EXCEPT ![o] = @ \cup Abandoned(o)]
    BY <1>5 DEF SettleOnline, ParkUncertain, AnswerIn, Abandon
  <2>2. CASE wire[o] # None
    <3>1. /\ wire' \in [Ops -> {None} \cup RequestType]
          /\ late' \in [Ops -> SUBSET Users]
          /\ LateFinite'
          /\ wire'[o] = None /\ \A x \in Ops \ {o} : wire'[x] = wire[x]
          /\ \A x \in Legacy :
               Cardinality(late'[x]) + One(Waiting(x))'
                 <= Cardinality(late[x]) + One(Waiting(x))
      BY <2>1, <2>2, RequestEnds
    <3>2. burst'.phase = "post" => wire'[burst'.cur] # None
      BY <1>1, <1>2, <3>1 DEF AtOperation, PostWaits
    <3> QED
      BY <1>1, <1>2, <1>3, <3>1, <3>2, RequestsShrink
  <2>3. CASE wire[o] = None
    <3>1. Abandoned(o) = {}
      BY <2>3 DEF Abandoned, Unanswered
    <3>2. wire' = wire /\ late' = late
      BY <1>1, <2>1, <2>3, <3>1
    <3> QED
      BY <1>1, <1>2, <1>3, <3>2, QuietStep DEF network
  <2> QED
    BY <2>2, <2>3
<1> QED
  BY <1>4, <1>5

(* The worker starts a pass: each press of Send anyway is counted.         *)
LEMMA PassPreserves ==
    ASSUME DInv, IInv', NEW waived \in SUBSET Legacy, StartPass(waived)
    PROVE  DInv'
<1>1. /\ DeliveryTypeOK /\ LateFinite /\ accepted \in [Ops -> Nat]
      /\ UNCHANGED <<session, network, server>>
      /\ accepted' = [o \in Ops |-> accepted[o] + IF o \in waived THEN 1 ELSE 0]
      /\ burst'.phase = "loop" /\ burst'.waived = waived
  BY DEF DInv, DeliveryTypeOK, StartPass, StartBurst, NoBurst
<1>2. accepted' \in [Ops -> Nat] /\ DeliveryTypeOK' /\ LateFinite'
  <2>1. accepted' \in [Ops -> Nat]
    BY <1>1
  <2> QED
    BY <1>1, <2>1 DEF IInv, DeliveryTypeOK, LateFinite, session, network, server
<1>3. BurstFits' /\ PostWaits'
  BY <1>1 DEF BurstFits, PostWaits
<1>4. ASSUME NEW o \in Legacy
      PROVE  accepted'[o] \in Nat /\ Pending(o)' - accepted'[o] <= Pending(o) - accepted[o]
  <2>1. o \in Ops /\ accepted'[o] \in Nat
    BY <1>2 DEF Ops
  <2>2. /\ Cardinality(late[o]) \in Nat /\ One(Waiting(o)) \in {0, 1}
        /\ One(Undispatched(o)) \in {0, 1} /\ accepted[o] \in Nat
    BY <1>1, <2>1, PendingTypes, CountTypes
  <2>3. Cardinality(late'[o]) = Cardinality(late[o]) /\ One(Waiting(o))' = One(Waiting(o))
    BY <1>1 DEF network, Waiting, One
  <2>4. CASE o \in waived
    <3>1. accepted'[o] = accepted[o] + 1 /\ One(Undispatched(o))' \in {0, 1}
      BY <1>1, <2>1, <2>4 DEF One
    <3> QED
      BY <2>1, <2>2, <2>3, <3>1 DEF Pending
  <2>5. CASE o \notin waived
    <3>1. accepted'[o] = accepted[o] /\ One(Undispatched(o))' = 0
      BY <1>1, <2>1, <2>2, <2>5 DEF One, Undispatched
    <3> QED
      BY <2>1, <2>2, <2>3, <3>1 DEF Pending
  <2> QED
    BY <2>4, <2>5
<1> QED
  BY <1>1, <1>2, <1>3, <1>4, ClientStep DEF network

(* The worker sends the request: the press that waived the gate becomes a  *)
(* request on the wire.                                                    *)
LEMMA DispatchPreserves ==
    ASSUME DInv, IInv', DispatchRequest
    PROVE  DInv'
<1> DEFINE o == burst.cur
           r == [by |-> token, reply |-> None]
<1>1. /\ DeliveryTypeOK /\ LateFinite /\ BurstFits /\ burst \in BurstType
      /\ wire \in [Ops -> {None} \cup RequestType]
      /\ UNCHANGED <<session, server, accepted>> /\ late' = late
      /\ wire' = [wire EXCEPT ![o] = r]
      /\ burst.phase = "gate" /\ o \in Ops
  BY DEF DInv, IInv, TypeOK, BurstType, DeliveryTypeOK, DispatchRequest, Request, Dispatch,
     AtOperation
<1>2. /\ burst'.phase = "post" /\ burst'.cur = o
      /\ burst'.todo = burst.todo /\ burst'.waived = burst.waived
  BY <1>1 DEF DispatchRequest, Dispatch, BurstType
<1>3. r \in RequestType /\ r.reply = None /\ r # None
  BY <1>1, NoneAssumption DEF RequestType, DeliveryTypeOK
<1>4. /\ wire' \in [Ops -> {None} \cup RequestType] /\ wire'[o] = r
      /\ \A x \in Ops \ {o} : wire'[x] = wire[x]
  BY <1>1, <1>3, RequestIsTyped
<1>5. DeliveryTypeOK' /\ LateFinite'
  BY <1>1, <1>4 DEF IInv, DeliveryTypeOK, LateFinite, session, server
<1>6. BurstFits' /\ PostWaits'
  BY <1>2, <1>3, <1>4 DEF BurstFits, PostWaits
<1>7. \A x \in Ops : wire'[x] # None /\ wire'[x].reply \in Confirming => wire'[x] = wire[x]
  BY <1>3, <1>4, NoneAssumption DEF Confirming, Replies
<1>8. ASSUME NEW x \in Legacy
      PROVE  accepted'[x] \in Nat /\ Pending(x)' - accepted'[x] <= Pending(x) - accepted[x]
  <2>1. /\ x \in Ops /\ accepted'[x] = accepted[x] /\ late'[x] = late[x]
    BY <1>1 DEF Ops
  <2>2. /\ Cardinality(late[x]) \in Nat /\ One(Waiting(x)) \in {0, 1}
        /\ One(Undispatched(x)) \in {0, 1} /\ accepted[x] \in Nat
    BY <1>1, <2>1, PendingTypes, CountTypes
  <2>3. CASE x = o
    <3>1. Undispatched(x) /\ ~Undispatched(x)'
      BY <1>1, <1>2, <2>3 DEF BurstFits, Undispatched
    <3>2. One(Undispatched(x)) = 1 /\ One(Undispatched(x))' = 0 /\ One(Waiting(x))' \in {0, 1}
      BY <3>1 DEF One
    <3> QED
      BY <2>1, <2>2, <3>2 DEF Pending
  <2>4. CASE x # o
    <3>1. /\ Waiting(x)' <=> Waiting(x)
          /\ Undispatched(x)' => Undispatched(x)
      BY <1>1, <1>2, <1>4, <2>1, <2>4 DEF Waiting, Undispatched
    <3>2. Pending(x)' <= Pending(x)
      BY <1>1, <2>1, <3>1, PendingShrinks
    <3>3. Pending(x) \in Nat /\ Pending(x)' \in Nat
      BY <1>1, <1>5, <2>1, PendingTypes, PendingNextType
    <3> QED
      BY <2>1, <2>2, <3>2, <3>3
  <2> QED
    BY <2>3, <2>4
<1> QED
  BY <1>1, <1>5, <1>6, <1>7, <1>8, ClientStep

(* The worker takes the outcome, and waits no more.                        *)
LEMMA OutcomePreserves ==
    ASSUME DInv, IInv', Confirmed \/ Retry \/ FailForGood
    PROVE  DInv'
<1>1. /\ DeliveryTypeOK /\ BurstFits /\ burst \in BurstType /\ LateFinite
      /\ token \in Users \cup {None} /\ refreshing \in Users \cup {None}
      /\ revoking \in BOOLEAN
      /\ burst.phase = "post" /\ NextVisit
      /\ UNCHANGED <<session, server, accepted>>
      /\ wire' = [wire EXCEPT ![burst.cur] = None]
      /\ late' = late \/ late' = [late EXCEPT ![burst.cur] = @ \cup Abandoned(burst.cur)]
  BY DEF DInv, IInv, TypeOK, BurstType, DeliveryTypeOK, Confirmed, Retry, FailForGood,
     ConfirmSent, RetryLater, GiveUp, AnswerIn, Abandon
<1>2. burst.cur \in Ops /\ wire[burst.cur] # None
  BY <1>1 DEF DInv, IInv, AtOperation, PostWaits
<1>3. /\ wire' \in [Ops -> {None} \cup RequestType]
      /\ late' \in [Ops -> SUBSET Users]
      /\ LateFinite'
      /\ wire'[burst.cur] = None /\ \A x \in Ops \ {burst.cur} : wire'[x] = wire[x]
      /\ \A x \in Legacy :
           Cardinality(late'[x]) + One(Waiting(x))'
             <= Cardinality(late[x]) + One(Waiting(x))
  BY <1>1, <1>2, RequestEnds
<1>4. ListShrinks /\ burst'.phase = "loop"
  BY <1>1, NextVisitShrinks
<1> QED
  BY <1>1, <1>3, <1>4, RequestsShrink DEF session

(* The process dies: requests that were not answered may still arrive.     *)
LEMMA DeathPreserves ==
    ASSUME DInv, IInv', Die
    PROVE  DInv'
<1>1. /\ DeliveryTypeOK /\ LateFinite
      /\ wire \in [Ops -> {None} \cup RequestType] /\ late \in [Ops -> SUBSET Users]
      /\ token \in Users \cup {None}
      /\ burst' = NoBurst /\ wire' = [o \in Ops |-> None]
      /\ UNCHANGED <<token, server, accepted>>
      /\ revoking' = FALSE /\ refreshing' = None
  BY DEF DInv, DeliveryTypeOK, Die, Crash
<1>2. PICK arrive \in SUBSET {o \in Ops : Unanswered(o)} :
         late' = [o \in Ops |-> late[o] \cup (IF o \in arrive THEN Abandoned(o) ELSE {})]
  BY DEF Die
<1>3. ListShrinks /\ burst'.phase = "idle"
  BY <1>1, EndedBurst DEF NoBurst
<1>4. ASSUME NEW o \in Ops
      PROVE  /\ late'[o] \in SUBSET Users /\ IsFiniteSet(late'[o])
             /\ Cardinality(late'[o]) + One(Waiting(o))'
                  <= Cardinality(late[o]) + One(Waiting(o))
  <2>1. One(Waiting(o))' = 0
    BY <1>1 DEF Waiting, One
  <2>2. /\ Cardinality(late[o]) \in Nat /\ One(Waiting(o)) \in {0, 1}
        /\ late[o] \in SUBSET Users /\ IsFiniteSet(late[o])
    BY <1>1, PendingTypes DEF LateFinite
  <2>3. CASE o \in arrive
    <3>1. wire[o] # None /\ late'[o] = late[o] \cup Abandoned(o)
      BY <1>2, <2>3 DEF Unanswered
    <3>2. Cardinality(late'[o]) \in Nat
      BY <3>1, AbandonKeepsPending, FS_CardinalityType
    <3> QED
      BY <2>1, <2>2, <3>1, <3>2, AbandonKeepsPending
  <2>4. CASE o \notin arrive
    <3>1. late'[o] = late[o]
      BY <1>2, <2>4
    <3> QED
      BY <2>1, <2>2, <3>1
  <2> QED
    BY <2>3, <2>4
<1>5. /\ late' \in [Ops -> SUBSET Users] /\ LateFinite'
      /\ wire' \in [Ops -> {None} \cup RequestType] /\ \A o \in Ops : wire'[o] = None
  BY <1>1, <1>2, <1>4 DEF LateFinite
<1>6. \A o \in Legacy : o \in Ops
  BY DEF Ops
<1> QED
  BY <1>1, <1>3, <1>4, <1>5, <1>6, RequestsShrink

-----------------------------------------------------------------------------
(* Steps of the backend.                                                   *)

(* The request on the wire reaches the backend and is answered.            *)
LEMMA ServeWaitingPreserves ==
    ASSUME DInv, IInv', NEW o \in Ops, ServeWaiting(o)
    PROVE  DInv'
<1>1. /\ DeliveryTypeOK /\ LateFinite /\ wire[o] # None /\ wire[o].reply = None
      /\ wire[o] \in RequestType /\ wire[o].by \in Users
      /\ UNCHANGED <<vars, session, late, accepted>>
  BY DEF DInv, ServeWaiting, Unanswered, DeliveryTypeOK, RequestType
<1>2. PICK reply \in Replies : /\ Process(o, wire[o].by, reply)
                               /\ wire' = [wire EXCEPT ![o].reply = reply]
  BY DEF ServeWaiting
<1>3. /\ wire' \in [Ops -> {None} \cup RequestType]
      /\ wire'[o] # None /\ wire'[o].by = wire[o].by /\ wire'[o].reply = reply
      /\ \A x \in Ops \ {o} : wire'[x] = wire[x]
  BY <1>1, <1>2, AnswerIsTyped
<1>4. /\ record' \in [Ops -> [Companies -> Users \cup {None}]]
      /\ count' \in [Ops -> [Companies -> Nat]]
      /\ reply # "unauthorized"
  BY <1>1, <1>2, ProcessedOnce
<1>5. DeliveryTypeOK' /\ LateFinite'
  BY <1>1, <1>3, <1>4 DEF IInv, DeliveryTypeOK, LateFinite, session
<1>6. Pending(o)' + 1 <= Pending(o)
  <2>1. One(Waiting(o)) = 1
    BY <1>1 DEF Waiting, One
  <2>2. One(Waiting(o))' = 0
    BY <1>3, <1>4, NoneAssumption DEF Waiting, One
  <2>3. late'[o] = late[o] /\ One(Undispatched(o))' = One(Undispatched(o))
    BY <1>1 DEF vars, Undispatched, One
  <2>4. Cardinality(late[o]) \in Nat /\ One(Undispatched(o)) \in {0, 1}
    BY <1>1, PendingTypes
  <2> QED
    BY <2>1, <2>2, <2>3, <2>4 DEF Pending
<1> QED
  BY <1>1, <1>2, <1>3, <1>5, <1>6, ServedStep DEF vars

(* A request that was given up reaches the backend after all.              *)
LEMMA ServeLatePreserves ==
    ASSUME DInv, IInv', NEW o \in Ops, NEW u \in Users, ServeLate(o, u)
    PROVE  DInv'
<1>1. /\ DeliveryTypeOK /\ LateFinite /\ late \in [Ops -> SUBSET Users]
      /\ u \in late[o] /\ late' = [late EXCEPT ![o] = @ \ {u}]
      /\ UNCHANGED <<vars, session, wire, accepted>>
  BY DEF DInv, ServeLate, DeliveryTypeOK
<1>2. PICK reply \in Replies : Process(o, u, reply)
  BY DEF ServeLate
<1>3. /\ late' \in [Ops -> SUBSET Users] /\ late'[o] = late[o] \ {u}
      /\ \A x \in Ops \ {o} : late'[x] = late[x]
  BY <1>1
<1>4. /\ IsFiniteSet(late'[o]) /\ Cardinality(late'[o]) = Cardinality(late[o]) - 1
      /\ Cardinality(late[o]) \in Nat
  BY <1>1, <1>3, FS_RemoveElement, PendingTypes DEF LateFinite
<1>5. /\ record' \in [Ops -> [Companies -> Users \cup {None}]]
      /\ count' \in [Ops -> [Companies -> Nat]]
  BY <1>2, ProcessedOnce
<1>6. LateFinite'
  <2>1. ASSUME NEW x \in Ops PROVE IsFiniteSet(late'[x])
    BY <1>1, <1>3, <1>4 DEF LateFinite
  <2> QED
    BY <2>1 DEF LateFinite
<1>7. DeliveryTypeOK'
  BY <1>1, <1>3, <1>5 DEF IInv, DeliveryTypeOK, session
<1>8. Pending(o)' + 1 <= Pending(o)
  <2>1. /\ One(Undispatched(o))' = One(Undispatched(o))
        /\ One(Waiting(o))' = One(Waiting(o))
    BY <1>1 DEF vars, Undispatched, Waiting, One
  <2>2. One(Waiting(o)) \in {0, 1} /\ One(Undispatched(o)) \in {0, 1}
    BY <1>1, PendingTypes
  <2> QED
    BY <1>4, <2>1, <2>2 DEF Pending
<1> QED
  BY <1>1, <1>2, <1>3, <1>6, <1>7, <1>8, ServedStep DEF vars

(* A record goes after its 24 hours; the effect stays.                     *)
LEMMA ExpiryPreserves ==
    ASSUME DInv, IInv', NEW o \in Ops, NEW c \in Companies, ExpireRecord(o, c)
    PROVE  DInv'
<1>1. /\ DeliveryTypeOK /\ LateFinite
      /\ record \in [Ops -> [Companies -> Users \cup {None}]]
      /\ record' = [record EXCEPT ![o][c] = None]
      /\ UNCHANGED <<vars, session, network, count, accepted>>
  BY DEF DInv, DeliveryTypeOK, ExpireRecord
<1>2. /\ record' \in [Ops -> [Companies -> Users \cup {None}]]
      /\ \A x \in Ops, d \in Companies : record'[x][d] # None => record'[x][d] = record[x][d]
  <2>1. /\ record[o] \in [Companies -> Users \cup {None}]
        /\ record' = [record EXCEPT ![o] = [record[o] EXCEPT ![c] = None]]
    BY <1>1
  <2>2. /\ record'[o] = [record[o] EXCEPT ![c] = None]
        /\ record'[o] \in [Companies -> Users \cup {None}]
        /\ \A x \in Ops \ {o} : record'[x] = record[x]
        /\ record' \in [Ops -> [Companies -> Users \cup {None}]]
    BY <1>1, <2>1
  <2> QED
    BY <2>1, <2>2
<1>3. DeliveryTypeOK' /\ LateFinite'
  BY <1>1, <1>2 DEF IInv, DeliveryTypeOK, LateFinite, session, network
<1>4. AppliedBehind'
  BY <1>1, <1>2 DEF DInv, AppliedBehind, AnswerBehind, network
<1>5. BurstFits' /\ PostWaits'
  BY <1>1 DEF DInv, BurstFits, PostWaits, vars, network
<1>6. PaidFor'
  <2>1. ASSUME NEW x \in Legacy PROVE Pending(x)' = Pending(x)
    BY <1>1 DEF Pending, Waiting, Undispatched, One, vars, network
  <2> QED
    BY <1>1, <2>1 DEF DInv, PaidFor
<1> QED
  BY <1>3, <1>4, <1>5, <1>6 DEF DInv

-----------------------------------------------------------------------------
(* The invariant.                                                          *)

LEMMA DeliveryInitEstablishes == DeliveryInit => DInv
<1> SUFFICES ASSUME DeliveryInit PROVE DInv
  OBVIOUS
<1>1. /\ IInv /\ burst = NoBurst /\ wire = [o \in Ops |-> None]
      /\ late = [o \in Ops |-> {}] /\ accepted \in [Ops -> {0, 1}]
      /\ token = None /\ refreshing = None /\ revoking = FALSE
      /\ record \in [Ops -> [Companies -> Users \cup {None}]]
      /\ origin \in [Ops -> Users \cup {None}]
  BY InitEstablishes DEF DeliveryInit, Init, IInv, TypeOK
<1>2. ASSUME NEW o \in Ops, NEW c \in Companies
      PROVE  /\ count[o][c] \in {0, 1} /\ count[o][c] <= accepted[o]
             /\ record[o][c] # None => count[o][c] = 1
  <2>1. count[o][c] = IF accepted[o] = 1 /\ c = CompanyOf[origin[o]] THEN 1 ELSE 0
    BY DEF DeliveryInit
  <2> QED
    BY <1>1, <2>1 DEF DeliveryInit
<1>3. count \in [Ops -> [Companies -> Nat]]
  <2>1. count = [o \in Ops |-> [c \in Companies |-> count[o][c]]]
    BY DEF DeliveryInit
  <2> QED
    BY <1>2, <2>1
<1>4. \A o \in Ops : late[o] \in SUBSET Users /\ IsFiniteSet(late[o]) /\ Cardinality(late[o]) = 0
  BY <1>1, FS_EmptySet
<1>5. DeliveryTypeOK /\ LateFinite
  <2>1. wire \in [Ops -> {None} \cup RequestType]
    BY <1>1
  <2>2. late \in [Ops -> SUBSET Users] /\ accepted \in [Ops -> Nat]
    BY <1>1
  <2> QED
    BY <1>1, <1>3, <1>4, <2>1, <2>2 DEF IInv, DeliveryTypeOK, LateFinite
<1>6. BurstFits /\ PostWaits
  BY <1>1 DEF BurstFits, PostWaits, NoBurst
<1>7. AppliedBehind
  BY <1>1, <1>2 DEF AppliedBehind
<1>8. PaidFor
  <2>1. ASSUME NEW o \in Legacy, NEW c \in Companies
        PROVE  count[o][c] + Pending(o) <= accepted[o]
    <3>1. o \in Ops
      BY DEF Ops
    <3>2. Pending(o) = 0
      BY <1>1, <1>4, <3>1 DEF Pending, Waiting, Undispatched, NoBurst, One
    <3> QED
      BY <1>1, <1>2, <3>1, <3>2
  <2> QED
    BY <2>1 DEF PaidFor
<1> QED
  BY <1>1, <1>5, <1>6, <1>7, <1>8 DEF DInv

LEMMA DeliveryStepPreserves == DInv /\ [DeliveryNext]_dvars => DInv'
<1> SUFFICES ASSUME DInv, [DeliveryNext]_dvars PROVE DInv'
  OBVIOUS
<1>1. IInv'
  BY DeliveryStepIsOutboxStep, StepPreserves DEF DInv
<1>2. CASE \/ Local \/ ClearTokens \/ FinishSignOut \/ UNCHANGED dvars
           \/ \E u \in Users : SignInWithTokens(u)
           \/ \E b \in BOOLEAN : BeginSignOut(b)
  BY <1>1, <1>2, QuietPreserves
<1>3. CASE DispatchRequest
  BY <1>1, <1>3, DispatchPreserves
<1>4. CASE Confirmed \/ Retry \/ FailForGood
  BY <1>1, <1>4, OutcomePreserves
<1>5. CASE Die
  BY <1>1, <1>5, DeathPreserves
<1>6. ASSUME NEW o \in Ops, CallOnline(o) \/ SettleOnline(o) \/ ParkUncertain(o)
      PROVE  DInv'
  BY <1>1, <1>6, OnlinePreserves
<1>7. ASSUME NEW o \in Ops, ServeWaiting(o) PROVE DInv'
  BY <1>1, <1>7, ServeWaitingPreserves
<1>8. ASSUME NEW o \in Ops, Unauthorized(o) PROVE DInv'
  BY <1>1, <1>8, UnauthorizedPreserves
<1>9. ASSUME NEW o \in Ops, NEW u \in Users, ServeLate(o, u) PROVE DInv'
  BY <1>1, <1>9, ServeLatePreserves
<1>10. ASSUME NEW o \in Ops, NEW c \in Companies, ExpireRecord(o, c) PROVE DInv'
  BY <1>1, <1>10, ExpiryPreserves
<1>11. ASSUME NEW waived \in SUBSET Legacy, StartPass(waived) PROVE DInv'
  BY <1>1, <1>11, PassPreserves
<1>12. ASSUME NEW ok \in BOOLEAN, RefreshSettled(ok) PROVE DInv'
  BY <1>1, <1>12, RefreshPreserves
<1> QED
  BY <1>2, <1>3, <1>4, <1>5, <1>6, <1>7, <1>8, <1>9, <1>10, <1>11, <1>12 DEF DeliveryNext

-----------------------------------------------------------------------------
(* The results.                                                            *)

(* DInv is an inductive invariant of the delivery.                         *)
THEOREM DeliveryInvariance == DeliverySpec => []DInv
<1>1. DeliveryInit => DInv
  BY DeliveryInitEstablishes
<1>2. DInv /\ [DeliveryNext]_dvars => DInv'
  BY DeliveryStepPreserves
<1> QED
  BY <1>1, <1>2, PTL DEF DeliverySpec

(* Every execution of an operation without a durable identity is paid for  *)
(* by a press of Send anyway: no retry, late request or refresh repeats it *)
(* (the durable-identity gate of _syncAllGuarded).                         *)
THEOREM LegacyNotRepeated == DeliverySpec => []NoUnattendedRepeat
<1>1. ASSUME DInv PROVE NoUnattendedRepeat
  <2>1. ASSUME NEW o \in Legacy, NEW c \in Companies PROVE count[o][c] <= accepted[o]
    <3>1. o \in Ops /\ DeliveryTypeOK /\ LateFinite
      BY <1>1 DEF Ops, DInv
    <3>2. count[o][c] \in Nat /\ accepted[o] \in Nat /\ Pending(o) \in Nat
      BY <3>1, CountTypes, PendingTypes
    <3> QED
      BY <1>1, <3>2 DEF DInv, PaidFor
  <2> QED
    BY <2>1 DEF NoUnattendedRepeat
<1>2. DInv => NoUnattendedRepeat
  BY <1>1
<1> QED
  BY <1>2, DeliveryInvariance, PTL

(* What leaves the queue on a success has been applied in the company of   *)
(* the user who asked last, and so has every sale that leaves it as        *)
(* delivered (_classify, confirmSent, the 409 of SalesRepository.create).  *)
THEOREM DroppedOnlyIfApplied == DeliverySpec => SuccessWasApplied
<1> DEFINE o == burst.cur
           Success == Confirmed /\ (wire[o].reply = "ok" \/ o \in Sales)
<1>1. ASSUME DInv, Success PROVE count[o][CompanyOf[wire[o].by]] > 0
  <2>1. /\ burst.phase = "post" /\ wire[o].reply \in Confirming
    BY <1>1 DEF Confirmed, ConfirmSent, AnswerIn
  <2>2. o \in Ops /\ wire[o] # None
    BY <1>1, <2>1 DEF DInv, IInv, AtOperation, PostWaits
  <2>3. AnswerBehind(o, wire[o].by, wire[o].reply)
    BY <1>1, <2>1, <2>2 DEF DInv, AppliedBehind
  <2>4. wire[o].reply = "ok"
    BY <1>1, <2>1, <2>3 DEF AnswerBehind, Confirming
  <2> QED
    BY <2>3, <2>4 DEF AnswerBehind
<1>2. DInv /\ [DeliveryNext]_dvars =>
        [Success => count[o][CompanyOf[wire[o].by]] > 0]_dvars
  BY <1>1
<1> QED
  BY <1>2, DeliveryInvariance, PTL DEF DeliverySpec, SuccessWasApplied

-----------------------------------------------------------------------------
(* Third part: the layer of the backend that makes a repeated request      *)
(* harmless. Safety of the idempotency protocol for every set of requests, *)
(* keys and payloads, and that it implements KeyedStore. It is proved by   *)
(* itself: OfflineDelivery meets the backend one step per request.         *)

(* An uncommitted reservation belongs to the request that executes the     *)
(* key's mutation.                                                         *)
DraftOwned ==
    /\ \A r \in Reqs : Executing(r) => /\ draft[KeyOf[r]] # None
                                       /\ draft[KeyOf[r]].by = r
    /\ \A k \in Keys : draft[k] # None => /\ Executing(draft[k].by)
                                          /\ KeyOf[draft[k].by] = k

(* A deleted, uncommitted record is an expired one, held by a request that *)
(* is about to replace it.                                                 *)
DoomedExpired ==
    \A k \in Keys : doomed[k] # None =>
        /\ row[k] # None /\ row[k].expired
        /\ KeyOf[doomed[k]] = k
        /\ pc[doomed[k]] = "insert" \/ Executing(doomed[k])

(* A reservation next to a committed record means that its request has     *)
(* deleted that record; nobody reserves beside a deletion of another.      *)
Replacing ==
    \A k \in Keys : draft[k] # None =>
        /\ row[k] # None => doomed[k] = draft[k].by
        /\ doomed[k] \in {None, draft[k].by}

(* The ids a request remembers are those of records past their life.       *)
Remembered ==
    /\ \A r \in Reqs : old[r] < nextId /\ seen[r] < nextId
    /\ \A k \in Keys : row[k] # None => row[k].id < nextId
    /\ \A r \in Reqs :
          row[KeyOf[r]] # None /\ row[KeyOf[r]].id \in {old[r], seen[r]}
            => row[KeyOf[r]].expired

(* Nothing is committed before its response is stored.                     *)
StoredDone ==
    /\ \A r \in Reqs : pc[r] = "commit" => draft[KeyOf[r]].done
    /\ \A k \in Keys : row[k] # None => row[k].done

ReserveInv == /\ ReserveTypeOK /\ DraftOwned /\ DoomedExpired /\ Replacing /\ Remembered
        /\ StoredDone /\ OneEffectPerLife /\ NeverInFlight

-----------------------------------------------------------------------------
(* The invariant holds initially and is kept by every statement.           *)

LEMMA ReserveInitEstablishes == ReserveInit => ReserveInv
<1> SUFFICES ASSUME ReserveInit PROVE ReserveInv
  OBVIOUS
<1>1. ReserveTypeOK
  BY DEF ReserveInit, ReserveTypeOK, Statements
<1>2. \A r \in Reqs : pc[r] = "idle" /\ old[r] = 0 /\ seen[r] = 0 /\ answer[r] = None
  BY DEF ReserveInit
<1>3. /\ \A k \in Keys : row[k] = None /\ draft[k] = None /\ doomed[k] = None
      /\ \A k \in Keys : effects[k] = 0 /\ expiries[k] = 0
      /\ nextId = 1
  BY DEF ReserveInit
<1>4. DraftOwned /\ DoomedExpired /\ Replacing /\ StoredDone
  BY <1>2, <1>3, ReqsAssumption DEF DraftOwned, Executing, DoomedExpired,
     Replacing, StoredDone
<1>5. Remembered
  BY <1>2, <1>3, ReqsAssumption DEF Remembered
<1>6. OneEffectPerLife
  BY <1>3 DEF OneEffectPerLife, Live
<1>7. NeverInFlight
  BY <1>2, ReqsAssumption DEF NeverInFlight, Answers
<1> QED
  BY <1>1, <1>4, <1>5, <1>6, <1>7 DEF ReserveInv

(* The end of a transaction takes back what it had not committed, and      *)
(* nothing of anybody else's.                                              *)
LEMMA ReleaseOwn ==
    ASSUME ReserveInv, NEW r \in Reqs, Release(r), pc' = [pc EXCEPT ![r] = "idle"]
    PROVE  /\ draft' \in [Keys -> Draft \cup {None}]
           /\ doomed' \in [Keys -> Reqs \cup {None}]
           /\ \A k \in Keys : draft'[k] # None => /\ draft'[k] = draft[k]
                                                  /\ draft[k].by # r
           /\ \A k \in Keys : doomed'[k] # None => /\ doomed'[k] = doomed[k]
                                                   /\ doomed[k] # r
           /\ \A k \in Keys : doomed[k] # r => doomed'[k] = doomed[k]
           /\ DraftOwned'
<1>1. /\ draft \in [Keys -> Draft \cup {None}]
      /\ doomed \in [Keys -> Reqs \cup {None}]
      /\ pc \in [Reqs -> Statements]
  BY DEF ReserveInv, ReserveTypeOK
<1>2. \A k \in Keys :
         /\ draft'[k] = IF draft[k] # None /\ draft[k].by = r THEN None
                        ELSE draft[k]
         /\ doomed'[k] = IF doomed[k] = r THEN None ELSE doomed[k]
  BY DEF Release
<1>3. /\ draft' \in [Keys -> Draft \cup {None}]
      /\ doomed' \in [Keys -> Reqs \cup {None}]
  BY <1>1 DEF Release
<1>4. \A s \in Reqs : Executing(s)' <=> Executing(s) /\ s # r
  BY <1>1 DEF Executing
<1>5. \A k \in Keys : draft[k] # None => draft[k].by \in Reqs
  BY <1>1 DEF Draft
<1>6. DraftOwned'
  <2>1. ASSUME NEW s \in Reqs, Executing(s)'
        PROVE  draft'[KeyOf[s]] # None /\ draft'[KeyOf[s]].by = s
    BY <1>2, <1>4, <2>1, ReqsAssumption DEF ReserveInv, DraftOwned
  <2>2. ASSUME NEW k \in Keys, draft'[k] # None
        PROVE  /\ pc'[draft'[k].by] \in {"work", "complete", "commit"}
               /\ KeyOf[draft'[k].by] = k
    <3>1. draft[k] # None /\ draft'[k] = draft[k] /\ draft[k].by # r
      BY <1>2, <2>2
    <3>2. Executing(draft[k].by) /\ KeyOf[draft[k].by] = k
      BY <3>1 DEF ReserveInv, DraftOwned
    <3>3. pc'[draft[k].by] = pc[draft[k].by]
      BY <1>1, <1>5, <3>1
    <3> QED
      BY <3>1, <3>2, <3>3 DEF Executing
  <2> QED
    BY <2>1, <2>2 DEF DraftOwned, Executing
<1> QED
  BY <1>2, <1>3, <1>6

(* A rolled back or answered request leaves the records alone.             *)
LEMMA EndPreserves ==
    ASSUME ReserveInv, NEW r \in Reqs, NEW a \in Answers, a # "inFlight",
           Release(r), Finish(r, a),
           UNCHANGED <<row, old, seen, nextId, sends, effects, expiries>>
    PROVE  ReserveInv'
<1>1. /\ pc' = [pc EXCEPT ![r] = "idle"] /\ answer' = [answer EXCEPT ![r] = a]
      /\ pc \in [Reqs -> Statements] /\ answer \in [Reqs -> Answers \cup {None}]
  BY DEF Finish, Goto, ReserveInv, ReserveTypeOK
<1>2. /\ draft' \in [Keys -> Draft \cup {None}]
      /\ doomed' \in [Keys -> Reqs \cup {None}]
      /\ \A k \in Keys : draft'[k] # None => /\ draft'[k] = draft[k]
                                             /\ draft[k].by # r
      /\ \A k \in Keys : doomed'[k] # None => /\ doomed'[k] = doomed[k]
                                              /\ doomed[k] # r
      /\ \A k \in Keys : doomed[k] # r => doomed'[k] = doomed[k]
      /\ DraftOwned'
  BY <1>1, ReleaseOwn
<1>3. ReserveTypeOK'
  BY <1>1, <1>2 DEF ReserveInv, ReserveTypeOK, Statements
<1>4. DoomedExpired'
  <2>1. ASSUME NEW k \in Keys, doomed'[k] # None
        PROVE  /\ row'[k] # None /\ row'[k].expired
               /\ KeyOf[doomed'[k]] = k
               /\ pc'[doomed'[k]] = "insert"
                    \/ pc'[doomed'[k]] \in {"work", "complete", "commit"}
    <3>1. doomed'[k] = doomed[k] /\ doomed[k] # r /\ doomed[k] \in Reqs
      BY <1>2, <2>1
    <3>2. pc'[doomed'[k]] = pc[doomed[k]]
      BY <1>1, <3>1
    <3> QED
      BY <2>1, <3>1, <3>2 DEF ReserveInv, DoomedExpired, Executing
  <2> QED
    BY <2>1 DEF DoomedExpired, Executing
<1>5. Replacing'
  BY <1>2 DEF ReserveInv, Replacing
<1>6. Remembered' /\ OneEffectPerLife'
  BY DEF ReserveInv, Remembered, OneEffectPerLife, Live
<1>7. StoredDone'
  <2>1. ASSUME NEW s \in Reqs, pc'[s] = "commit" PROVE draft'[KeyOf[s]].done
    <3>1. Executing(s)' /\ s # r /\ pc[s] = "commit" /\ KeyOf[s] \in Keys
      BY <1>1, <2>1, ReqsAssumption DEF Executing
    <3>2. draft'[KeyOf[s]] # None
      BY <1>2, <3>1 DEF DraftOwned
    <3> QED
      BY <1>2, <3>1, <3>2 DEF ReserveInv, StoredDone
  <2> QED
    BY <2>1 DEF ReserveInv, StoredDone
<1>8. NeverInFlight'
  BY <1>1 DEF ReserveInv, NeverInFlight
<1> QED
  BY <1>2, <1>3, <1>4, <1>5, <1>6, <1>7, <1>8 DEF ReserveInv

(* A statement that moves a request on without touching records or         *)
(* reservations, and without entering, leaving or finishing the mutation.  *)
LEMMA MovePreserves ==
    ASSUME ReserveInv, NEW r \in Reqs, NEW s \in Statements, Goto(r, s),
           UNCHANGED <<row, draft, doomed, nextId, effects, expiries>>,
           Executing(r) <=> s \in {"work", "complete", "commit"},
           s # "commit",
           \A k \in Keys : doomed[k] = r => s = "insert" \/ Executing(r),
           old' \in [Reqs -> Nat], seen' \in [Reqs -> Nat], sends' \in Nat,
           \A t \in Reqs : old'[t] < nextId /\ seen'[t] < nextId,
           \A t \in Reqs :
              row[KeyOf[t]] # None /\ row[KeyOf[t]].id \in {old'[t], seen'[t]}
                => row[KeyOf[t]].expired,
           answer' \in [Reqs -> Answers \cup {None}],
           \A t \in Reqs : answer'[t] = answer[t] \/ answer'[t] = None
    PROVE  ReserveInv'
<1>1. pc' = [pc EXCEPT ![r] = s] /\ pc \in [Reqs -> Statements]
  BY DEF Goto, ReserveInv, ReserveTypeOK
<1>2. \A t \in Reqs : pc'[t] = IF t = r THEN s ELSE pc[t]
  BY <1>1
<1>3. \A t \in Reqs : Executing(t) <=> pc'[t] \in {"work", "complete", "commit"}
  BY <1>2 DEF Executing
<1>4. ReserveTypeOK'
  BY <1>1 DEF ReserveInv, ReserveTypeOK
<1>5. DraftOwned'
  <2>1. \A k \in Keys : draft[k] # None => draft[k].by \in Reqs
    BY DEF ReserveInv, ReserveTypeOK, Draft
  <2> QED
    BY <1>3, <2>1 DEF ReserveInv, DraftOwned, Executing
<1>6. DoomedExpired'
  <2>1. \A k \in Keys : doomed[k] # None => doomed[k] \in Reqs
    BY DEF ReserveInv, ReserveTypeOK
  <2>2. ASSUME NEW k \in Keys, doomed[k] # None
        PROVE  pc'[doomed[k]] = "insert"
                 \/ pc'[doomed[k]] \in {"work", "complete", "commit"}
    BY <1>2, <1>3, <2>1, <2>2 DEF ReserveInv, DoomedExpired
  <2> QED
    BY <2>2 DEF ReserveInv, DoomedExpired, Executing
<1>7. Replacing' /\ OneEffectPerLife'
  BY DEF ReserveInv, Replacing, OneEffectPerLife, Live
<1>8. Remembered'
  BY DEF ReserveInv, Remembered
<1>9. StoredDone'
  BY <1>2 DEF ReserveInv, StoredDone
<1>10. NeverInFlight'
  BY ReqsAssumption DEF ReserveInv, NeverInFlight, Answers
<1> QED
  BY <1>4, <1>5, <1>6, <1>7, <1>8, <1>9, <1>10 DEF ReserveInv

(* The statements of reserve that only look, and the mutation itself.      *)
LEMMA LookPreserves ==
    ASSUME ReserveInv, NEW r \in Reqs,
           \/ Begin(r) \/ InsertConflicts(r) \/ ReadNothing(r) \/ ReadExpired(r)
           \/ Work(r)
    PROVE  ReserveInv'
<1>1. /\ old \in [Reqs -> Nat] /\ seen \in [Reqs -> Nat] /\ sends \in Nat
      /\ answer \in [Reqs -> Answers \cup {None}] /\ nextId \in Nat \ {0}
      /\ row \in [Keys -> Record \cup {None}] /\ KeyOf[r] \in Keys
  BY ReqsAssumption DEF ReserveInv, ReserveTypeOK
<1>2. /\ \A t \in Reqs : old[t] < nextId /\ seen[t] < nextId
      /\ \A t \in Reqs :
            row[KeyOf[t]] # None /\ row[KeyOf[t]].id \in {old[t], seen[t]}
              => row[KeyOf[t]].expired
      /\ \A k \in Keys : row[k] # None => row[k].id < nextId
      /\ \A k \in Keys : row[k] # None => row[k].id \in Nat \ {0}
  BY <1>1 DEF ReserveInv, Remembered, Record
<1>3. \A k \in Keys : doomed[k] = r =>
         k = KeyOf[r] /\ (pc[r] = "insert" \/ Executing(r))
  BY ReqsAssumption DEF ReserveInv, DoomedExpired
<1>4. CASE Begin(r)
  <2>1. /\ pc[r] = "idle" /\ Goto(r, "insert") /\ sends' = sends + 1
        /\ old' = [old EXCEPT ![r] = ExpiredAlready(KeyOf[r])]
        /\ seen' = [seen EXCEPT ![r] = 0]
        /\ answer' = [answer EXCEPT ![r] = None]
        /\ UNCHANGED <<row, draft, doomed, nextId, effects, expiries>>
    BY <1>4 DEF Begin
  <2>2. /\ ExpiredAlready(KeyOf[r]) \in Nat
        /\ ExpiredAlready(KeyOf[r]) < nextId
        /\ row[KeyOf[r]] # None /\ row[KeyOf[r]].id = ExpiredAlready(KeyOf[r])
             => row[KeyOf[r]].expired
    BY <1>1, <1>2 DEF ExpiredAlready
  <2>3. /\ old' \in [Reqs -> Nat] /\ seen' \in [Reqs -> Nat] /\ sends' \in Nat
        /\ \A t \in Reqs : old'[t] < nextId /\ seen'[t] < nextId
        /\ answer' \in [Reqs -> Answers \cup {None}]
        /\ \A t \in Reqs : answer'[t] = answer[t] \/ answer'[t] = None
    BY <1>1, <1>2, <2>1, <2>2
  <2>4. ASSUME NEW t \in Reqs, row[KeyOf[t]] # None,
               row[KeyOf[t]].id \in {old'[t], seen'[t]}
        PROVE  row[KeyOf[t]].expired
    <3>1. CASE t = r
      BY <1>1, <1>2, <2>1, <2>2, <2>4, <3>1
    <3>2. CASE t # r
      BY <1>1, <1>2, <2>1, <2>4, <3>2
    <3> QED
      BY <3>1, <3>2
  <2> QED
    BY <2>1, <2>3, <2>4, MovePreserves DEF Executing, Statements
<1>5. CASE InsertConflicts(r)
  <2>1. /\ pc[r] = "insert" /\ Goto(r, "read") /\ doomed[KeyOf[r]] # r
        /\ UNCHANGED <<row, draft, doomed, old, seen, answer, nextId, sends,
                       effects, expiries>>
    BY <1>5 DEF InsertConflicts
  <2> QED
    BY <1>1, <1>2, <1>3, <2>1, MovePreserves DEF Executing, Statements
<1>6. CASE ReadNothing(r)
  <2>1. /\ pc[r] = "read" /\ Goto(r, "insert")
        /\ UNCHANGED <<row, draft, doomed, old, seen, answer, nextId, sends,
                       effects, expiries>>
    BY <1>6 DEF ReadNothing
  <2> QED
    BY <1>1, <1>2, <2>1, MovePreserves DEF Executing, Statements
<1>7. CASE ReadExpired(r)
  <2>1. /\ pc[r] = "read" /\ Goto(r, "drop") /\ row[KeyOf[r]] # None
        /\ row[KeyOf[r]].id = old[r]
        /\ seen' = [seen EXCEPT ![r] = row[KeyOf[r]].id]
        /\ UNCHANGED <<row, draft, doomed, old, answer, nextId, sends, effects,
                       expiries>>
    BY <1>7 DEF ReadExpired, Stale
  <2>2. \A t \in Reqs : seen'[t] = IF t = r THEN old[r] ELSE seen[t]
    BY <1>1, <2>1
  <2>3. /\ seen' \in [Reqs -> Nat] /\ \A t \in Reqs : seen'[t] < nextId
        /\ \A t \in Reqs :
              row[KeyOf[t]] # None /\ row[KeyOf[t]].id \in {old[t], seen'[t]}
                => row[KeyOf[t]].expired
    BY <1>1, <1>2, <2>1, <2>2
  <2> QED
    BY <1>1, <1>2, <1>3, <2>1, <2>3, MovePreserves DEF Executing, Statements
<1>8. CASE Work(r)
  <2>1. /\ pc[r] = "work" /\ Goto(r, "complete")
        /\ UNCHANGED <<row, draft, doomed, old, seen, answer, nextId, sends,
                       effects, expiries>>
    BY <1>8 DEF Work
  <2> QED
    BY <1>1, <1>2, <2>1, MovePreserves DEF Executing, Statements
<1> QED
  BY <1>4, <1>5, <1>6, <1>7, <1>8

(* reserve wins the index entry: nobody else holds it.                     *)
LEMMA InsertWinsPreserves ==
    ASSUME ReserveInv, NEW r \in Reqs, InsertWins(r)
    PROVE  ReserveInv'
<1> DEFINE k == KeyOf[r]
<1>1. /\ k \in Keys /\ pc[r] = "insert" /\ ~HeldByOther(r, k)
      /\ row[k] = None \/ doomed[k] = r
      /\ draft' = [draft EXCEPT ![k] = [by |-> r, done |-> FALSE]]
      /\ pc' = [pc EXCEPT ![r] = "work"]
      /\ UNCHANGED <<row, doomed, old, seen, answer, nextId, sends, effects,
                     expiries>>
  BY ReqsAssumption DEF InsertWins, Goto
<1> HIDE DEF k
<1>2. /\ pc \in [Reqs -> Statements] /\ draft \in [Keys -> Draft \cup {None}]
      /\ doomed \in [Keys -> Reqs \cup {None}]
  BY DEF ReserveInv, ReserveTypeOK
<1>3. [by |-> r, done |-> FALSE] \in Draft /\ [by |-> r, done |-> FALSE] # None
  <2>1. [by |-> r, done |-> FALSE] \in Draft
    BY DEF Draft
  <2> QED
    BY <2>1, ReqsAssumption
<1>4. draft[k] = None
  BY <1>1, <1>2 DEF HeldByOther, ReserveInv, DraftOwned, Executing
<1>5. /\ \A t \in Reqs : pc'[t] = IF t = r THEN "work" ELSE pc[t]
      /\ \A x \in Keys : draft'[x] = IF x = k THEN [by |-> r, done |-> FALSE]
                                     ELSE draft[x]
  BY <1>1, <1>2
<1>6. ReserveTypeOK'
  BY <1>1, <1>2, <1>3 DEF ReserveInv, ReserveTypeOK, Statements
<1>7. DraftOwned'
  <2>1. ASSUME NEW t \in Reqs, pc'[t] \in {"work", "complete", "commit"}
        PROVE  draft'[KeyOf[t]] # None /\ draft'[KeyOf[t]].by = t
    <3>1. CASE t = r
      BY <1>1, <1>3, <1>5, <3>1 DEF k
    <3>2. CASE t # r
      <4>1. draft[KeyOf[t]] # None /\ draft[KeyOf[t]].by = t
        BY <1>5, <2>1, <3>2 DEF ReserveInv, DraftOwned, Executing
      <4> QED
        BY <1>4, <1>5, <4>1, ReqsAssumption
    <3> QED
      BY <3>1, <3>2
  <2>2. ASSUME NEW x \in Keys, draft'[x] # None
        PROVE  /\ pc'[draft'[x].by] \in {"work", "complete", "commit"}
               /\ KeyOf[draft'[x].by] = x
    <3>1. CASE x = k
      BY <1>5, <3>1 DEF k
    <3>2. CASE x # k
      <4>1. draft'[x] = draft[x] /\ draft[x].by \in Reqs
        BY <1>2, <1>5, <2>2, <3>2 DEF Draft
      <4> QED
        BY <1>5, <2>2, <4>1 DEF ReserveInv, DraftOwned, Executing
    <3> QED
      BY <3>1, <3>2
  <2> QED
    BY <2>1, <2>2 DEF DraftOwned, Executing
<1>8. DoomedExpired'
  <2>1. ASSUME NEW x \in Keys, doomed[x] # None
        PROVE  pc'[doomed[x]] = "insert"
                 \/ pc'[doomed[x]] \in {"work", "complete", "commit"}
    <3>1. doomed[x] \in Reqs
      BY <1>2, <2>1
    <3> QED
      BY <1>5, <2>1, <3>1 DEF ReserveInv, DoomedExpired, Executing
  <2> QED
    BY <1>1, <2>1 DEF ReserveInv, DoomedExpired, Executing
<1>9. Replacing'
  BY <1>1, <1>5 DEF ReserveInv, Replacing, HeldByOther
<1>10. Remembered' /\ OneEffectPerLife' /\ NeverInFlight'
  BY <1>1 DEF ReserveInv, Remembered, OneEffectPerLife, Live, NeverInFlight
<1>11. StoredDone'
  <2>1. ASSUME NEW t \in Reqs, pc'[t] = "commit" PROVE draft'[KeyOf[t]].done
    <3>1. pc[t] = "commit" /\ draft[KeyOf[t]] # None /\ KeyOf[t] \in Keys
      BY <1>5, <2>1, ReqsAssumption DEF ReserveInv, DraftOwned, Executing
    <3> QED
      BY <1>4, <1>5, <3>1 DEF ReserveInv, StoredDone
  <2> QED
    BY <1>1, <2>1 DEF ReserveInv, StoredDone
<1> QED
  BY <1>6, <1>7, <1>8, <1>9, <1>10, <1>11 DEF ReserveInv

(* The deletion of an expired record: nobody has reserved beside it.       *)
LEMMA DropExpiredPreserves ==
    ASSUME ReserveInv, NEW r \in Reqs, DropExpired(r)
    PROVE  ReserveInv'
<1> DEFINE k == KeyOf[r]
<1>1. /\ k \in Keys /\ pc[r] = "drop" /\ ~HeldByOther(r, k)
      /\ doomed' = IF row[k] # None /\ row[k].id = seen[r]
                   THEN [doomed EXCEPT ![k] = r] ELSE doomed
      /\ pc' = [pc EXCEPT ![r] = "insert"]
      /\ UNCHANGED <<row, draft, old, seen, answer, nextId, sends, effects,
                     expiries>>
  BY ReqsAssumption DEF DropExpired, Goto, IsSeen
<1>2. row[k] # None /\ row[k].id = seen[r] => row[k].expired
  BY DEF ReserveInv, Remembered
<1>3. KeyOf[r] = k
  OBVIOUS
<1> HIDE DEF k
<1>4. /\ pc \in [Reqs -> Statements] /\ draft \in [Keys -> Draft \cup {None}]
      /\ doomed \in [Keys -> Reqs \cup {None}]
      /\ \A x \in Keys : draft[x] # None => draft[x].by \in Reqs
  BY DEF ReserveInv, ReserveTypeOK, Draft
<1>5. draft[k] = None
  BY <1>1, <1>4 DEF HeldByOther, ReserveInv, DraftOwned, Executing
<1>6. \A t \in Reqs : pc'[t] = IF t = r THEN "insert" ELSE pc[t]
  BY <1>1, <1>4
<1>7. \A x \in Keys : doomed'[x] = doomed[x] \/ (x = k /\ doomed'[x] = r
                        /\ row[k] # None /\ row[k].expired)
  BY <1>1, <1>2, <1>4
<1>8. ReserveTypeOK'
  BY <1>1, <1>4 DEF ReserveInv, ReserveTypeOK, Statements
<1>9. DraftOwned'
  BY <1>1, <1>4, <1>6 DEF ReserveInv, DraftOwned, Executing
<1>10. DoomedExpired'
  <2>1. ASSUME NEW x \in Keys, doomed'[x] # None
        PROVE  /\ row[x] # None /\ row[x].expired
               /\ KeyOf[doomed'[x]] = x
               /\ pc'[doomed'[x]] = "insert"
                    \/ pc'[doomed'[x]] \in {"work", "complete", "commit"}
    <3>1. CASE doomed'[x] = doomed[x]
      <4>1. doomed[x] \in Reqs
        BY <1>4, <2>1, <3>1
      <4> QED
        BY <1>6, <2>1, <3>1, <4>1 DEF ReserveInv, DoomedExpired, Executing
    <3>2. CASE doomed'[x] # doomed[x]
      BY <1>3, <1>6, <1>7, <3>2
    <3> QED
      BY <3>1, <3>2
  <2> QED
    BY <1>1, <2>1 DEF DoomedExpired, Executing
<1>11. Replacing'
  BY <1>1, <1>5, <1>7 DEF ReserveInv, Replacing
<1>12. Remembered' /\ OneEffectPerLife' /\ NeverInFlight'
  BY <1>1 DEF ReserveInv, Remembered, OneEffectPerLife, Live, NeverInFlight
<1>13. StoredDone'
  BY <1>1, <1>6 DEF ReserveInv, StoredDone
<1> QED
  BY <1>8, <1>9, <1>10, <1>11, <1>12, <1>13 DEF ReserveInv

LEMMA CompletePreserves ==
    ASSUME ReserveInv, NEW r \in Reqs, Complete(r)
    PROVE  ReserveInv'
<1> DEFINE k == KeyOf[r]
<1>1. /\ k \in Keys /\ pc[r] = "complete"
      /\ draft' = [draft EXCEPT ![k].done = TRUE]
      /\ pc' = [pc EXCEPT ![r] = "commit"]
      /\ UNCHANGED <<row, doomed, old, seen, answer, nextId, sends, effects,
                     expiries>>
  BY ReqsAssumption DEF Complete, Goto
<1>2. draft[k] # None /\ draft[k].by = r
  BY <1>1 DEF ReserveInv, DraftOwned, Executing
<1>3. KeyOf[r] = k
  OBVIOUS
<1> HIDE DEF k
<1>4. /\ pc \in [Reqs -> Statements] /\ draft \in [Keys -> Draft \cup {None}]
      /\ doomed \in [Keys -> Reqs \cup {None}]
      /\ \A x \in Keys : draft[x] # None => draft[x].by \in Reqs
  BY DEF ReserveInv, ReserveTypeOK, Draft
<1>5. \A t \in Reqs : pc'[t] = IF t = r THEN "commit" ELSE pc[t]
  BY <1>1, <1>4
<1>6. draft[k] \in Draft
  BY <1>1, <1>2, <1>4
<1>7. /\ [draft[k] EXCEPT !.done = TRUE] \in Draft
      /\ [draft[k] EXCEPT !.done = TRUE].by = r
      /\ [draft[k] EXCEPT !.done = TRUE].done = TRUE
  BY <1>2, <1>6 DEF Draft
<1>8. /\ draft' \in [Keys -> Draft \cup {None}]
      /\ \A x \in Keys \ {k} : draft'[x] = draft[x]
      /\ draft'[k] # None /\ draft'[k].by = r /\ draft'[k].done
  BY <1>1, <1>4, <1>7, ReqsAssumption
<1>9. ReserveTypeOK'
  BY <1>1, <1>4, <1>8 DEF ReserveInv, ReserveTypeOK, Statements
<1>10. DraftOwned'
  <2>1. ASSUME NEW t \in Reqs, pc'[t] \in {"work", "complete", "commit"}
        PROVE  draft'[KeyOf[t]] # None /\ draft'[KeyOf[t]].by = t
    <3>1. draft[KeyOf[t]] # None /\ draft[KeyOf[t]].by = t /\ KeyOf[t] \in Keys
      BY <1>1, <1>5, <2>1, ReqsAssumption DEF ReserveInv, DraftOwned, Executing
    <3> QED
      BY <1>2, <1>8, <3>1
  <2>2. ASSUME NEW x \in Keys, draft'[x] # None
        PROVE  /\ pc'[draft'[x].by] \in {"work", "complete", "commit"}
               /\ KeyOf[draft'[x].by] = x
    <3>1. CASE x = k
      BY <1>3, <1>5, <1>8, <3>1
    <3>2. CASE x # k
      BY <1>4, <1>5, <1>8, <2>2, <3>2 DEF ReserveInv, DraftOwned, Executing
    <3> QED
      BY <3>1, <3>2
  <2> QED
    BY <2>1, <2>2 DEF DraftOwned, Executing
<1>11. DoomedExpired'
  <2>1. ASSUME NEW x \in Keys, doomed[x] # None
        PROVE  pc'[doomed[x]] = "insert"
                 \/ pc'[doomed[x]] \in {"work", "complete", "commit"}
    <3>1. doomed[x] \in Reqs
      BY <1>4, <2>1
    <3> QED
      BY <1>5, <2>1, <3>1 DEF ReserveInv, DoomedExpired, Executing
  <2> QED
    BY <1>1, <2>1 DEF ReserveInv, DoomedExpired, Executing
<1>12. Replacing'
  BY <1>1, <1>2, <1>8 DEF ReserveInv, Replacing
<1>13. Remembered' /\ OneEffectPerLife' /\ NeverInFlight'
  BY <1>1 DEF ReserveInv, Remembered, OneEffectPerLife, Live, NeverInFlight
<1>14. StoredDone'
  <2>1. ASSUME NEW t \in Reqs, pc'[t] = "commit" PROVE draft'[KeyOf[t]].done
    BY <1>3, <1>5, <1>8, <2>1, ReqsAssumption DEF ReserveInv, StoredDone
  <2> QED
    BY <1>1, <2>1 DEF ReserveInv, StoredDone
<1> QED
  BY <1>9, <1>10, <1>11, <1>12, <1>13, <1>14 DEF ReserveInv

(* A commit finds no live record under its key and leaves one.             *)
LEMMA CommitStores ==
    ASSUME ReserveInv, NEW r \in Reqs, Commit(r)
    PROVE  /\ KeyOf[r] \in Keys /\ ~Live(KeyOf[r])
           /\ row' \in [Keys -> Record \cup {None}]
           /\ \A x \in Keys \ {KeyOf[r]} : row'[x] = row[x]
           /\ row'[KeyOf[r]] # None
           /\ row'[KeyOf[r]].id = nextId
           /\ row'[KeyOf[r]].payload = PayloadOf[r]
           /\ row'[KeyOf[r]].done /\ ~row'[KeyOf[r]].expired
<1> DEFINE k == KeyOf[r]
           new == [id |-> nextId, payload |-> PayloadOf[r],
                   done |-> draft[k].done, expired |-> FALSE]
<1>1. /\ k \in Keys /\ pc[r] = "commit" /\ row' = [row EXCEPT ![k] = new]
      /\ row \in [Keys -> Record \cup {None}] /\ nextId \in Nat \ {0}
      /\ PayloadOf[r] \in Payloads
      /\ draft[k] # None /\ draft[k].by = r /\ draft[k].done
      /\ draft \in [Keys -> Draft \cup {None}]
  BY ReqsAssumption DEF Commit, ReserveInv, ReserveTypeOK, DraftOwned, StoredDone,
     Executing
<1>2. row[k] = None \/ row[k].expired
  BY <1>1, ReqsAssumption DEF ReserveInv, Replacing, DoomedExpired
<1>3. draft[k].done \in BOOLEAN
  BY <1>1 DEF Draft
<1>4. new \in Record
  BY <1>1, <1>3 DEF Record
<1>5. new # None
  BY <1>4, ReqsAssumption
<1>6. new.id = nextId /\ new.payload = PayloadOf[r] /\ new.done /\ ~new.expired
  BY <1>1
<1> HIDE DEF new
<1>7. /\ row' \in [Keys -> Record \cup {None}]
      /\ \A x \in Keys \ {k} : row'[x] = row[x]
      /\ row'[k] = new
  BY <1>1, <1>4
<1> QED
  BY <1>1, <1>2, <1>5, <1>6, <1>7 DEF Live

LEMMA ReserveCommitPreserves ==
    ASSUME ReserveInv, NEW r \in Reqs, Commit(r)
    PROVE  ReserveInv'
<1> DEFINE k == KeyOf[r]
<1>1. /\ k \in Keys /\ ~Live(k)
      /\ row' \in [Keys -> Record \cup {None}]
      /\ \A x \in Keys \ {k} : row'[x] = row[x]
      /\ row'[k] # None /\ row'[k].id = nextId
      /\ row'[k].done /\ ~row'[k].expired
  BY CommitStores
<1>2. /\ nextId' = nextId + 1 /\ effects' = [effects EXCEPT ![k] = @ + 1]
      /\ Release(r) /\ pc' = [pc EXCEPT ![r] = "idle"] /\ pc[r] = "commit"
      /\ answer' = [answer EXCEPT ![r] = "applied"]
      /\ UNCHANGED <<old, seen, sends, expiries>>
  BY DEF Commit, Finish, Goto
<1>3. /\ draft' \in [Keys -> Draft \cup {None}]
      /\ doomed' \in [Keys -> Reqs \cup {None}]
      /\ \A x \in Keys : draft'[x] # None => /\ draft'[x] = draft[x]
                                             /\ draft[x].by # r
      /\ \A x \in Keys : doomed'[x] # None => /\ doomed'[x] = doomed[x]
                                              /\ doomed[x] # r
      /\ \A x \in Keys : doomed[x] # r => doomed'[x] = doomed[x]
      /\ DraftOwned'
  BY <1>2, ReleaseOwn
<1>4. /\ draft[k] # None /\ draft[k].by = r /\ doomed[k] \in {None, r}
  BY <1>1, <1>2 DEF ReserveInv, DraftOwned, Executing, Replacing
<1>5. draft'[k] = None /\ doomed'[k] = None
  BY <1>1, <1>3, <1>4
<1>6. /\ pc \in [Reqs -> Statements] /\ answer \in [Reqs -> Answers \cup {None}]
      /\ effects \in [Keys -> Nat] /\ expiries \in [Keys -> Nat]
      /\ nextId \in Nat \ {0}
  BY DEF ReserveInv, ReserveTypeOK
<1>7. KeyOf[r] = k
  OBVIOUS
<1> HIDE DEF k
<1>8. ReserveTypeOK'
  BY <1>1, <1>2, <1>3, <1>6 DEF ReserveInv, ReserveTypeOK, Statements, Answers
<1>9. DoomedExpired'
  <2>1. ASSUME NEW x \in Keys, doomed'[x] # None
        PROVE  /\ row'[x] # None /\ row'[x].expired
               /\ KeyOf[doomed'[x]] = x
               /\ pc'[doomed'[x]] = "insert"
                    \/ pc'[doomed'[x]] \in {"work", "complete", "commit"}
    <3>1. doomed'[x] = doomed[x] /\ doomed[x] # r /\ doomed[x] \in Reqs /\ x # k
      BY <1>3, <1>5, <2>1
    <3>2. pc'[doomed[x]] = pc[doomed[x]] /\ row'[x] = row[x]
      BY <1>1, <1>2, <1>6, <3>1
    <3> QED
      BY <2>1, <3>1, <3>2 DEF ReserveInv, DoomedExpired, Executing
  <2> QED
    BY <2>1 DEF DoomedExpired, Executing
<1>10. Replacing'
  BY <1>1, <1>3, <1>5 DEF ReserveInv, Replacing
<1>11. Remembered'
  <2>1. \A x \in Keys : row'[x] # None => row'[x].id < nextId'
    BY <1>1, <1>2, <1>6 DEF ReserveInv, Remembered, ReserveTypeOK, Record
  <2>2. \A t \in Reqs : old[t] < nextId /\ seen[t] < nextId /\ old[t] \in Nat
                          /\ seen[t] \in Nat
    BY DEF ReserveInv, Remembered, ReserveTypeOK
  <2>3. ASSUME NEW t \in Reqs, row'[KeyOf[t]] # None,
               row'[KeyOf[t]].id \in {old[t], seen[t]}
        PROVE  row'[KeyOf[t]].expired
    <3>1. CASE KeyOf[t] = k
      BY <1>1, <1>6, <2>2, <2>3, <3>1
    <3>2. CASE KeyOf[t] # k
      BY <1>1, <2>3, <3>2, ReqsAssumption DEF ReserveInv, Remembered
    <3> QED
      BY <3>1, <3>2
  <2> QED
    BY <1>2, <1>6, <2>1, <2>2, <2>3 DEF Remembered
<1>12. StoredDone'
  <2>1. ASSUME NEW s \in Reqs, pc'[s] = "commit" PROVE draft'[KeyOf[s]].done
    <3>1. s # r /\ pc[s] = "commit" /\ KeyOf[s] \in Keys
      BY <1>2, <1>6, <2>1, ReqsAssumption
    <3>2. draft'[KeyOf[s]] # None
      BY <1>3, <2>1 DEF DraftOwned, Executing
    <3> QED
      BY <1>3, <3>1, <3>2 DEF ReserveInv, StoredDone
  <2> QED
    BY <1>1, <2>1 DEF ReserveInv, StoredDone
<1>13. OneEffectPerLife'
  <2>1. \A x \in Keys \ {k} : effects'[x] = effects[x] /\ Live(x)' = Live(x)
    BY <1>1, <1>2, <1>6 DEF Live
  <2>2. effects[k] = expiries[k] /\ effects'[k] = effects[k] + 1 /\ Live(k)'
    BY <1>1, <1>2, <1>6 DEF ReserveInv, OneEffectPerLife, Live
  <2> QED
    BY <1>2, <1>6, <2>1, <2>2 DEF ReserveInv, OneEffectPerLife, Live
<1>14. NeverInFlight'
  BY <1>2, <1>6 DEF ReserveInv, NeverInFlight
<1> QED
  BY <1>3, <1>8, <1>9, <1>10, <1>11, <1>12, <1>13, <1>14 DEF ReserveInv

(* The end of a record's life and its removal by the cleanup job.          *)
LEMMA ReserveExpiryPreserves ==
    ASSUME ReserveInv, NEW k \in Keys, Expire(k) \/ CleanupExpired(k)
    PROVE  ReserveInv'
<1>1. /\ row \in [Keys -> Record \cup {None}] /\ row[k] # None
      /\ expiries \in [Keys -> Nat] /\ effects \in [Keys -> Nat]
      /\ UNCHANGED <<draft, doomed, pc, old, seen, answer, nextId, sends, effects>>
  BY DEF Expire, CleanupExpired, ReserveInv, ReserveTypeOK
<1>2. row[k] \in Record
  BY <1>1
<1>3. CASE Expire(k)
  <2>1. /\ row' = [row EXCEPT ![k] = [row[k] EXCEPT !.expired = TRUE]]
        /\ expiries' = [expiries EXCEPT ![k] = @ + 1] /\ ~row[k].expired
    BY <1>3 DEF Expire
  <2>2. /\ [row[k] EXCEPT !.expired = TRUE] \in Record
        /\ [row[k] EXCEPT !.expired = TRUE].id = row[k].id
        /\ [row[k] EXCEPT !.expired = TRUE].done = row[k].done
        /\ [row[k] EXCEPT !.expired = TRUE].expired = TRUE
    BY <1>2 DEF Record
  <2>3. [row[k] EXCEPT !.expired = TRUE] # None
    BY <2>2, ReqsAssumption
  <2>4. /\ row' \in [Keys -> Record \cup {None}]
        /\ \A x \in Keys \ {k} : row'[x] = row[x]
        /\ row'[k] # None /\ row'[k].id = row[k].id
        /\ row'[k].done = row[k].done /\ row'[k].expired
    BY <1>1, <2>1, <2>2, <2>3
  <2>5. ReserveTypeOK'
    BY <1>1, <2>1, <2>4 DEF ReserveInv, ReserveTypeOK
  <2>6. DraftOwned' /\ DoomedExpired' /\ Replacing' /\ NeverInFlight'
    BY <1>1, <2>4 DEF ReserveInv, DraftOwned, Executing, DoomedExpired, Replacing,
       NeverInFlight
  <2>7. Remembered' /\ StoredDone'
    BY <1>1, <2>4, ReqsAssumption DEF ReserveInv, Remembered, StoredDone
  <2>8. OneEffectPerLife'
    BY <1>1, <2>1, <2>4 DEF ReserveInv, OneEffectPerLife, Live
  <2> QED
    BY <2>5, <2>6, <2>7, <2>8 DEF ReserveInv
<1>4. CASE CleanupExpired(k)
  <2>1. /\ row' = [row EXCEPT ![k] = None] /\ row[k].expired /\ doomed[k] = None
        /\ expiries' = expiries
    BY <1>4 DEF CleanupExpired
  <2>2. /\ row' \in [Keys -> Record \cup {None}]
        /\ \A x \in Keys \ {k} : row'[x] = row[x]
        /\ row'[k] = None
    BY <1>1, <2>1
  <2>3. ReserveTypeOK'
    BY <1>1, <2>1, <2>2 DEF ReserveInv, ReserveTypeOK
  <2>4. DraftOwned' /\ DoomedExpired' /\ Replacing' /\ NeverInFlight'
    BY <1>1, <2>1, <2>2 DEF ReserveInv, DraftOwned, Executing, DoomedExpired,
       Replacing, NeverInFlight
  <2>5. Remembered' /\ StoredDone'
    BY <1>1, <2>2, ReqsAssumption DEF ReserveInv, Remembered, StoredDone
  <2>6. OneEffectPerLife'
    BY <1>1, <2>1, <2>2 DEF ReserveInv, OneEffectPerLife, Live
  <2> QED
    BY <2>3, <2>4, <2>5, <2>6 DEF ReserveInv
<1> QED
  BY <1>3, <1>4

LEMMA ReserveStepPreserves == ReserveInv /\ [ReserveNext]_reserveVars => ReserveInv'
<1> SUFFICES ASSUME ReserveInv, [ReserveNext]_reserveVars PROVE ReserveInv'
  OBVIOUS
<1>1. CASE UNCHANGED reserveVars
  BY <1>1 DEF reserveVars, ReserveInv, ReserveTypeOK, DraftOwned, Executing,
     DoomedExpired, Replacing, Remembered, StoredDone, OneEffectPerLife, Live,
     NeverInFlight
<1>2. ASSUME NEW k \in Keys, Expire(k) \/ CleanupExpired(k) PROVE ReserveInv'
  BY <1>2, ReserveExpiryPreserves
<1>3. ASSUME NEW r \in Reqs, Begin(r) \/ Step(r) \/ Rollback(r) PROVE ReserveInv'
  <2>1. CASE \/ Begin(r) \/ InsertConflicts(r) \/ ReadNothing(r)
             \/ ReadExpired(r) \/ Work(r)
    BY <2>1, LookPreserves
  <2>2. CASE InsertWins(r)
    BY <2>2, InsertWinsPreserves
  <2>3. CASE DropExpired(r)
    BY <2>3, DropExpiredPreserves
  <2>4. CASE Complete(r)
    BY <2>4, CompletePreserves
  <2>5. CASE Commit(r)
    BY <2>5, ReserveCommitPreserves
  <2>6. CASE Rollback(r)
    BY <2>6, EndPreserves DEF Rollback, Answers
  <2>7. CASE ReadLive(r)
    <3>1. row[KeyOf[r]] # None /\ KeyOf[r] \in Keys
      BY <2>7, ReqsAssumption DEF ReadLive
    <3>2. row[KeyOf[r]].done
      BY <3>1 DEF ReserveInv, StoredDone
    <3>3. Verdict(r, row[KeyOf[r]]) \in Answers \ {"inFlight"}
      BY <3>2 DEF Verdict, Answers
    <3> QED
      BY <2>7, <3>3, EndPreserves DEF ReadLive
  <2> QED
    BY <1>3, <2>1, <2>2, <2>3, <2>4, <2>5, <2>6, <2>7 DEF Step
<1> QED
  BY <1>1, <1>2, <1>3 DEF ReserveNext

-----------------------------------------------------------------------------
(* The results.                                                            *)

(* IInv is an inductive invariant of the protocol.                         *)
THEOREM ReserveInvariance == ReserveSpec => []ReserveInv
<1>1. ReserveInit => ReserveInv
  BY ReserveInitEstablishes
<1>2. ReserveInv /\ [ReserveNext]_reserveVars => ReserveInv'
  BY ReserveStepPreserves
<1> QED
  BY <1>1, <1>2, PTL DEF ReserveSpec

(* Every state of the records and of the requests is well-formed           *)
(* (IdempotencyRecord, reserve, runWithIdempotency).                       *)
THEOREM ReserveTypeCorrect == ReserveSpec => []ReserveTypeOK
<1>1. ReserveInv => ReserveTypeOK
  BY DEF ReserveInv
<1> QED
  BY <1>1, ReserveInvariance, PTL

(* runWithIdempotency commits a key's mutation once per record life.       *)
THEOREM OncePerLife == ReserveSpec => []OneEffectPerLife
<1>1. ReserveInv => OneEffectPerLife
  BY DEF ReserveInv
<1> QED
  BY <1>1, ReserveInvariance, PTL

(* Two requests of one key never execute the mutation side by side.        *)
THEOREM MutualExclusion == ReserveSpec => []OneExecution
<1>1. ReserveInv => OneExecution
  BY DEF ReserveInv, DraftOwned, OneExecution
<1> QED
  BY <1>1, ReserveInvariance, PTL

(* No request is ever told that its key is being processed (the 409 of     *)
(* reserve on a PENDING record).                                           *)
THEOREM PendingNeverSeen == ReserveSpec => []NeverInFlight
<1>1. ReserveInv => NeverInFlight
  BY DEF ReserveInv
<1> QED
  BY <1>1, ReserveInvariance, PTL

(* The protocol of reserve, complete and cleanupExpired implements the     *)
(* promise of KeyedStore.                                                  *)
THEOREM Implements == ReserveSpec => ImplementsKeyedStore
<1> DEFINE stored == [k \in Keys |-> IF Live(k) THEN row[k].payload ELSE None]
<1>1. ReserveInit => Abstract!Init
  BY DEF ReserveInit, Abstract!Init, Live
<1>2. ASSUME ReserveInv, [ReserveNext]_reserveVars
      PROVE  [Abstract!Next]_<<stored, effects>>
  <2>1. /\ row \in [Keys -> Record \cup {None}] /\ effects \in [Keys -> Nat]
        /\ \A k \in Keys : row[k] # None /\ row[k].payload \in Payloads
                             => row[k].payload # None
    BY <1>2, ReqsAssumption DEF ReserveInv, ReserveTypeOK
  <2>2. ASSUME UNCHANGED <<row, effects>> PROVE UNCHANGED <<stored, effects>>
    BY <2>2 DEF Live
  <2>3. CASE UNCHANGED reserveVars
    BY <2>2, <2>3 DEF reserveVars
  <2>4. ASSUME NEW r \in Reqs, Commit(r) PROVE Abstract!Next
    <3> DEFINE k == KeyOf[r]
    <3>1. /\ k \in Keys /\ ~Live(k)
          /\ \A x \in Keys \ {k} : row'[x] = row[x]
          /\ row'[k] # None /\ row'[k].payload = PayloadOf[r]
          /\ ~row'[k].expired
      BY <1>2, <2>4, CommitStores
    <3>2. effects' = [effects EXCEPT ![k] = @ + 1]
      BY <2>4 DEF Commit
    <3>3. PayloadOf[r] \in Payloads
      BY ReqsAssumption
    <3> HIDE DEF k
    <3>4. stored' = [stored EXCEPT ![k] = PayloadOf[r]] /\ stored[k] = None
      BY <3>1 DEF Live
    <3>5. Abstract!Apply(k, PayloadOf[r])
      BY <3>2, <3>4 DEF Abstract!Apply
    <3> QED
      BY <3>1, <3>3, <3>5 DEF Abstract!Next
  <2>5. ASSUME NEW k \in Keys, Expire(k) PROVE Abstract!Next
    <3>1. /\ row[k] # None /\ ~row[k].expired /\ UNCHANGED effects
          /\ row' = [row EXCEPT ![k] = [row[k] EXCEPT !.expired = TRUE]]
      BY <2>5 DEF Expire
    <3>2. row[k] \in Record /\ [row[k] EXCEPT !.expired = TRUE].expired = TRUE
      BY <2>1, <3>1 DEF Record
    <3>3. row'[k].expired = TRUE /\ \A x \in Keys \ {k} : row'[x] = row[x]
      BY <2>1, <3>1, <3>2
    <3>4. row[k].payload \in Payloads
      BY <3>2 DEF Record
    <3>5. stored[k] # None
      BY <3>1, <3>4, ReqsAssumption DEF Live
    <3>6. stored' = [stored EXCEPT ![k] = None]
      BY <3>3 DEF Live
    <3>7. Abstract!Expire(k)
      BY <3>1, <3>5, <3>6 DEF Abstract!Expire
    <3> QED
      BY <3>7 DEF Abstract!Next
  <2>6. ASSUME NEW k \in Keys, CleanupExpired(k)
        PROVE  UNCHANGED <<stored, effects>>
    <3>1. row[k].expired /\ row' = [row EXCEPT ![k] = None] /\ UNCHANGED effects
      BY <2>6 DEF CleanupExpired
    <3>2. row'[k] = None /\ \A x \in Keys \ {k} : row'[x] = row[x]
      BY <2>1, <3>1
    <3> QED
      BY <3>1, <3>2 DEF Live
  <2>7. ASSUME NEW r \in Reqs,
               \/ Begin(r) \/ Rollback(r) \/ InsertWins(r) \/ InsertConflicts(r)
               \/ ReadNothing(r) \/ ReadExpired(r) \/ ReadLive(r)
               \/ DropExpired(r) \/ Work(r) \/ Complete(r)
        PROVE  UNCHANGED <<stored, effects>>
    <3>1. UNCHANGED <<row, effects>>
      BY <2>7 DEF Begin, Rollback, InsertWins, InsertConflicts, ReadNothing,
         ReadExpired, ReadLive, DropExpired, Work, Complete
    <3> QED
      BY <2>2, <3>1
  <2> HIDE DEF stored
  <2> QED
    BY <1>2, <2>3, <2>4, <2>5, <2>6, <2>7 DEF ReserveNext, Step
<1> QED
  BY <1>1, <1>2, ReserveInvariance, PTL DEF ReserveSpec, ImplementsKeyedStore,
     Abstract!Spec
=============================================================================

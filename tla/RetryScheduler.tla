--------------------------- MODULE RetryScheduler ---------------------------
(***************************************************************************)
(* OutboxRetryScheduler: when the outbox of the mobile application is      *)
(* flushed without anybody asking.  It sees the queue through a snapshot,  *)
(* re-evaluates on every queue mutation, connectivity flip and change of   *)
(* user, keeps one timer, and refuses to fire twice for the same PENDING   *)
(* entries (their fingerprint).                                            *)
(*                                                                         *)
(* The queue and the worker are those of Outbox.tla, reduced to what the   *)
(* scheduler can tell apart: the status and the attempts of an entry, who  *)
(* started the running pass and what its snapshot still holds.  A          *)
(* deadline is the status "waiting", which time turns into "due"; an entry *)
(* has a deadline exactly when its attempts are positive, so the pairs     *)
(* (id, attempts) stand for the fingerprint.                               *)
(***************************************************************************)
EXTENDS Naturals

CONSTANTS
    Ops,
    Skipped,          \* entries the worker skips: no durable identity, or
                      \* the scope of another user
    MaxRetryAttempts  \* OutboxController.maxRetryAttempts

ASSUME SchedulerAssumption ==
    Skipped \subseteq Ops /\ MaxRetryAttempts \in Nat \ {0}

VARIABLES
    queue,     \* queue[o]: status and attempts of o
    online,    \* connectivityStatusProvider
    signedIn,  \* somebody is authenticated
    moved,     \* the microtask that reports a change of user is pending
    asked,     \* a pass was asked for: Send now, Retry, resume, reconnection
    worker,    \* the running syncAll pass
    timer,     \* the scheduler's timer is armed
    lastFired, \* _lastFiredFingerprint
    recurred   \* history: the queue has returned to the last fingerprint

schedulerVars ==
    <<queue, online, signedIn, moved, asked, worker, timer, lastFired, recurred>>

EntryStatuses == {"absent", "due", "waiting", "sending", "failed", "gone"}
Idle == [by |-> "nobody", todo |-> {}, stale |-> FALSE]

SchedulerTypeOK ==
    /\ queue \in [Ops -> [status: EntryStatuses, attempts: 0..MaxRetryAttempts]]
    /\ online \in BOOLEAN /\ signedIn \in BOOLEAN
    /\ moved \in BOOLEAN /\ asked \in BOOLEAN /\ timer \in BOOLEAN
    /\ worker \in [by: {"nobody", "scheduler", "other"}, todo: SUBSET Ops,
                   stale: BOOLEAN]
    /\ lastFired \in SUBSET (Ops \X (0..MaxRetryAttempts))
    /\ recurred \in BOOLEAN

SchedulerInit ==
    /\ queue = [o \in Ops |-> [status |-> "absent", attempts |-> 0]]
    /\ online \in BOOLEAN /\ signedIn \in BOOLEAN
    /\ moved = FALSE /\ asked = FALSE /\ timer = FALSE
    /\ worker = Idle
    /\ lastFired = {}
    /\ recurred = FALSE

-----------------------------------------------------------------------------
Due(q) == {o \in Ops : q[o].status = "due"}
Pending(q) == {o \in Ops : q[o].status \in {"due", "waiting"}}
Fingerprint(q) == {<<o, q[o].attempts>> : o \in Pending(q)}

(* syncAll up to its first await: the snapshot of the PENDING entries, or  *)
(* the end of the pass if it holds nothing to send.                        *)
Pass(q, who) ==
    IF Due(q) \subseteq Skipped THEN Idle
    ELSE [by |-> who, todo |-> Pending(q), stale |-> FALSE]

(* The gate of _fire: not while a burst of its own is in flight            *)
(* (_burstInFlight), and not twice for one fingerprint.                    *)
Fires(q, w, last) ==
    /\ online' /\ Due(q) # {}
    /\ w.by # "scheduler" /\ Fingerprint(q) # last

(* _rearm on the queue q, with w the worker and last the last fingerprint  *)
(* as the step leaves them.  A timer is armed only when nothing is due.  A *)
(* burst the worker refuses (busy, or nobody signed in) returns at once,   *)
(* has used its fingerprint up, and its completion finds nothing new.      *)
Rearm(q, w, last) ==
    /\ timer' = (online' /\ Due(q) = {} /\ Pending(q) # {})
    /\ lastFired' = IF Fires(q, w, last) THEN Fingerprint(q) ELSE last
    /\ worker' = IF Fires(q, w, last) /\ w = Idle /\ signedIn'
                 THEN Pass(q, "scheduler") ELSE w

(* A queue mutation notifies the scheduler synchronously.                  *)
Mutate(o, status, attempts, w) ==
    /\ queue' = [queue EXCEPT ![o] = [status |-> status, attempts |-> attempts]]
    /\ UNCHANGED <<online, signedIn, moved>>
    /\ Rearm(queue', w, lastFired)
    /\ recurred' = (recurred \/ (/\ Pending(queue') # {}
                                /\ Fingerprint(queue) # lastFired
                                /\ Fingerprint(queue') = lastFired))

-----------------------------------------------------------------------------
(* The user and the device.                                                *)

Enqueue(o) ==
    /\ signedIn /\ queue[o].status = "absent"
    /\ Mutate(o, "due", 0, worker)
    /\ UNCHANGED asked

(* Retry in the failed list: a fresh budget, then a pass.                  *)
Retry(o) ==
    /\ signedIn /\ queue[o].status = "failed"
    /\ Mutate(o, "due", 0, worker)
    /\ asked' = TRUE

Discard(o) ==
    /\ signedIn
    /\ queue[o].status = "failed" \/ (o \in Skipped /\ o \in Pending(queue))
    /\ Mutate(o, "gone", 0, worker)
    /\ UNCHANGED asked

AskForPass ==
    /\ asked' = TRUE
    /\ UNCHANGED <<queue, online, signedIn, moved, worker, timer, lastFired,
                   recurred>>

GoOffline ==
    /\ online
    /\ online' = FALSE
    /\ UNCHANGED <<queue, signedIn, moved, asked, recurred>>
    /\ Rearm(queue, worker, lastFired)

(* Operators named Mutant.. are plausible bugs of the definition that      *)
(* follows them.                                                           *)
MutantGoOnline ==
    /\ ~online
    /\ online' = TRUE
    /\ asked' \in {asked, TRUE}
    /\ UNCHANGED <<queue, signedIn, moved, worker, timer, lastFired, recurred>>

(* The application flushes too, unless its refresh was debounced.          *)
GoOnline ==
    /\ ~online
    /\ online' = TRUE
    /\ asked' \in {asked, TRUE}
    /\ UNCHANGED <<queue, signedIn, moved, recurred>>
    /\ Rearm(queue, worker, lastFired)

ChangeUser ==
    /\ signedIn' = ~signedIn
    /\ moved' = TRUE
    /\ worker' = IF worker = Idle THEN Idle ELSE [worker EXCEPT !.stale = TRUE]
    /\ UNCHANGED <<queue, online, asked, timer, lastFired,
                   recurred>>

MutantNotifyScopeChanged ==
    /\ moved
    /\ moved' = FALSE
    /\ UNCHANGED <<queue, online, signedIn, asked, recurred>>
    /\ Rearm(queue, worker, lastFired)

(* notifyScopeChanged forgets the fingerprint.                             *)
NotifyScopeChanged ==
    /\ moved
    /\ moved' = FALSE
    /\ UNCHANGED <<queue, online, signedIn, asked, recurred>>
    /\ Rearm(queue, worker, {})

BackoffElapsed(o) ==
    /\ queue[o].status = "waiting"
    /\ queue' = [queue EXCEPT ![o].status = "due"]
    /\ UNCHANGED <<online, signedIn, moved, asked, worker, timer, lastFired,
                   recurred>>

-----------------------------------------------------------------------------
(* The scheduler.                                                          *)

(* The timer is set to the earliest deadline.                              *)
TimerFires ==
    /\ timer /\ Due(queue) # {}
    /\ UNCHANGED <<queue, online, signedIn, moved, asked, recurred>>
    /\ Rearm(queue, worker, lastFired)

-----------------------------------------------------------------------------
(* The worker.                                                             *)

(* syncAll asked for by somebody else: a no-op while a pass is running.    *)
StartAsked ==
    /\ asked
    /\ asked' = FALSE
    /\ worker' = IF worker = Idle /\ online /\ signedIn
                 THEN Pass(queue, "other") ELSE worker
    /\ UNCHANGED <<queue, online, signedIn, moved, timer, lastFired,
                   recurred>>

NoneSending == \A o \in Ops : queue[o].status # "sending"

Visit(o) ==
    /\ o \in worker.todo /\ NoneSending /\ ~worker.stale
    /\ LET rest == [worker EXCEPT !.todo = @ \ {o}]
       IN IF queue[o].status # "due" \/ o \in Skipped
          THEN /\ worker' = rest
               /\ UNCHANGED <<queue, online, signedIn, moved, timer, lastFired,
                   recurred>>
          ELSE Mutate(o, "sending", queue[o].attempts, rest)
    /\ UNCHANGED asked

Confirm(o) ==
    /\ queue[o].status = "sending"
    /\ Mutate(o, "gone", 0, worker)
    /\ UNCHANGED asked

(* The retry budget of markRetryableFailure.                               *)
Exhausted(n) == n >= MaxRetryAttempts

RetryLater(o) ==
    LET n == queue[o].attempts + 1
    IN  /\ queue[o].status = "sending"
        /\ Mutate(o, IF Exhausted(n) THEN "failed" ELSE "waiting", n,
                  worker)
        /\ UNCHANGED asked

GiveUp(o) ==
    /\ queue[o].status = "sending"
    /\ Mutate(o, "failed", queue[o].attempts, worker)
    /\ UNCHANGED asked

(* The pass ends.  Only the scheduler's own pass tells it so, through     *)
(* whenComplete, and is followed by a new evaluation.                      *)
EndPass ==
    /\ worker # Idle /\ NoneSending
    /\ worker.todo = {} \/ worker.stale
    /\ UNCHANGED <<queue, online, signedIn, moved, asked, recurred>>
    /\ IF worker.by = "scheduler"
       THEN Rearm(queue, Idle, lastFired)
       ELSE worker' = Idle /\ UNCHANGED <<timer, lastFired>>

-----------------------------------------------------------------------------
Answer(o) == Confirm(o) \/ RetryLater(o) \/ GiveUp(o)
Work == EndPass \/ \E o \in Ops : Visit(o) \/ Answer(o)

SchedulerNext ==
    \/ AskForPass \/ GoOffline \/ GoOnline \/ ChangeUser
    \/ NotifyScopeChanged \/ TimerFires \/ StartAsked
    \/ Work
    \/ \E o \in Ops :
          Enqueue(o) \/ Retry(o) \/ Discard(o) \/ BackoffElapsed(o)

(* Fairness: time passes, an armed timer whose deadline is over fires, the *)
(* event loop runs its microtasks, and a request is answered or times out. *)
Fairness ==
    /\ WF_schedulerVars(NotifyScopeChanged) /\ WF_schedulerVars(TimerFires)
    /\ WF_schedulerVars(StartAsked) /\ WF_schedulerVars(Work)
    /\ \A o \in Ops : WF_schedulerVars(BackoffElapsed(o))

SchedulerSpec == SchedulerInit /\ [][SchedulerNext]_schedulerVars /\ Fairness

-----------------------------------------------------------------------------
(* With nothing due and something waiting the timer is armed whenever the  *)
(* device is online, whatever flips, passes and mutations came before.     *)
TimerArmed ==
    online /\ Pending(queue) # {} /\ Due(queue) = {} => timer

Steady == <>[](online /\ signedIn)
Sent(o) == (o \in Pending(queue)) ~> (o \notin Pending(queue))

NothingBlocked == [](Skipped \cap Pending(queue) = {})

(* A pass asked for by somebody else meets no newcomer: nothing becomes    *)
(* due, and nobody signs in or out, while it runs.                         *)
NoNewcomer ==
    []((worker.by = "other") => ~worker.stale /\ Due(queue) \subseteq worker.todo)

(* The queue never returns to the fingerprint fired last by way of another *)
(* one, as it does when Retry revives an entry that failed at its first    *)
(* attempt.                                                                *)
NoRecurrence == []~recurred

(* Once the device stays online and the user signed in, every PENDING      *)
(* entry is sent, without anybody pressing a button ..                     *)
RetriesHappen ==
    Steady /\ NothingBlocked /\ NoNewcomer /\ NoRecurrence
      => \A o \in Ops : Sent(o)

(* .. even behind an entry that is never sent (the scheduler's comment:    *)
(* it "closes that gap" of retries that stall until an external trigger) ..*)
RetriesPastBlocked ==
    Steady /\ NoNewcomer /\ NoRecurrence => \A o \in Ops \ Skipped : Sent(o)

(* .. and when a manual pass ran meanwhile (the scheduler's comment: the   *)
(* next burst "is deferred to the post-burst re-arm").                     *)
RetriesAfterManualPass ==
    Steady /\ NothingBlocked /\ NoRecurrence => \A o \in Ops : Sent(o)
=============================================================================

------------------------------ MODULE Billing ------------------------------
(***************************************************************************)
(* The subscription of one company and its invoices, as the billing jobs   *)
(* (BillingCronService), the Stripe webhooks (WebhookEngineService) and    *)
(* the people who administer it change them, all at the same time.         *)
(*                                                                         *)
(* A job holds a lock in Redis that runs out by itself, so that two runs   *)
(* of a job may overlap.  A webhook may be delivered any number of times,  *)
(* also at once and in any order.  What remains are the rowVersion of the  *)
(* subscription and of an invoice, compared by the write that ends every   *)
(* transaction, and the unique key of a refund.  No transaction writes     *)
(* two of these rows before its last statement, and all its rows appear    *)
(* with its commit, so that the write and the commit are one step here.    *)
(* Operators named Mutant.. are plausible bugs of the definition that      *)
(* follows them.                                                           *)
(***************************************************************************)
EXTENDS Integers, FiniteSets, Null

CONSTANTS
    Invoices,      \* invoices that can be made
    Events,        \* events that Stripe can send
    Runs,          \* runs of jobs, deliveries and requests at the same time
    MaxRetries,    \* passes over a past-due subscription before it is suspended
    MaxRequests    \* bound on the runs, deliveries and requests begun

Statuses ==
    {"NEW", "TRIAL", "ACTIVE", "PAST_DUE", "SUSPENDED", "CANCELLED", "EXPIRED", "FREE"}

(* Which statuses transitionStatus accepts after a status.                 *)
Transitions ==
    [NEW |-> {"TRIAL", "FREE"},
     TRIAL |-> {"ACTIVE", "FREE"},
     ACTIVE |-> {"PAST_DUE", "CANCELLED", "FREE"},
     PAST_DUE |-> {"ACTIVE", "SUSPENDED"},
     SUSPENDED |-> {"ACTIVE", "EXPIRED"},
     CANCELLED |-> {"ACTIVE", "EXPIRED"},
     EXPIRED |-> {"ACTIVE", "FREE"},
     FREE |-> {"ACTIVE"}]

Ended == {"CANCELLED", "EXPIRED"}

Jobs == {"trials", "invoices", "retry", "resume"}

(* What an event of Stripe asks for.                                       *)
AboutInvoice == {"paid", "failed", "refunded"}
AboutSubscription == {"checkout", "pastDue", "active", "deleted"}
Webhooks == AboutInvoice \cup AboutSubscription

(* A run: what it is, the status it asks for, the event and the invoice it *)
(* is about, and what it has read.                                         *)
Kinds == Jobs \cup Webhooks \cup
    {"changePlan", "restore", "cancel", "set", "pay", "payByCard", "void"}
Steps == {"select", "count", "payment", "check", "lookup", "converge", "read", "existing",
          "write", "link", "readInvoice", "writeInvoice", "refund", "mark"}

SubscriptionRow == [period : Nat, status : Statuses, version : Nat, due : BOOLEAN,
                    retries : Nat, linked : BOOLEAN]
InvoiceRow == [period : Nat, status : {"PENDING", "PAID", "CANCELLED"}, provider : BOOLEAN,
               version : Nat]
Occurrence == [kind : Webhooks, invoice : Invoices \cup {None}]
RunState == [invoice : Invoices \cup {None}, event : Events \cup {None}, kind : Kinds,
             step : Steps, target : Statuses \cup {None},
             saw : SubscriptionRow \cup InvoiceRow \cup {None}]

ASSUME BillingAssumption ==
    /\ MaxRetries \in Nat \ {0}
    /\ MaxRequests \in Nat
    /\ None \notin Invoices \cup Events \cup Runs
    /\ None \notin InvoiceRow /\ None \notin Occurrence /\ None \notin RunState

VARIABLES
    sub,        \* the CompanySubscription
    invoice,    \* invoice[i]: an Invoice, or None
    succeeded,  \* succeeded[i]: SUCCEEDED payment transactions of an invoice
    refunds,    \* refunds[e]: REFUNDED transactions made of an event
    event,      \* event[e]: what Stripe has sent, or None
    processed,  \* events marked as processed
    lock,       \* lock[j]: the run that holds the lock of a job, or None
    run,        \* run[r]: what is running, or None
    requests    \* begun so far

Data == <<sub, invoice, succeeded, refunds>>
vars == <<Data, event, processed, lock, run, requests>>

(* The statuses in which a webhook that was refused has already been       *)
(* applied (transitionSubscriptionConverged).                              *)
Expected(kind) ==
    CASE kind \in {"checkout", "active"} -> {"ACTIVE"}
      [] kind \in {"failed", "pastDue"} -> {"PAST_DUE"}
      [] kind = "deleted" -> Ended
      [] OTHER -> {}

Invoice(period) == [period |-> period, status |-> "PENDING", provider |-> FALSE, version |-> 0]

Run(kind, step, target, e, i) ==
    [invoice |-> i, event |-> e, kind |-> kind, step |-> step, target |-> target, saw |-> None]

(* A trial, or a subscription whose last period may have been invoiced and *)
(* paid by card.                                                           *)
Init ==
    /\ \E status \in {"TRIAL", "ACTIVE", "PAST_DUE"}, due \in BOOLEAN,
          I \in {{}} \cup {{i} : i \in Invoices} :
        /\ I # {} => status # "TRIAL"
        /\ sub = [period |-> IF I = {} THEN 0 ELSE 1, status |-> status, version |-> 0, due |-> due,
                  retries |-> 0, linked |-> status # "TRIAL"]
        /\ invoice = [i \in Invoices |-> IF i \in I
                THEN [Invoice(0) EXCEPT !.status = "PAID", !.provider = TRUE] ELSE None]
        /\ succeeded = [i \in Invoices |-> IF i \in I THEN 1 ELSE 0]
    /\ refunds = [e \in Events |-> 0]
    /\ event = [e \in Events |-> None]
    /\ processed = {}
    /\ lock = [j \in Jobs |-> None]
    /\ run = [r \in Runs |-> None]
    /\ requests = 0

Running == {r \in Runs : run[r] # None}
At(r, step) == r \in Running /\ run[r].step = step
Known == {i \in Invoices : invoice[i] # None}

-----------------------------------------------------------------------------
Begin(r, new) ==
    /\ run[r] = None
    /\ requests < MaxRequests
    /\ requests' = requests + 1
    /\ run' = [run EXCEPT ![r] = new]
    /\ UNCHANGED <<Data, processed>>

(* RedisService.acquireLock, SET NX EX.                                    *)
StartJob(r) ==
    \E j \in Jobs :
        /\ lock[j] = None
        /\ lock' = [lock EXCEPT ![j] = r]
        /\ Begin(r, Run(j, "select", None, None, None))
        /\ UNCHANGED event

(* A request of a person: the plan is changed, the subscription cancelled, *)
(* resumed or set to a status, any but those of a subscription that has    *)
(* not begun, which no transition leads back to; an invoice is paid by     *)
(* hand, with or without the number of Stripe's own invoice, or voided.    *)
Ask(r) ==
    /\ \/ \E kind \in {"changePlan", "restore"} : Begin(r, Run(kind, "read", "ACTIVE", None, None))
       \/ Begin(r, Run("cancel", "read", "CANCELLED", None, None))
       \/ \E target \in Statuses \ {"NEW", "TRIAL"} :
            Begin(r, Run("set", "read", target, None, None))
       \/ \E i \in Known, kind \in {"pay", "payByCard", "void"} :
            Begin(r, Run(kind, "readInvoice", None, None, i))
    /\ UNCHANGED <<event, lock>>

Target(kind) ==
    CASE kind \in {"checkout", "active"} -> "ACTIVE"
      [] kind \in {"failed", "pastDue"} -> "PAST_DUE"
      [] kind = "deleted" -> "CANCELLED"
      [] OTHER -> None

(* An event is delivered, for the first time or again.                     *)
Deliver(r) ==
    \E e \in Events :
        /\ \/ event[e] # None /\ UNCHANGED event
           \/ /\ event[e] = None
              /\ \/ \E kind \in AboutSubscription :
                        event' = [event EXCEPT ![e] = [kind |-> kind, invoice |-> None]]
                 \/ \E kind \in AboutInvoice, i \in Known :
                        event' = [event EXCEPT ![e] = [kind |-> kind, invoice |-> i]]
        /\ Begin(r, Run(event'[e].kind, "check", Target(event'[e].kind), e, event'[e].invoice))
        /\ UNCHANGED lock

-----------------------------------------------------------------------------
(* Steps.                                                                  *)

Goes(r, step) == run' = [run EXCEPT ![r].step = step]

(* A job releases its lock unless another run has taken it since.          *)
Finish(r) ==
    /\ run' = [run EXCEPT ![r] = None]
    /\ lock' = [j \in Jobs |-> IF lock[j] = r /\ run[r].kind = j THEN None ELSE lock[j]]

Still == UNCHANGED <<Data, event, processed, requests>>

(* What a job finds to do.                                                 *)
Selected(kind) ==
    CASE kind = "trials" -> sub.status = "TRIAL"
      [] kind = "invoices" -> sub.status = "ACTIVE" /\ sub.due
      [] kind = "retry" -> sub.status = "PAST_DUE" /\ sub.retries < MaxRetries
      [] kind = "resume" -> sub.status = "PAST_DUE"

JobTarget(kind) ==
    CASE kind = "trials" -> "FREE"
      [] kind = "retry" -> "SUSPENDED"
      [] kind = "resume" -> "ACTIVE"
      [] OTHER -> None

Select(r) ==
    LET kind == run[r].kind IN
    /\ At(r, "select")
    /\ IF Selected(kind)
       THEN /\ run' = [run EXCEPT ![r].target = JobTarget(kind), ![r].saw = sub,
                    ![r].step = CASE kind = "retry" -> "count"
                                  [] kind = "resume" -> "payment"
                                  [] OTHER -> "read"]
            /\ UNCHANGED lock
       ELSE Finish(r)
    /\ Still

(* The retries are incremented where they are stored; what comes out       *)
(* decides.                                                                *)
Count(r) ==
    /\ At(r, "count")
    /\ sub' = [sub EXCEPT !.retries = @ + 1]
    /\ IF sub'.retries >= MaxRetries THEN Goes(r, "read") /\ UNCHANGED lock ELSE Finish(r)
    /\ UNCHANGED <<invoice, succeeded, refunds, event, processed, requests>>

(* A payment of the last seven days counts, whatever it was for.           *)
FindPayment(r) ==
    /\ At(r, "payment")
    /\ \/ (\E i \in Invoices : succeeded[i] > 0) /\ Goes(r, "read") /\ UNCHANGED lock
       \/ Finish(r)
    /\ Still

(* isAlreadyProcessed: a store that does not answer knows of nothing.      *)
Check(r) ==
    /\ At(r, "check")
    /\ \/ run[r].event \in processed /\ Finish(r)
       \/ Goes(r, "lookup") /\ UNCHANGED lock
    /\ Still

(* An invoice is found by the number of Stripe's invoice, the subscription *)
(* by that of Stripe's subscription.                                       *)
Lookup(r) ==
    LET kind == run[r].kind
        found == invoice[run[r].invoice].provider IN
    /\ At(r, "lookup")
    /\ Goes(r, CASE kind = "checkout" -> IF sub.status # "ACTIVE" THEN "read" ELSE "link"
                 [] kind = "active" -> IF sub.linked /\ sub.status = "PAST_DUE" THEN "read" ELSE "mark"
                 [] kind \in {"pastDue", "deleted"} -> IF sub.linked THEN "read" ELSE "mark"
                 [] kind = "failed" -> IF found THEN "read" ELSE "mark"
                 [] kind = "paid" -> IF found THEN "readInvoice" ELSE "mark"
                 [] kind = "refunded" -> IF found THEN "refund" ELSE "mark")
    /\ UNCHANGED lock
    /\ Still

(* A request that is refused, or loses to another writer: a webhook is     *)
(* handled if it has been applied already, and fails if not.               *)
Refuse(r) ==
    IF run[r].kind \in Webhooks
    THEN Goes(r, "converge") /\ UNCHANGED lock
    ELSE Finish(r)

Converge(r) ==
    LET kind == run[r].kind
        applied == IF kind = "paid" THEN invoice[run[r].invoice].status = "PAID"
                                    ELSE sub.status \in Expected(kind) IN
    /\ At(r, "converge")
    /\ IF applied
       THEN Goes(r, IF kind = "checkout" THEN "link" ELSE "mark") /\ UNCHANGED lock
       ELSE Finish(r)
    /\ Still

Accepted(r) ==
    LET kind == run[r].kind IN
    CASE kind \in {"changePlan", "invoices"} -> TRUE
      [] kind = "trials" -> sub.status = "TRIAL"
      [] kind = "restore" -> sub.status = "CANCELLED"
      [] kind \in {"cancel", "deleted"} -> sub.status \notin Ended
      [] OTHER -> run[r].target \in Transitions[sub.status]

Read(r) ==
    /\ At(r, "read")
    /\ IF Accepted(r)
       THEN /\ run' = [run EXCEPT ![r].saw = sub,
                    ![r].step = IF run[r].kind = "invoices" THEN "existing" ELSE "write"]
            /\ UNCHANGED lock
       ELSE Refuse(r)
    /\ Still

(* The period that was read may have its invoice already.                  *)
FindExisting(r) ==
    /\ At(r, "existing")
    /\ IF \E i \in Known : invoice[i].period = run[r].saw.period /\ invoice[i].status # "CANCELLED"
       THEN Finish(r)
       ELSE Goes(r, "write") /\ UNCHANGED lock
    /\ Still

-----------------------------------------------------------------------------
(* Writes.                                                                 *)

Written(r) ==
    CASE run[r].kind = "changePlan" -> [sub EXCEPT !.version = @ + 1]
      [] run[r].kind = "invoices" ->
            [sub EXCEPT !.version = @ + 1, !.period = @ + 1, !.due = FALSE]
      [] OTHER -> [sub EXCEPT !.version = @ + 1, !.status = run[r].target]

Write(r) ==
    /\ sub' = Written(r)
    /\ IF run[r].kind = "invoices"
       THEN \E i \in Invoices \ Known : invoice' = [invoice EXCEPT ![i] = Invoice(run[r].saw.period)]
       ELSE UNCHANGED invoice
    /\ IF run[r].kind \in Webhooks
       THEN Goes(r, IF run[r].kind = "checkout" THEN "link" ELSE "mark") /\ UNCHANGED lock
       ELSE Finish(r)
    /\ UNCHANGED <<succeeded, refunds, event, processed, requests>>

(* updateByCompany, by the version that was read.                          *)
MutantCommit(r) == At(r, "write") /\ Write(r)

Commit(r) ==
    /\ At(r, "write")
    /\ IF sub.version = run[r].saw.version THEN Write(r) ELSE Refuse(r) /\ Still

(* The numbers of Stripe's customer and subscription are written by no     *)
(* version.                                                                *)
Link(r) ==
    /\ At(r, "link")
    /\ sub' = [sub EXCEPT !.linked = TRUE]
    /\ Goes(r, "mark")
    /\ UNCHANGED <<invoice, succeeded, refunds, event, processed, lock, requests>>

ReadInvoice(r) ==
    /\ At(r, "readInvoice")
    /\ IF invoice[run[r].invoice].status = "PENDING"
       THEN run' = [run EXCEPT ![r].saw = invoice[run[r].invoice], ![r].step = "writeInvoice"]
            /\ UNCHANGED lock
       ELSE Refuse(r)
    /\ Still

(* markPaid and voidInvoice.                                               *)
WriteInvoice(r) ==
    LET i == run[r].invoice
        pays == run[r].kind # "void" IN
    /\ invoice' = [invoice EXCEPT
            ![i].status = IF pays THEN "PAID" ELSE "CANCELLED",
            ![i].provider = @ \/ run[r].kind \in {"paid", "payByCard"},
            ![i].version = @ + 1]
    /\ succeeded' = [succeeded EXCEPT ![i] = @ + IF pays THEN 1 ELSE 0]
    /\ IF run[r].kind \in Webhooks THEN Goes(r, "mark") /\ UNCHANGED lock ELSE Finish(r)
    /\ UNCHANGED <<sub, refunds, event, processed, requests>>

MutantCommitInvoice(r) == At(r, "writeInvoice") /\ WriteInvoice(r)

CommitInvoice(r) ==
    /\ At(r, "writeInvoice")
    /\ IF invoice[run[r].invoice].version = run[r].saw.version
       THEN WriteInvoice(r)
       ELSE Refuse(r) /\ Still

(* The key of a refund is made of its charge and its amount: the same for  *)
(* every delivery of the event.                                            *)
RecordRefund(r) ==
    /\ At(r, "refund")
    /\ refunds' = [refunds EXCEPT ![run[r].event] = IF @ = 0 THEN 1 ELSE @]
    /\ Goes(r, "mark")
    /\ UNCHANGED <<sub, invoice, succeeded, event, processed, lock, requests>>

(* markProcessed, which may fail unnoticed.                                *)
Mark(r) ==
    /\ At(r, "mark")
    /\ \E done \in {{}, {run[r].event}} : processed' = processed \cup done
    /\ Finish(r)
    /\ UNCHANGED <<Data, event, requests>>

-----------------------------------------------------------------------------
(* A run dies and leaves its lock behind.                                  *)
Crash(r) ==
    /\ r \in Running
    /\ run' = [run EXCEPT ![r] = None]
    /\ UNCHANGED <<Data, event, processed, lock, requests>>

(* The time to live of a lock ends.                                        *)
Expire ==
    /\ \E j \in Jobs : lock[j] # None /\ lock' = [lock EXCEPT ![j] = None]
    /\ UNCHANGED <<Data, event, processed, run, requests>>

(* The end of the period comes.                                            *)
FallDue ==
    /\ ~sub.due
    /\ sub' = [sub EXCEPT !.due = TRUE]
    /\ UNCHANGED <<invoice, succeeded, refunds, event, processed, lock, run, requests>>

(* What is older than ninety days is forgotten.                            *)
Cleanup ==
    /\ \E old \in SUBSET processed : processed' = processed \ old
    /\ \/ UNCHANGED sub
       \/ /\ sub.status = "ACTIVE" /\ sub.retries > 0
          /\ sub' = [sub EXCEPT !.retries = 0]
    /\ UNCHANGED <<invoice, succeeded, refunds, event, lock, run, requests>>

Step(r) ==
    \/ Select(r) \/ Count(r) \/ FindPayment(r) \/ Check(r) \/ Lookup(r) \/ Converge(r)
    \/ Read(r) \/ FindExisting(r) \/ Commit(r) \/ Link(r) \/ ReadInvoice(r)
    \/ CommitInvoice(r) \/ RecordRefund(r) \/ Mark(r) \/ Crash(r)

Next ==
    \/ \E r \in Runs : StartJob(r) \/ Ask(r) \/ Deliver(r) \/ Step(r)
    \/ Expire \/ FallDue \/ Cleanup

Spec == Init /\ [][Next]_vars

-----------------------------------------------------------------------------
(* Properties.                                                             *)

(* A billing period has one standing invoice, though two runs of the job   *)
(* find it without one.                                                    *)
OneInvoicePerPeriod ==
    \A i, j \in Known :
        /\ i # j
        /\ invoice[i].period = invoice[j].period
        => "CANCELLED" \in {invoice[i].status, invoice[j].status}

(* An invoice has one payment if it is paid and none if it is not, and a   *)
(* refund is recorded once, however often it is asked for or delivered.    *)
RecordedOnce ==
    /\ \A i \in Known : succeeded[i] = IF invoice[i].status = "PAID" THEN 1 ELSE 0
    /\ \A e \in Events : refunds[e] <= 1

(* What a run may have found, if it changes the status: the job that ends  *)
(* trials a trial, a resumption a cancelled subscription.                  *)
Replaces(kind, status) ==
    /\ kind = "trials" => status = "TRIAL"
    /\ kind = "restore" => status = "CANCELLED"

(* A status is only replaced by one that may follow it, whoever was the    *)
(* last to write: a suspension decided before a payment does not undo the  *)
(* activation it brought.  And a run replaces only what it is there to     *)
(* replace: the end of a trial does not undo an activation that was paid   *)
(* for in the meantime, which the table of transitions would allow.        *)
StatusMoves ==
    [][sub'.status # sub.status =>
        /\ \/ sub'.status \in Transitions[sub.status]
           \/ sub'.status = "CANCELLED" /\ sub.status \notin Ended
        /\ \A r \in Running :
              run'[r] # run[r] => Replaces(run[r].kind, sub.status)]_vars

(* What generateRecurringInvoice says: a run that overlaps another makes   *)
(* no invoice of its own, since the period has been invoiced.              *)
InvoicedWhenDue ==
    [][Cardinality(Known') > Cardinality(Known) => sub.due]_vars

(* What resumeAfterPayment says: a subscription that has left PAST_DUE     *)
(* since it was collected is left alone.                                   *)
ResumedWasPastDue ==
    [][\A r \in Running :
        run[r].kind = "resume" /\ run'[r] # run[r] /\ sub'.status # sub.status
            => sub.status = "PAST_DUE"]_vars

(* What the retry job says: a subscription that has been passed over       *)
(* MaxRetries times does not stay past due once nothing runs.              *)
SuspendedInTheEnd ==
    Running = {} /\ sub.status = "PAST_DUE" => sub.retries < MaxRetries
=============================================================================

---------------------------- MODULE BillingProofs ----------------------------
(***************************************************************************)
(* For any number of invoices, events and runs, and however the locks of   *)
(* the jobs run out: one invoice per period, one payment per invoice, and  *)
(* no status out of order.  The argument is that of optimistic locking: as *)
(* long as a row has the version a run has read, what the run has decided  *)
(* from it still holds.                                                    *)
(*                                                                         *)
(* And for any entries of the outbox, that RetryScheduler.tla is never     *)
(* without the timer it needs (second part).                               *)
(***************************************************************************)
EXTENDS Billing, RetryScheduler, TLAPS

Has(inv) == {i \in Invoices : inv[i] # None}

(* What may follow a status (StatusMoves).                                 *)
Follows(old, new) ==
    new \in Transitions[old] \/ (new = "CANCELLED" /\ old \notin Ended)

(* The status that a run asks for, where the guard says less than          *)
(* Transitions.                                                            *)
TargetFits(x) ==
    /\ x.kind = "trials" => x.target = "FREE"
    /\ x.kind = "restore" => x.target = "ACTIVE"
    /\ x.kind \in {"cancel", "deleted"} => x.target = "CANCELLED"

PaysOrVoids == {"paid", "pay", "payByCard", "void"}

(* What a run is about: known when it begins, and for good.                *)
About(x, inv) ==
    /\ x \in RunState
    /\ x.kind \in AboutInvoice \cup PaysOrVoids => x.invoice \in Has(inv)
    /\ x.step = "select" => x.kind \in Jobs
    /\ x.step \in {"check", "lookup"} => x.kind \in Webhooks
    /\ x.step \in {"readInvoice", "writeInvoice"} => x.kind \in PaysOrVoids
    /\ x.step = "existing" => x.kind = "invoices"
    /\ x.step # "select" => TargetFits(x)

(* The subscription that a run has read: while it has that version, what   *)
(* the run is about to write may follow it.                                *)
Decided(x, s, inv) ==
    IF x.kind = "invoices"
    THEN \A i \in Has(inv) : inv[i].period = x.saw.period => inv[i].status = "CANCELLED"
    ELSE \/ x.kind = "changePlan"
         \/ /\ Follows(s.status, x.target)
            /\ Replaces(x.kind, s.status)

KnowsSubscription(x, s, inv) ==
    x.step \in {"existing", "write"} =>
        /\ x.saw \in SubscriptionRow
        /\ x.saw.version <= s.version
        /\ x.step = "write" /\ x.saw.version = s.version => Decided(x, s, inv)

(* The invoice that a run has read: while it has that version, it is       *)
(* still to be paid.                                                       *)
KnowsInvoice(x, inv) ==
    x.step = "writeInvoice" =>
        /\ x.saw \in InvoiceRow
        /\ x.saw.version <= inv[x.invoice].version
        /\ x.saw.version = inv[x.invoice].version => inv[x.invoice].status = "PENDING"

RunOK(x, s, inv) == About(x, inv) /\ KnowsSubscription(x, s, inv) /\ KnowsInvoice(x, inv)

(* How the rows may change under a run that does not change them.          *)
Later(s, inv, s2, inv2) ==
    /\ Has(inv) \subseteq Has(inv2)
    /\ s.version <= s2.version
    /\ s2.version = s.version => s2.status = s.status /\ Has(inv2) = Has(inv)
    /\ \A i \in Has(inv) :
        /\ inv2[i].period = inv[i].period
        /\ inv[i].status = "CANCELLED" => inv2[i].status = "CANCELLED"
        /\ inv[i].version <= inv2[i].version
        /\ inv2[i].version = inv[i].version => inv2[i] = inv[i]

DataOK ==
    /\ sub \in SubscriptionRow
    /\ invoice \in [Invoices -> InvoiceRow \cup {None}]
    /\ succeeded \in [Invoices -> Nat]
    /\ refunds \in [Events -> Nat]
    /\ \A i \in Invoices : invoice[i] = None => succeeded[i] = 0
    /\ RecordedOnce
    /\ OneInvoicePerPeriod

EventsOK ==
    \A e \in Events : event[e] # None =>
        /\ event[e] \in Occurrence
        /\ event[e].kind \in AboutInvoice => event[e].invoice \in Has(invoice)

RunsOK ==
    /\ run \in [Runs -> RunState \cup {None}]
    /\ \A r \in Runs : run[r] # None => RunOK(run[r], sub, invoice)

IInv == DataOK /\ EventsOK /\ event \in [Events -> Occurrence \cup {None}] /\ RunsOK

-----------------------------------------------------------------------------
(* Facts about the statuses.                                               *)

LEMMA TransitionsTyped ==
    /\ \A s \in Statuses : Transitions[s] \subseteq Statuses
    /\ "FREE" \in Transitions["TRIAL"]
    /\ "ACTIVE" \in Transitions["CANCELLED"]
<1>1. \A s \in Statuses : Transitions[s] \subseteq Statuses
  BY DEF Transitions, Statuses
<1> QED
  BY <1>1 DEF Transitions

(* A run keeps what it knows while others change the rows.                 *)
LEMMA RunStays ==
    ASSUME NEW x, NEW s \in SubscriptionRow, NEW s2 \in SubscriptionRow,
           NEW inv \in [Invoices -> InvoiceRow \cup {None}],
           NEW inv2 \in [Invoices -> InvoiceRow \cup {None}],
           Later(s, inv, s2, inv2), RunOK(x, s, inv)
    PROVE  RunOK(x, s2, inv2)
<1>1. About(x, inv2)
  BY DEF RunOK, About, Later
<1>2. KnowsSubscription(x, s2, inv2)
  <2> SUFFICES ASSUME x.step \in {"existing", "write"}
               PROVE  /\ x.saw \in SubscriptionRow
                      /\ x.saw.version <= s2.version
                      /\ x.step = "write" /\ x.saw.version = s2.version => Decided(x, s2, inv2)
    BY DEF KnowsSubscription
  <2>1. /\ x.saw \in SubscriptionRow /\ x.saw.version <= s.version
        /\ x.step = "write" /\ x.saw.version = s.version => Decided(x, s, inv)
    BY DEF RunOK, KnowsSubscription
  <2>2. /\ x.saw.version \in Nat /\ s.version \in Nat /\ s2.version \in Nat
        /\ s.version <= s2.version
    BY <2>1 DEF SubscriptionRow, Later
  <2>3. ASSUME x.step = "write", x.saw.version = s2.version PROVE Decided(x, s2, inv2)
    <3>1. x.saw.version = s.version /\ s2.version = s.version
      BY <2>1, <2>2, <2>3
    <3>2. Decided(x, s, inv) /\ s2.status = s.status /\ Has(inv2) = Has(inv)
      BY <2>1, <2>3, <3>1 DEF Later
    <3> QED
      BY <3>2 DEF Decided, Later
  <2> QED
    BY <2>1, <2>2, <2>3
<1>3. KnowsInvoice(x, inv2)
  <2> SUFFICES ASSUME x.step = "writeInvoice"
               PROVE  /\ x.saw \in InvoiceRow
                      /\ x.saw.version <= inv2[x.invoice].version
                      /\ x.saw.version = inv2[x.invoice].version => inv2[x.invoice].status = "PENDING"
    BY DEF KnowsInvoice
  <2>1. x.invoice \in Has(inv)
    BY DEF RunOK, About
  <2>2. /\ x.saw \in InvoiceRow
        /\ x.saw.version <= inv[x.invoice].version
        /\ x.saw.version = inv[x.invoice].version => inv[x.invoice].status = "PENDING"
    BY DEF RunOK, KnowsInvoice
  <2>3. inv[x.invoice] \in InvoiceRow /\ inv2[x.invoice] \in InvoiceRow
    BY <2>1 DEF Has, Later
  <2>4. /\ inv[x.invoice].version <= inv2[x.invoice].version
        /\ inv2[x.invoice].version = inv[x.invoice].version => inv2[x.invoice] = inv[x.invoice]
    BY <2>1 DEF Later
  <2>5. /\ x.saw.version \in Nat
        /\ inv[x.invoice].version \in Nat /\ inv2[x.invoice].version \in Nat
    BY <2>2, <2>3 DEF InvoiceRow
  <2> QED
    BY <2>2, <2>4, <2>5
<1> QED
  BY <1>1, <1>2, <1>3 DEF RunOK

(* What is left to show of a step of r: that the rows change as they may,  *)
(* and that r goes on with what it knows, or ends.                         *)
LEMMA StepPreserves ==
    ASSUME IInv, NEW r \in Runs, NEW y \in RunState \cup {None},
           run' = [run EXCEPT ![r] = y],
           y # None => RunOK(y, sub', invoice'),
           DataOK', Later(sub, invoice, sub', invoice'), UNCHANGED event
    PROVE  IInv'
<1>1. EventsOK' /\ (event \in [Events -> Occurrence \cup {None}])'
  BY DEF IInv, EventsOK, Later
<1>2. run' \in [Runs -> RunState \cup {None}]
  BY DEF IInv, RunsOK
<1>3. ASSUME NEW q \in Runs, run'[q] # None PROVE RunOK(run'[q], sub', invoice')
  <2>1. CASE q = r
    BY <1>3, <2>1 DEF IInv, RunsOK
  <2>2. CASE q # r
    <3>1. run'[q] = run[q]
      BY <2>2 DEF IInv, RunsOK
    <3>2. RunOK(run[q], sub, invoice)
      BY <1>3, <3>1 DEF IInv, RunsOK
    <3> QED
      BY <3>1, <3>2, RunStays DEF IInv, DataOK
  <2> QED
    BY <2>1, <2>2
<1> QED
  BY <1>1, <1>2, <1>3 DEF IInv, RunsOK

(* Rows that do not change.                                                *)
LEMMA Same == IInv /\ UNCHANGED Data => DataOK' /\ Later(sub, invoice, sub', invoice')
<1> SUFFICES ASSUME IInv, UNCHANGED Data PROVE DataOK' /\ Later(sub, invoice, sub', invoice')
  OBVIOUS
<1>1. sub' = sub /\ invoice' = invoice /\ succeeded' = succeeded /\ refunds' = refunds
  BY DEF Data
<1>2. DataOK'
  BY <1>1 DEF IInv, DataOK, RecordedOnce, OneInvoicePerPeriod, Known
<1>3. \A i \in Has(invoice) : invoice[i] \in InvoiceRow
  BY DEF Has, IInv, DataOK
<1>4. Later(sub, invoice, sub', invoice')
  BY <1>1, <1>3 DEF Later, IInv, DataOK, SubscriptionRow, InvoiceRow
<1> QED
  BY <1>2, <1>4

(* Steps that change no row, and steps of nobody.                          *)
LEMMA ReadPreserves ==
    ASSUME IInv, NEW r \in Runs, NEW y \in RunState \cup {None},
           run' = [run EXCEPT ![r] = y],
           y # None => RunOK(y, sub, invoice),
           UNCHANGED Data, UNCHANGED event
    PROVE  IInv'
<1>1. sub' = sub /\ invoice' = invoice
  BY DEF Data
<1> QED
  BY <1>1, Same, StepPreserves

LEMMA RowsPreserve ==
    ASSUME IInv, UNCHANGED run, UNCHANGED event,
           DataOK', Later(sub, invoice, sub', invoice')
    PROVE  IInv'
<1>1. EventsOK' /\ (event \in [Events -> Occurrence \cup {None}])'
  BY DEF IInv, EventsOK, Later
<1>2. ASSUME NEW q \in Runs, run'[q] # None PROVE RunOK(run'[q], sub', invoice')
  BY <1>2, RunStays DEF IInv, RunsOK, DataOK
<1> QED
  BY <1>1, <1>2 DEF IInv, RunsOK

LEMMA EndPreserves ==
    ASSUME IInv, NEW r \in Runs, run' = [run EXCEPT ![r] = None],
           UNCHANGED Data, UNCHANGED event
    PROVE  IInv'
  BY ReadPreserves

(* A run goes on to a step that asks for nothing it does not know.         *)
LEMMA GoOn ==
    ASSUME NEW x, NEW s, NEW inv, RunOK(x, s, inv), NEW step \in Steps,
           x.step # "select",
           step \notin {"select", "check", "existing", "write", "writeInvoice"},
           step = "lookup" => x.kind \in Webhooks,
           step = "readInvoice" => x.kind \in PaysOrVoids
    PROVE  /\ [x EXCEPT !.step = step] \in RunState
           /\ RunOK([x EXCEPT !.step = step], s, inv)
<1>1. x \in RunState
  BY DEF RunOK, About
<1> DEFINE y == [x EXCEPT !.step = step]
<1>2. /\ y \in RunState
      /\ y.step = step /\ y.kind = x.kind /\ y.target = x.target /\ y.invoice = x.invoice
  BY <1>1 DEF RunState
<1> HIDE DEF y
<1>3. About(y, inv)
  BY <1>2 DEF RunOK, About, TargetFits
<1>4. KnowsSubscription(y, s, inv) /\ KnowsInvoice(y, inv)
  BY <1>2 DEF KnowsSubscription, KnowsInvoice
<1>5. RunOK(y, s, inv)
  BY <1>3, <1>4 DEF RunOK
<1> QED
  BY <1>2, <1>5 DEF y

LEMMA RunKnown ==
    ASSUME IInv, NEW r \in Runs, NEW step, At(r, step)
    PROVE  /\ run[r] # None /\ run[r].step = step
           /\ run[r] \in RunState
           /\ RunOK(run[r], sub, invoice)
  BY DEF At, Running, IInv, RunsOK, RunOK, About

-----------------------------------------------------------------------------
(* The invariant holds initially.                                          *)
LEMMA InitEstablishes == Init => IInv
<1> SUFFICES ASSUME Init PROVE IInv
  OBVIOUS
<1>1. PICK status \in {"TRIAL", "ACTIVE", "PAST_DUE"}, due \in BOOLEAN,
           I \in {{}} \cup {{i} : i \in Invoices} :
        /\ sub = [period |-> IF I = {} THEN 0 ELSE 1, status |-> status, version |-> 0,
                  due |-> due, retries |-> 0, linked |-> status # "TRIAL"]
        /\ invoice = [i \in Invoices |-> IF i \in I
                THEN [Invoice(0) EXCEPT !.status = "PAID", !.provider = TRUE] ELSE None]
        /\ succeeded = [i \in Invoices |-> IF i \in I THEN 1 ELSE 0]
  BY DEF Init
<1>2. sub \in SubscriptionRow
  BY <1>1 DEF SubscriptionRow, Statuses
<1> DEFINE paid == [Invoice(0) EXCEPT !.status = "PAID", !.provider = TRUE]
<1>3. paid \in InvoiceRow /\ paid.status = "PAID"
  BY DEF Invoice, InvoiceRow
<1> HIDE DEF paid
<1>4. /\ invoice \in [Invoices -> InvoiceRow \cup {None}]
      /\ succeeded \in [Invoices -> Nat]
      /\ refunds = [e \in Events |-> 0] /\ refunds \in [Events -> Nat]
  BY <1>1, <1>3 DEF Init, paid
<1>5. \A i \in Invoices : IF i \in I THEN invoice[i] = paid /\ succeeded[i] = 1
                                     ELSE invoice[i] = None /\ succeeded[i] = 0
  BY <1>1 DEF paid
<1>6. \A i, j \in Invoices : i \in I /\ j \in I => i = j
  BY <1>1
<1>7. \A i \in Known : i \in I /\ invoice[i] = paid
  BY <1>5 DEF Known
<1>8. RecordedOnce
  BY <1>3, <1>4, <1>5, <1>7 DEF RecordedOnce, Known
<1>9. OneInvoicePerPeriod
  BY <1>6, <1>7 DEF OneInvoicePerPeriod, Known
<1>10. DataOK
  BY <1>2, <1>4, <1>5, <1>8, <1>9, <1>3, BillingAssumption DEF DataOK
<1>11. EventsOK /\ event \in [Events -> Occurrence \cup {None}] /\ RunsOK
  BY DEF Init, EventsOK, RunsOK
<1> QED
  BY <1>10, <1>11 DEF IInv

-----------------------------------------------------------------------------
(* Every step keeps it: first those that only start a run or read.         *)

(* A run that begins knows what it is about.                               *)
LEMMA Begins ==
    ASSUME NEW kind \in Kinds, NEW step \in {"select", "read", "readInvoice", "check"},
           NEW target \in Statuses \cup {None}, NEW e \in Events \cup {None},
           NEW i \in Invoices \cup {None}, NEW s, NEW inv,
           About(Run(kind, step, target, e, i), inv)
    PROVE  /\ Run(kind, step, target, e, i) \in RunState
           /\ RunOK(Run(kind, step, target, e, i), s, inv)
<1> DEFINE y == Run(kind, step, target, e, i)
<1>1. y \in RunState /\ y.step = step
  BY DEF About, Run
<1>2. KnowsSubscription(y, s, inv) /\ KnowsInvoice(y, inv)
  BY <1>1 DEF KnowsSubscription, KnowsInvoice
<1> QED
  BY <1>1, <1>2 DEF RunOK

LEMMA RunFields ==
    ASSUME NEW kind \in Kinds, NEW step \in Steps, NEW target \in Statuses \cup {None},
           NEW e \in Events \cup {None}, NEW i \in Invoices \cup {None}
    PROVE  /\ Run(kind, step, target, e, i) \in RunState
           /\ Run(kind, step, target, e, i).kind = kind
           /\ Run(kind, step, target, e, i).step = step
           /\ Run(kind, step, target, e, i).target = target
           /\ Run(kind, step, target, e, i).invoice = i
  BY DEF Run, RunState

LEMMA StartJobPreserves == ASSUME IInv, NEW r \in Runs, StartJob(r) PROVE IInv'
<1>1. PICK j \in Jobs : Begin(r, Run(j, "select", None, None, None)) /\ UNCHANGED event
  BY DEF StartJob
<1> DEFINE y == Run(j, "select", None, None, None)
<1>2. j \in Kinds /\ "select" \in Steps
  BY DEF Kinds, Steps
<1>3. /\ y \in RunState /\ y.kind = j /\ y.step = "select"
  BY <1>2, RunFields
<1> HIDE DEF y
<1>4. About(y, invoice)
  BY <1>3 DEF About, Jobs, AboutInvoice, PaysOrVoids
<1>5. RunOK(y, sub, invoice)
  BY <1>2, <1>4, Begins DEF y
<1>6. run' = [run EXCEPT ![r] = y] /\ UNCHANGED Data
  BY <1>1 DEF Begin, y
<1> QED
  BY <1>1, <1>3, <1>5, <1>6, ReadPreserves

LEMMA AskPreserves == ASSUME IInv, NEW r \in Runs, Ask(r) PROVE IInv'
<1>1. UNCHANGED event
  BY DEF Ask
<1>2. ASSUME NEW kind \in Kinds, NEW target \in Statuses,
             Begin(r, Run(kind, "read", target, None, None)),
             kind \notin AboutInvoice \cup PaysOrVoids,
             TargetFits(Run(kind, "read", target, None, None))
      PROVE  IInv'
  <2> DEFINE y == Run(kind, "read", target, None, None)
  <2>1. y \in RunState /\ y.kind = kind /\ y.step = "read"
    BY RunFields DEF Steps
  <2> HIDE DEF y
  <2>2. About(y, invoice)
    BY <1>2, <2>1 DEF About, y
  <2>3. RunOK(y, sub, invoice)
    BY <2>2, Begins DEF y
  <2> QED
    BY <1>1, <1>2, <2>1, <2>3, ReadPreserves DEF Begin, y
<1>3. ASSUME NEW kind \in Kinds, NEW target \in Statuses
      PROVE  /\ Run(kind, "read", target, None, None).kind = kind
             /\ Run(kind, "read", target, None, None).target = target
  BY RunFields DEF Steps
<1>4. ASSUME NEW kind \in {"changePlan", "restore"},
             Begin(r, Run(kind, "read", "ACTIVE", None, None))
      PROVE  IInv'
  <2>1. kind \in Kinds /\ "ACTIVE" \in Statuses /\ kind \notin AboutInvoice \cup PaysOrVoids
    BY DEF Kinds, Statuses, AboutInvoice, PaysOrVoids
  <2>2. TargetFits(Run(kind, "read", "ACTIVE", None, None))
    BY <1>3, <2>1 DEF TargetFits
  <2> QED
    BY <1>2, <1>4, <2>1, <2>2
<1>5. ASSUME Begin(r, Run("cancel", "read", "CANCELLED", None, None)) PROVE IInv'
  <2>1. /\ "cancel" \in Kinds /\ "CANCELLED" \in Statuses
        /\ "cancel" \notin AboutInvoice \cup PaysOrVoids
    BY DEF Kinds, Statuses, AboutInvoice, PaysOrVoids
  <2>2. TargetFits(Run("cancel", "read", "CANCELLED", None, None))
    BY <1>3, <2>1 DEF TargetFits
  <2> QED
    BY <1>2, <1>5, <2>1, <2>2
<1>6. ASSUME NEW target \in Statuses \ {"NEW", "TRIAL"},
             Begin(r, Run("set", "read", target, None, None))
      PROVE  IInv'
  <2>1. /\ "set" \in Kinds /\ target \in Statuses
        /\ "set" \notin AboutInvoice \cup PaysOrVoids
    BY DEF Kinds, Statuses, AboutInvoice, PaysOrVoids
  <2>2. TargetFits(Run("set", "read", target, None, None))
    BY <1>3, <2>1 DEF TargetFits
  <2> QED
    BY <1>2, <1>6, <2>1, <2>2
<1>7. ASSUME NEW i \in Known, NEW kind \in {"pay", "payByCard", "void"},
             Begin(r, Run(kind, "readInvoice", None, None, i))
      PROVE  IInv'
  <2> DEFINE y == Run(kind, "readInvoice", None, None, i)
  <2>1. kind \in Kinds /\ "readInvoice" \in Steps /\ i \in Invoices /\ i \in Has(invoice)
    BY DEF Kinds, Steps, Known, Has
  <2>2. y \in RunState /\ y.kind = kind /\ y.step = "readInvoice" /\ y.invoice = i
    BY <2>1 DEF Run, RunState
  <2> HIDE DEF y
  <2>3. About(y, invoice)
    BY <2>1, <2>2 DEF About, TargetFits, PaysOrVoids
  <2>4. RunOK(y, sub, invoice)
    BY <2>1, <2>3, Begins DEF y
  <2> QED
    BY <1>1, <1>7, <2>2, <2>4, ReadPreserves DEF Begin, y
<1> QED
  BY <1>4, <1>5, <1>6, <1>7 DEF Ask

(* A delivery: what Stripe sends for the first time is about an invoice    *)
(* that exists.                                                            *)
LEMMA DeliverPreserves == ASSUME IInv, NEW r \in Runs, Deliver(r) PROVE IInv'
<1>1. PICK e \in Events :
        /\ \/ event[e] # None /\ UNCHANGED event
           \/ /\ event[e] = None
              /\ \/ \E kind \in AboutSubscription :
                        event' = [event EXCEPT ![e] = [kind |-> kind, invoice |-> None]]
                 \/ \E kind \in AboutInvoice, i \in Known :
                        event' = [event EXCEPT ![e] = [kind |-> kind, invoice |-> i]]
        /\ Begin(r, Run(event'[e].kind, "check", Target(event'[e].kind), e, event'[e].invoice))
  BY DEF Deliver
<1>2. sub' = sub /\ invoice' = invoice /\ UNCHANGED Data
  BY <1>1 DEF Begin, Data
<1> DEFINE o == event'[e]
<1>3. /\ event' \in [Events -> Occurrence \cup {None}]
      /\ o \in Occurrence
      /\ o.kind \in AboutInvoice => o.invoice \in Has(invoice)
      /\ \A f \in Events \ {e} : event'[f] = event[f]
  <2>1. event \in [Events -> Occurrence \cup {None}]
    BY DEF IInv
  <2>2. CASE event[e] # None /\ UNCHANGED event
    BY <2>1, <2>2 DEF IInv, EventsOK
  <2>3. ASSUME NEW kind \in AboutSubscription,
               event' = [event EXCEPT ![e] = [kind |-> kind, invoice |-> None]]
        PROVE  <1>3!:
    <3>1. o = [kind |-> kind, invoice |-> None]
      BY <2>1, <2>3
    <3>2. o \in Occurrence /\ o.kind \notin AboutInvoice
      BY <3>1 DEF Occurrence, Webhooks, AboutSubscription, AboutInvoice
    <3> QED
      BY <2>1, <2>3, <3>1, <3>2
  <2>4. ASSUME NEW kind \in AboutInvoice, NEW i \in Known,
               event' = [event EXCEPT ![e] = [kind |-> kind, invoice |-> i]]
        PROVE  <1>3!:
    <3>1. o = [kind |-> kind, invoice |-> i]
      BY <2>1, <2>4
    <3>2. o \in Occurrence /\ o.invoice \in Has(invoice)
      BY <3>1 DEF Occurrence, Webhooks, Known, Has
    <3> QED
      BY <2>1, <2>4, <3>1, <3>2
  <2> QED
    BY <1>1, <2>2, <2>3, <2>4
<1> HIDE DEF o
<1>4. EventsOK'
  BY <1>2, <1>3 DEF EventsOK, IInv, o
<1> DEFINE y == Run(o.kind, "check", Target(o.kind), e, o.invoice)
<1>5. /\ o.kind \in Webhooks /\ o.kind \in Kinds /\ o.invoice \in Invoices \cup {None}
      /\ Target(o.kind) \in Statuses \cup {None} /\ "check" \in Steps
      /\ o.kind = "deleted" => Target(o.kind) = "CANCELLED"
  BY <1>3 DEF Occurrence, Kinds, Steps, Target, Statuses, Webhooks, AboutInvoice, AboutSubscription
<1>6. /\ y \in RunState /\ y.kind = o.kind /\ y.step = "check"
      /\ y.target = Target(o.kind) /\ y.invoice = o.invoice
  BY <1>5 DEF Run, RunState
<1> HIDE DEF y
<1>7. o.kind \in PaysOrVoids => o.kind \in AboutInvoice
  BY <1>5 DEF PaysOrVoids, Webhooks, AboutInvoice, AboutSubscription
<1>8. o.kind \notin {"trials", "restore", "cancel"}
  BY <1>5 DEF Webhooks, AboutInvoice, AboutSubscription
<1>9. About(y, invoice)
  BY <1>3, <1>5, <1>6, <1>7, <1>8 DEF About, TargetFits
<1>10. RunOK(y, sub, invoice)
  BY <1>5, <1>9, Begins DEF y
<1>11. run' = [run EXCEPT ![r] = y]
  BY <1>1 DEF Begin, y, o
<1>12. DataOK' /\ Later(sub, invoice, sub', invoice')
  BY <1>2, Same
<1>13. run' \in [Runs -> RunState \cup {None}]
  BY <1>6, <1>11 DEF IInv, RunsOK
<1>14. ASSUME NEW q \in Runs, run'[q] # None PROVE RunOK(run'[q], sub', invoice')
  <2>1. CASE q = r
    BY <1>2, <1>10, <1>11, <2>1 DEF IInv, RunsOK
  <2>2. CASE q # r
    BY <1>2, <1>11, <1>14, <2>2 DEF IInv, RunsOK
  <2> QED
    BY <2>1, <2>2
<1> QED
  BY <1>3, <1>4, <1>12, <1>13, <1>14 DEF IInv, RunsOK

LEMMA GoesOnPreserves ==
    ASSUME IInv, NEW r \in Runs, NEW step \in Steps, NEW from, At(r, from), Goes(r, step),
           from # "select",
           step \notin {"select", "check", "existing", "write", "writeInvoice"},
           step = "lookup" => run[r].kind \in Webhooks,
           step = "readInvoice" => run[r].kind \in PaysOrVoids,
           UNCHANGED Data, UNCHANGED event
    PROVE  IInv'
<1>1. run[r] # None /\ run[r].step = from /\ run[r] \in RunState /\ RunOK(run[r], sub, invoice)
  BY RunKnown
<1> DEFINE y == [run[r] EXCEPT !.step = step]
<1>2. y \in RunState /\ RunOK(y, sub, invoice)
  BY <1>1, GoOn
<1>3. run' = [run EXCEPT ![r] = y]
  BY DEF Goes
<1> QED
  BY <1>2, <1>3, ReadPreserves

LEMMA RefusePreserves ==
    ASSUME IInv, NEW r \in Runs, NEW from, At(r, from), Refuse(r), from # "select",
           UNCHANGED Data, UNCHANGED event
    PROVE  IInv'
<1>1. CASE Goes(r, "converge")
  BY <1>1, GoesOnPreserves DEF Steps
<1>2. CASE Finish(r)
  BY <1>2, EndPreserves DEF Finish
<1> QED
  BY <1>1, <1>2 DEF Refuse

LEMMA SelectPreserves == ASSUME IInv, NEW r \in Runs, Select(r) PROVE IInv'
<1>1. run[r] \in RunState /\ run[r].step = "select" /\ RunOK(run[r], sub, invoice)
  BY RunKnown DEF Select
<1>2. UNCHANGED Data /\ UNCHANGED event
  BY DEF Select, Still
<1>3. CASE Finish(r)
  BY <1>2, <1>3, EndPreserves DEF Finish
<1>4. CASE ~Finish(r)
  <2> DEFINE kind == run[r].kind
             step == CASE kind = "retry" -> "count"
                       [] kind = "resume" -> "payment"
                       [] OTHER -> "read"
             y == [run[r] EXCEPT !.target = JobTarget(kind), !.saw = sub, !.step = step]
  <2>1. kind \in Jobs /\ run[r].invoice \in Invoices \cup {None}
    BY <1>1 DEF RunOK, About, RunState
  <2>2. run' = [run EXCEPT ![r] = y]
    BY <1>4 DEF Select, IInv, RunsOK
  <2>3. /\ step \in {"count", "payment", "read"}
        /\ JobTarget(kind) \in Statuses \cup {None}
        /\ kind = "trials" => JobTarget(kind) = "FREE"
        /\ sub \in SubscriptionRow
    BY <2>1 DEF JobTarget, Statuses, IInv, DataOK
  <2>4. /\ y \in RunState /\ y.kind = kind /\ y.step = step /\ y.target = JobTarget(kind)
        /\ y.invoice = run[r].invoice
    <3>1. step \in Steps
      BY <2>3 DEF Steps
    <3> HIDE DEF step
    <3> QED
      BY <1>1, <2>3, <3>1 DEF RunState
  <2> HIDE DEF y, step
  <2>5. About(y, invoice)
    BY <1>1, <2>1, <2>3, <2>4 DEF About, RunOK, TargetFits, Jobs
  <2>6. KnowsSubscription(y, sub, invoice) /\ KnowsInvoice(y, invoice)
    BY <2>3, <2>4 DEF KnowsSubscription, KnowsInvoice
  <2>7. RunOK(y, sub, invoice)
    BY <2>5, <2>6 DEF RunOK
  <2> QED
    BY <1>2, <2>2, <2>4, <2>7, ReadPreserves
<1> QED
  BY <1>3, <1>4

LEMMA FindPaymentPreserves == ASSUME IInv, NEW r \in Runs, FindPayment(r) PROVE IInv'
<1>1. At(r, "payment") /\ UNCHANGED Data /\ UNCHANGED event /\ (Goes(r, "read") \/ Finish(r))
  BY DEF FindPayment, Still
<1>2. CASE Goes(r, "read")
  BY <1>1, <1>2, GoesOnPreserves DEF Steps
<1> QED
  BY <1>1, <1>2, EndPreserves DEF Finish

LEMMA CheckPreserves == ASSUME IInv, NEW r \in Runs, Check(r) PROVE IInv'
<1>1. At(r, "check") /\ UNCHANGED Data /\ UNCHANGED event /\ (Goes(r, "lookup") \/ Finish(r))
  BY DEF Check, Still
<1>2. CASE Goes(r, "lookup")
  <2>1. run[r].kind \in Webhooks
    BY <1>1, RunKnown DEF RunOK, About
  <2> QED
    BY <1>1, <1>2, <2>1, GoesOnPreserves DEF Steps
<1> QED
  BY <1>1, <1>2, EndPreserves DEF Finish

LEMMA LookupPreserves == ASSUME IInv, NEW r \in Runs, Lookup(r) PROVE IInv'
<1> DEFINE kind == run[r].kind
           found == invoice[run[r].invoice].provider
           step == CASE kind = "checkout" -> IF sub.status # "ACTIVE" THEN "read" ELSE "link"
                 [] kind = "active" -> IF sub.linked /\ sub.status = "PAST_DUE" THEN "read" ELSE "mark"
                 [] kind \in {"pastDue", "deleted"} -> IF sub.linked THEN "read" ELSE "mark"
                 [] kind = "failed" -> IF found THEN "read" ELSE "mark"
                 [] kind = "paid" -> IF found THEN "readInvoice" ELSE "mark"
                 [] kind = "refunded" -> IF found THEN "refund" ELSE "mark"
<1>1. At(r, "lookup") /\ UNCHANGED Data /\ UNCHANGED event /\ Goes(r, step)
  BY DEF Lookup, Still
<1>2. kind \in Webhooks
  BY <1>1, RunKnown DEF RunOK, About
<1>3. /\ step \in {"read", "link", "mark", "readInvoice", "refund"}
      /\ step = "readInvoice" => kind = "paid"
  BY <1>2 DEF Webhooks, AboutInvoice, AboutSubscription
<1> HIDE DEF step
<1> QED
  BY <1>1, <1>3, GoesOnPreserves DEF Steps, PaysOrVoids

LEMMA ConvergePreserves == ASSUME IInv, NEW r \in Runs, Converge(r) PROVE IInv'
<1>1. /\ At(r, "converge") /\ UNCHANGED Data /\ UNCHANGED event
      /\ Goes(r, "link") \/ Goes(r, "mark") \/ Finish(r)
  BY DEF Converge, Still
<1>2. CASE Goes(r, "link")
  BY <1>1, <1>2, GoesOnPreserves DEF Steps
<1>3. CASE Goes(r, "mark")
  BY <1>1, <1>3, GoesOnPreserves DEF Steps
<1> QED
  BY <1>1, <1>2, <1>3, EndPreserves DEF Finish

(* The subscription has been read: what its guard lets through may follow. *)
LEMMA ReadSubscriptionPreserves == ASSUME IInv, NEW r \in Runs, Read(r) PROVE IInv'
<1>1. /\ At(r, "read") /\ run[r] \in RunState /\ run[r].step = "read"
      /\ RunOK(run[r], sub, invoice)
  BY RunKnown DEF Read
<1>2. UNCHANGED Data /\ UNCHANGED event /\ sub \in SubscriptionRow
  BY DEF Read, Still, IInv, DataOK
<1>3. CASE ~Accepted(r)
  BY <1>1, <1>2, <1>3, RefusePreserves DEF Read
<1>4. CASE Accepted(r)
  <2> DEFINE x == run[r]
             step == IF x.kind = "invoices" THEN "existing" ELSE "write"
             y == [x EXCEPT !.saw = sub, !.step = step]
  <2>1. run' = [run EXCEPT ![r] = y]
    BY <1>4 DEF Read, IInv, RunsOK
  <2>2. /\ y \in RunState /\ y.kind = x.kind /\ y.step = step /\ y.target = x.target
        /\ y.invoice = x.invoice /\ y.saw = sub
    BY <1>1, <1>2 DEF RunState, Steps
  <2>3. \/ x.kind \in {"invoices", "changePlan"}
        \/ /\ Follows(sub.status, x.target)
           /\ Replaces(x.kind, sub.status)
    <3>1. TargetFits(x)
      BY <1>1 DEF RunOK, About
    <3>2. CASE x.kind = "trials"
      BY <1>4, <3>1, <3>2, TransitionsTyped DEF Accepted, TargetFits, Follows, Replaces
    <3>3. CASE x.kind = "restore"
      BY <1>4, <3>1, <3>3, TransitionsTyped DEF Accepted, TargetFits, Follows, Replaces
    <3>4. CASE x.kind \in {"cancel", "deleted"}
      BY <1>4, <3>1, <3>4 DEF Accepted, TargetFits, Follows, Replaces
    <3>5. CASE x.kind \notin {"changePlan", "invoices", "trials", "restore", "cancel", "deleted"}
      BY <1>4, <3>5 DEF Accepted, Follows, Replaces
    <3> QED
      BY <3>2, <3>3, <3>4, <3>5
  <2> HIDE DEF y
  <2>4. About(y, invoice)
    BY <1>1, <2>2 DEF About, RunOK, TargetFits
  <2>5. step = "write" => Decided(y, sub, invoice)
    BY <2>2, <2>3 DEF Decided
  <2>6. KnowsSubscription(y, sub, invoice)
    BY <1>2, <2>2, <2>5 DEF KnowsSubscription, SubscriptionRow
  <2>7. KnowsInvoice(y, invoice)
    BY <2>2 DEF KnowsInvoice
  <2>8. RunOK(y, sub, invoice)
    BY <2>4, <2>6, <2>7 DEF RunOK
  <2> QED
    BY <1>2, <2>1, <2>2, <2>8, ReadPreserves
<1> QED
  BY <1>3, <1>4

LEMMA FindExistingPreserves == ASSUME IInv, NEW r \in Runs, FindExisting(r) PROVE IInv'
<1>1. /\ run[r] \in RunState /\ run[r].step = "existing"
      /\ RunOK(run[r], sub, invoice)
  BY RunKnown DEF FindExisting
<1>2. UNCHANGED Data /\ UNCHANGED event
  BY DEF FindExisting, Still
<1>3. CASE Finish(r)
  BY <1>2, <1>3, EndPreserves DEF Finish
<1>4. CASE ~Finish(r)
  <2> DEFINE x == run[r]
             y == [x EXCEPT !.step = "write"]
  <2>1. run' = [run EXCEPT ![r] = y]
    BY <1>4 DEF FindExisting, Goes, IInv, RunsOK
  <2>2. \A i \in Known : invoice[i].period = x.saw.period => invoice[i].status = "CANCELLED"
    BY <1>4 DEF FindExisting
  <2>3. /\ y \in RunState /\ y.kind = x.kind /\ y.step = "write" /\ y.target = x.target
        /\ y.invoice = x.invoice /\ y.saw = x.saw
    BY <1>1 DEF RunState, Steps
  <2> HIDE DEF y
  <2>4. About(y, invoice)
    BY <1>1, <2>3 DEF About, RunOK, TargetFits
  <2>5. Decided(y, sub, invoice)
    BY <1>1, <2>2, <2>3 DEF Decided, RunOK, About, Known, Has
  <2>6. KnowsSubscription(y, sub, invoice) /\ KnowsInvoice(y, invoice)
    BY <1>1, <2>3, <2>5 DEF KnowsSubscription, KnowsInvoice, RunOK
  <2>7. RunOK(y, sub, invoice)
    BY <2>4, <2>6 DEF RunOK
  <2> QED
    BY <1>2, <2>1, <2>3, <2>7, ReadPreserves
<1> QED
  BY <1>3, <1>4

LEMMA ReadInvoicePreserves == ASSUME IInv, NEW r \in Runs, ReadInvoice(r) PROVE IInv'
<1>1. /\ At(r, "readInvoice") /\ run[r] \in RunState /\ run[r].step = "readInvoice"
      /\ RunOK(run[r], sub, invoice)
  BY RunKnown DEF ReadInvoice
<1>2. UNCHANGED Data /\ UNCHANGED event
  BY DEF ReadInvoice, Still
<1> DEFINE x == run[r]
           i == x.invoice
           y == [x EXCEPT !.saw = invoice[i], !.step = "writeInvoice"]
<1>3. CASE invoice[i].status # "PENDING"
  BY <1>1, <1>2, <1>3, RefusePreserves DEF ReadInvoice
<1>4. CASE invoice[i].status = "PENDING"
  <2>1. run' = [run EXCEPT ![r] = y]
    BY <1>4 DEF ReadInvoice, IInv, RunsOK
  <2>2. x.kind \in PaysOrVoids /\ i \in Has(invoice)
    BY <1>1 DEF RunOK, About
  <2>3. invoice[i] \in InvoiceRow
    BY <2>2 DEF Has, IInv, DataOK
  <2>4. /\ y \in RunState /\ y.kind = x.kind /\ y.step = "writeInvoice" /\ y.target = x.target
        /\ y.invoice = x.invoice /\ y.saw = invoice[i]
    BY <1>1, <2>3 DEF RunState, Steps
  <2> HIDE DEF y
  <2>5. About(y, invoice)
    BY <1>1, <2>2, <2>4 DEF About, RunOK, TargetFits
  <2>6. KnowsSubscription(y, sub, invoice) /\ KnowsInvoice(y, invoice)
    BY <1>4, <2>3, <2>4 DEF KnowsSubscription, KnowsInvoice, InvoiceRow
  <2>7. RunOK(y, sub, invoice)
    BY <2>5, <2>6 DEF RunOK
  <2> QED
    BY <1>2, <2>1, <2>4, <2>7, ReadPreserves
<1> QED
  BY <1>3, <1>4

LEMMA MarkPreserves == ASSUME IInv, NEW r \in Runs, Mark(r) \/ Crash(r) PROVE IInv'
  BY EndPreserves DEF Mark, Crash, Finish

-----------------------------------------------------------------------------
(* The steps that change rows.                                             *)

LEMMA WritePreserves ==
    ASSUME IInv, NEW r \in Runs, NEW y \in RunState \cup {None},
           run' = [run EXCEPT ![r] = y],
           y # None => RunOK(y, sub, invoice),
           DataOK', Later(sub, invoice, sub', invoice'), UNCHANGED event
    PROVE  IInv'
<1>1. y # None => RunOK(y, sub', invoice')
  BY RunStays DEF IInv, DataOK
<1> QED
  BY <1>1, StepPreserves

(* A run that has written goes on to mark, to link, or ends.               *)
LEMMA WrotePreserves ==
    ASSUME IInv, NEW r \in Runs, NEW from, At(r, from), from # "select",
           \/ Goes(r, "read") \/ Goes(r, "mark") \/ Goes(r, "link") \/ Finish(r),
           DataOK', Later(sub, invoice, sub', invoice'), UNCHANGED event
    PROVE  IInv'
<1>1. run[r] # None /\ run[r].step = from /\ run[r] \in RunState /\ RunOK(run[r], sub, invoice)
  BY RunKnown
<1>2. ASSUME NEW step \in {"read", "mark", "link"}, Goes(r, step) PROVE IInv'
  <2> DEFINE y == [run[r] EXCEPT !.step = step]
  <2>1. y \in RunState /\ RunOK(y, sub, invoice)
    BY <1>1, GoOn DEF Steps
  <2>2. run' = [run EXCEPT ![r] = y]
    BY <1>2 DEF Goes
  <2> QED
    BY <2>1, <2>2, WritePreserves
<1>3. CASE Finish(r)
  BY <1>3, WritePreserves DEF Finish
<1> QED
  BY <1>2, <1>3

(* The subscription alone: by its version, or in other fields.             *)
LEMMA SubscriptionChanges ==
    ASSUME IInv, sub' \in SubscriptionRow, sub.version <= sub'.version,
           sub'.version = sub.version => sub'.status = sub.status,
           UNCHANGED <<invoice, succeeded, refunds>>
    PROVE  DataOK' /\ Later(sub, invoice, sub', invoice')
<1>1. DataOK'
  BY DEF IInv, DataOK, RecordedOnce, OneInvoicePerPeriod, Known
<1>2. \A i \in Has(invoice) : invoice[i] \in InvoiceRow
  BY DEF Has, IInv, DataOK
<1>3. Later(sub, invoice, sub', invoice')
  BY <1>2 DEF Later, InvoiceRow
<1> QED
  BY <1>1, <1>3

LEMMA CountPreserves == ASSUME IInv, NEW r \in Runs, Count(r) PROVE IInv'
<1>1. /\ At(r, "count") /\ sub' = [sub EXCEPT !.retries = @ + 1]
      /\ UNCHANGED <<invoice, succeeded, refunds>> /\ UNCHANGED event
      /\ Goes(r, "read") \/ Finish(r)
  BY DEF Count
<1>2. /\ sub' \in SubscriptionRow /\ sub.version <= sub'.version
      /\ sub'.version = sub.version => sub'.status = sub.status
  BY <1>1 DEF IInv, DataOK, SubscriptionRow
<1> QED
  BY <1>1, <1>2, SubscriptionChanges, WrotePreserves

LEMMA LinkPreserves == ASSUME IInv, NEW r \in Runs, Link(r) PROVE IInv'
<1>1. /\ At(r, "link") /\ sub' = [sub EXCEPT !.linked = TRUE]
      /\ UNCHANGED <<invoice, succeeded, refunds>> /\ UNCHANGED event
      /\ Goes(r, "mark")
  BY DEF Link
<1>2. PICK b \in BOOLEAN : sub' = [sub EXCEPT !.linked = b]
  BY <1>1, Zenon
<1>3. /\ sub' \in SubscriptionRow /\ sub.version <= sub'.version
      /\ sub'.version = sub.version => sub'.status = sub.status
  BY <1>2 DEF IInv, DataOK, SubscriptionRow
<1> QED
  BY <1>1, <1>3, SubscriptionChanges, WrotePreserves

LEMMA ClockPreserves == ASSUME IInv, FallDue \/ Cleanup \/ Expire PROVE IInv'
<1>1. CASE Expire
  BY <1>1, Same, RowsPreserve DEF Expire
<1>2. CASE FallDue \/ Cleanup
  <2>1. UNCHANGED <<invoice, succeeded, refunds>> /\ UNCHANGED event /\ UNCHANGED run
    BY <1>2 DEF FallDue, Cleanup
  <2>2. /\ sub' \in SubscriptionRow /\ sub.version <= sub'.version
        /\ sub'.version = sub.version => sub'.status = sub.status
    <3>1. CASE FallDue
      <4>1. PICK b \in BOOLEAN : sub' = [sub EXCEPT !.due = b]
        BY <3>1, Zenon DEF FallDue
      <4> QED
        BY <4>1 DEF IInv, DataOK, SubscriptionRow
    <3>2. CASE Cleanup
      BY <3>2 DEF Cleanup, IInv, DataOK, SubscriptionRow
    <3> QED
      BY <1>2, <3>1, <3>2
  <2> QED
    BY <2>1, <2>2, SubscriptionChanges, RowsPreserve
<1> QED
  BY <1>1, <1>2

(* A refund is recorded if its key is not taken.                           *)
LEMMA RecordRefundPreserves == ASSUME IInv, NEW r \in Runs, RecordRefund(r) PROVE IInv'
<1>1. /\ At(r, "refund") /\ UNCHANGED <<sub, invoice, succeeded>> /\ UNCHANGED event
      /\ Goes(r, "mark")
      /\ refunds' = [refunds EXCEPT ![run[r].event] = IF @ = 0 THEN 1 ELSE @]
  BY DEF RecordRefund
<1>2. refunds' \in [Events -> Nat] /\ \A e \in Events : refunds'[e] <= 1
  <2>1. refunds \in [Events -> Nat] /\ \A e \in Events : refunds[e] <= 1
    BY DEF IInv, DataOK, RecordedOnce
  <2>2. \A e \in Events : refunds'[e] = IF e = run[r].event /\ refunds[e] = 0 THEN 1 ELSE refunds[e]
    BY <1>1, <2>1
  <2>3. DOMAIN refunds' = Events /\ refunds' = [e \in Events |-> refunds'[e]]
    BY <1>1, <2>1
  <2> QED
    BY <2>1, <2>2, <2>3
<1>3. DataOK'
  BY <1>1, <1>2 DEF IInv, DataOK, RecordedOnce, OneInvoicePerPeriod, Known
<1>4. sub \in SubscriptionRow /\ \A i \in Has(invoice) : invoice[i] \in InvoiceRow
  BY DEF Has, IInv, DataOK
<1>5. Later(sub, invoice, sub', invoice')
  BY <1>1, <1>4 DEF Later, InvoiceRow, SubscriptionRow
<1> QED
  BY <1>1, <1>3, <1>5, WrotePreserves

(* An invoice is paid or voided while it is still to be paid.              *)
LEMMA CommitInvoicePreserves == ASSUME IInv, NEW r \in Runs, CommitInvoice(r) PROVE IInv'
<1>1. /\ At(r, "writeInvoice") /\ run[r] \in RunState /\ run[r].step = "writeInvoice"
      /\ RunOK(run[r], sub, invoice)
  BY RunKnown DEF CommitInvoice
<1> DEFINE i == run[r].invoice
           pays == run[r].kind # "void"
           row == [invoice[i] EXCEPT !.status = IF pays THEN "PAID" ELSE "CANCELLED",
                        !.provider = @ \/ run[r].kind \in {"paid", "payByCard"},
                        !.version = @ + 1]
<1>2. CASE invoice[i].version # run[r].saw.version
  BY <1>1, <1>2, RefusePreserves DEF CommitInvoice, Still
<1>3. CASE invoice[i].version = run[r].saw.version
  <2>1. WriteInvoice(r)
    BY <1>3 DEF CommitInvoice
  <2>2. i \in Invoices /\ invoice[i] # None /\ invoice[i].status = "PENDING"
    BY <1>1, <1>3 DEF RunOK, About, KnowsInvoice, Has
  <2>3. invoice[i] \in InvoiceRow /\ succeeded[i] = 0
    BY <2>2 DEF IInv, DataOK, RecordedOnce, Known
  <2>4. /\ row \in InvoiceRow
        /\ row.status = IF pays THEN "PAID" ELSE "CANCELLED"
        /\ row.version = invoice[i].version + 1 /\ row.period = invoice[i].period
    <3>1. PICK b \in BOOLEAN : b = (invoice[i].provider \/ run[r].kind \in {"paid", "payByCard"})
      BY Zenon
    <3>2. row = [invoice[i] EXCEPT !.status = IF pays THEN "PAID" ELSE "CANCELLED",
                        !.provider = b, !.version = @ + 1]
      BY <3>1, Zenon
    <3> DEFINE status == IF pays THEN "PAID" ELSE "CANCELLED"
    <3>3. status \in {"PENDING", "PAID", "CANCELLED"}
      OBVIOUS
    <3> DEFINE version == invoice[i].version + 1
    <3>4. row = [invoice[i] EXCEPT !.status = status, !.provider = b, !.version = version]
      BY <3>2
    <3>5. version \in Nat
      BY <2>3 DEF InvoiceRow
    <3> HIDE DEF row, status, version
    <3>6. row \in InvoiceRow
      BY <2>3, <3>1, <3>3, <3>4, <3>5 DEF InvoiceRow
    <3>7. /\ row.status = status
          /\ row.version = invoice[i].version + 1 /\ row.period = invoice[i].period
      BY <2>3, <3>4 DEF InvoiceRow, version
    <3> QED
      BY <3>6, <3>7 DEF status
  <2>5. invoice' = [invoice EXCEPT ![i] = row]
    BY <2>1 DEF WriteInvoice
  <2> HIDE DEF row
  <2>6. row # None
    BY <2>4, BillingAssumption
  <2>7. /\ succeeded' = [succeeded EXCEPT ![i] = @ + IF pays THEN 1 ELSE 0]
        /\ sub' = sub /\ refunds' = refunds /\ event' = event
        /\ Goes(r, "mark") \/ Finish(r)
    BY <2>1 DEF WriteInvoice
  <2>8. /\ invoice' \in [Invoices -> InvoiceRow \cup {None}]
        /\ invoice'[i] = row
        /\ \A j \in Invoices \ {i} : invoice'[j] = invoice[j]
    BY <2>2, <2>4, <2>5 DEF IInv, DataOK
  <2>9. /\ succeeded' \in [Invoices -> Nat]
        /\ succeeded'[i] = IF pays THEN 1 ELSE 0
        /\ \A j \in Invoices \ {i} : succeeded'[j] = succeeded[j]
    BY <2>2, <2>3, <2>7 DEF IInv, DataOK
  <2>10. Known' = Known
    BY <2>2, <2>6, <2>8 DEF Known
  <2>11. RecordedOnce'
    BY <2>4, <2>7, <2>8, <2>9, <2>10 DEF IInv, DataOK, RecordedOnce, Known
  <2>12. OneInvoicePerPeriod'
    <3> SUFFICES ASSUME NEW j \in Known, NEW k \in Known, j # k,
                        invoice'[j].period = invoice'[k].period
                 PROVE  "CANCELLED" \in {invoice'[j].status, invoice'[k].status}
      BY <2>10 DEF OneInvoicePerPeriod
    <3>1. j \in Invoices /\ k \in Invoices
      BY DEF Known
    <3>2. invoice[j].period = invoice[k].period
      BY <2>4, <2>8, <3>1
    <3>3. "CANCELLED" \in {invoice[j].status, invoice[k].status}
      BY <3>2 DEF IInv, DataOK, OneInvoicePerPeriod
    <3> QED
      BY <2>2, <2>8, <3>1, <3>3
  <2>13. DataOK'
    BY <2>2, <2>7, <2>8, <2>9, <2>11, <2>12, <2>6 DEF IInv, DataOK
  <2>14. \A j \in Has(invoice) : j \in Invoices /\ invoice[j] \in InvoiceRow
    BY DEF Has, IInv, DataOK
  <2>15. Has(invoice') = Has(invoice)
    BY <2>10 DEF Known, Has
  <2>16. Later(sub, invoice, sub', invoice')
    <3>1. sub.version <= sub'.version
      BY <2>7 DEF IInv, DataOK, SubscriptionRow
    <3>2. ASSUME NEW j \in Has(invoice)
          PROVE  /\ invoice'[j].period = invoice[j].period
                 /\ invoice[j].status = "CANCELLED" => invoice'[j].status = "CANCELLED"
                 /\ invoice[j].version <= invoice'[j].version
                 /\ invoice'[j].version = invoice[j].version => invoice'[j] = invoice[j]
      <4>1. CASE j = i
        BY <2>2, <2>3, <2>4, <2>8, <4>1 DEF InvoiceRow
      <4>2. CASE j # i
        BY <2>8, <2>14, <4>2 DEF InvoiceRow
      <4> QED
        BY <4>1, <4>2
    <3> QED
      BY <2>7, <2>15, <3>1, <3>2 DEF Later
  <2> QED
    BY <1>1, <2>7, <2>13, <2>16, WrotePreserves
<1> QED
  BY <1>2, <1>3

(* What a run writes, when the subscription has the version it has read.   *)
LEMMA WrittenTyped ==
    ASSUME IInv, NEW r \in Runs, At(r, "write"), sub.version = run[r].saw.version, Write(r)
    PROVE  /\ sub' \in SubscriptionRow /\ sub'.version = sub.version + 1
           /\ sub'.status # sub.status =>
                 Follows(sub.status, sub'.status) /\ Replaces(run[r].kind, sub.status)
           /\ sub.version \in Nat
<1>1. /\ run[r] \in RunState /\ run[r].step = "write" /\ RunOK(run[r], sub, invoice)
  BY RunKnown
<1>2. Decided(run[r], sub, invoice) /\ sub \in SubscriptionRow
  BY <1>1 DEF RunOK, KnowsSubscription, IInv, DataOK
<1>3. sub' = Written(r)
  BY DEF Write
<1> DEFINE next == sub.version + 1
           later == sub.period + 1
<1>4. next \in Nat /\ later \in Nat /\ sub.version \in Nat
  BY <1>2 DEF SubscriptionRow
<1>5. Written(r) =
        CASE run[r].kind = "changePlan" -> [sub EXCEPT !.version = next]
          [] run[r].kind = "invoices" ->
                [sub EXCEPT !.version = next, !.period = later, !.due = FALSE]
          [] OTHER -> [sub EXCEPT !.version = next, !.status = run[r].target]
  BY DEF Written
<1> HIDE DEF next, later
<1>6. CASE run[r].kind = "changePlan"
  <2>1. sub' = [sub EXCEPT !.version = next]
    BY <1>3, <1>5, <1>6
  <2>2. sub' \in SubscriptionRow /\ sub'.version = next /\ sub'.status = sub.status
    BY <1>2, <1>4, <2>1 DEF SubscriptionRow
  <2> QED
    BY <1>4, <2>2 DEF next
<1>7. CASE run[r].kind = "invoices"
  <2>1. sub' = [sub EXCEPT !.version = next, !.period = later, !.due = FALSE]
    BY <1>3, <1>5, <1>7
  <2>2. sub' \in SubscriptionRow /\ sub'.version = next /\ sub'.status = sub.status
    BY <1>2, <1>4, <2>1 DEF SubscriptionRow
  <2> QED
    BY <1>4, <2>2 DEF next
<1>8. CASE run[r].kind \notin {"changePlan", "invoices"}
  <2>1. sub' = [sub EXCEPT !.version = next, !.status = run[r].target]
    BY <1>3, <1>5, <1>8
  <2>2. Follows(sub.status, run[r].target) /\ Replaces(run[r].kind, sub.status)
    BY <1>2, <1>8 DEF Decided
  <2>3. run[r].target \in Statuses
    BY <1>2, <2>2, TransitionsTyped DEF Follows, SubscriptionRow, Statuses
  <2>4. sub' \in SubscriptionRow /\ sub'.version = next /\ sub'.status = run[r].target
    BY <1>2, <1>4, <2>1, <2>3 DEF SubscriptionRow
  <2> QED
    BY <1>4, <2>2, <2>4 DEF next
<1> QED
  BY <1>6, <1>7, <1>8

(* The subscription is written by its version, the invoice with it.        *)
LEMMA CommitPreserves == ASSUME IInv, NEW r \in Runs, Commit(r) PROVE IInv'
<1>1. /\ At(r, "write") /\ run[r] \in RunState /\ run[r].step = "write"
      /\ RunOK(run[r], sub, invoice)
  BY RunKnown DEF Commit
<1>2. CASE sub.version # run[r].saw.version
  BY <1>1, <1>2, RefusePreserves DEF Commit, Still
<1>3. CASE sub.version = run[r].saw.version
  <2>1. Write(r)
    BY <1>3 DEF Commit
  <2>2. sub' \in SubscriptionRow /\ sub'.version = sub.version + 1 /\ sub.version \in Nat
    BY <1>1, <1>3, <2>1, WrittenTyped
  <2>3. sub.version <= sub'.version /\ sub'.version # sub.version
    BY <2>2
  <2>4. /\ UNCHANGED <<succeeded, refunds>> /\ UNCHANGED event
        /\ Goes(r, "mark") \/ Goes(r, "link") \/ Finish(r)
    BY <2>1 DEF Write
  <2>5. CASE run[r].kind # "invoices"
    <3>1. UNCHANGED invoice
      BY <2>1, <2>5 DEF Write
    <3>2. DataOK' /\ Later(sub, invoice, sub', invoice')
      BY <2>2, <2>3, <2>4, <3>1, SubscriptionChanges
    <3> QED
      BY <1>1, <2>4, <3>2, WrotePreserves
  <2>6. CASE run[r].kind = "invoices"
    <3> DEFINE row == Invoice(run[r].saw.period)
    <3>1. PICK i \in Invoices \ Known : invoice' = [invoice EXCEPT ![i] = row]
      BY <2>1, <2>6 DEF Write
    <3>2. /\ run[r].saw \in SubscriptionRow
          /\ \A j \in Has(invoice) :
                invoice[j].period = run[r].saw.period => invoice[j].status = "CANCELLED"
      BY <1>1, <1>3, <2>6 DEF RunOK, KnowsSubscription, Decided
    <3>3. row \in InvoiceRow /\ row.status = "PENDING" /\ row.period = run[r].saw.period
      BY <3>2 DEF Invoice, InvoiceRow, SubscriptionRow
    <3> HIDE DEF row
    <3>4. row # None
      BY <3>3, BillingAssumption
    <3>5. /\ invoice' \in [Invoices -> InvoiceRow \cup {None}]
          /\ invoice'[i] = row
          /\ \A j \in Invoices \ {i} : invoice'[j] = invoice[j]
      BY <3>1, <3>3 DEF IInv, DataOK
    <3>6. Known' = Known \cup {i} /\ i \in Invoices /\ i \notin Known
      BY <3>4, <3>5 DEF Known
    <3>7. invoice[i] = None /\ succeeded[i] = 0
      BY <3>6 DEF Known, IInv, DataOK
    <3>8. RecordedOnce'
      <4>1. \A j \in Known : j \in Invoices /\ j # i
        BY <3>6 DEF Known
      <4> QED
        BY <2>4, <3>3, <3>5, <3>6, <3>7, <4>1 DEF IInv, DataOK, RecordedOnce
    <3>9. OneInvoicePerPeriod'
      <4> SUFFICES ASSUME NEW j \in Known', NEW k \in Known', j # k,
                          invoice'[j].period = invoice'[k].period
                   PROVE  "CANCELLED" \in {invoice'[j].status, invoice'[k].status}
        BY DEF OneInvoicePerPeriod
      <4>1. \A h \in Known : h \in Invoices \ {i} /\ h \in Has(invoice) /\ invoice'[h] = invoice[h]
        BY <3>5, <3>6 DEF Known, Has
      <4>2. CASE j \in Known /\ k \in Known
        BY <4>1, <4>2 DEF IInv, DataOK, OneInvoicePerPeriod
      <4>3. CASE j = i /\ k \in Known
        BY <3>2, <3>3, <3>5, <4>1, <4>3
      <4>4. CASE k = i /\ j \in Known
        BY <3>2, <3>3, <3>5, <4>1, <4>4
      <4> QED
        BY <3>6, <4>2, <4>3, <4>4
    <3>10. DataOK'
      BY <2>2, <2>4, <3>4, <3>5, <3>8, <3>9 DEF IInv, DataOK
    <3>11. \A j \in Has(invoice) : /\ j \in Invoices \ {i} /\ invoice[j] \in InvoiceRow
                                   /\ invoice'[j] = invoice[j] /\ j \in Has(invoice')
      BY <3>5, <3>6 DEF Has, Known, IInv, DataOK
    <3>12. Later(sub, invoice, sub', invoice')
      BY <2>3, <3>11 DEF Later, InvoiceRow
    <3> QED
      BY <1>1, <2>4, <3>10, <3>12, WrotePreserves
  <2> QED
    BY <2>5, <2>6
<1> QED
  BY <1>2, <1>3

-----------------------------------------------------------------------------
LEMMA NextPreserves == IInv /\ [Next]_vars => IInv'
<1> SUFFICES ASSUME IInv, [Next]_vars PROVE IInv'
  OBVIOUS
<1>1. CASE UNCHANGED vars
  <2>1. UNCHANGED Data /\ UNCHANGED event /\ UNCHANGED run
    BY <1>1 DEF vars
  <2> QED
    BY <2>1, Same, RowsPreserve
<1>2. CASE Expire \/ FallDue \/ Cleanup
  BY <1>2, ClockPreserves
<1>3. ASSUME NEW r \in Runs, StartJob(r) \/ Ask(r) \/ Deliver(r) PROVE IInv'
  BY <1>3, StartJobPreserves, AskPreserves, DeliverPreserves
<1>4. ASSUME NEW r \in Runs, Step(r) PROVE IInv'
  <2>1. CASE Select(r) \/ Count(r) \/ FindPayment(r) \/ Check(r) \/ Lookup(r)
    BY <2>1, SelectPreserves, CountPreserves, FindPaymentPreserves, CheckPreserves,
       LookupPreserves
  <2>2. CASE Converge(r) \/ Read(r) \/ FindExisting(r) \/ Commit(r) \/ Link(r)
    BY <2>2, ConvergePreserves, ReadSubscriptionPreserves, FindExistingPreserves,
       CommitPreserves, LinkPreserves
  <2>3. CASE ReadInvoice(r) \/ CommitInvoice(r) \/ RecordRefund(r) \/ Mark(r) \/ Crash(r)
    BY <2>3, ReadInvoicePreserves, CommitInvoicePreserves, RecordRefundPreserves,
       MarkPreserves
  <2> QED
    BY <1>4, <2>1, <2>2, <2>3 DEF Step
<1> QED
  BY <1>1, <1>2, <1>3, <1>4 DEF Next

(* In every reachable state the rows are well formed, and every run that   *)
(* is about to write still has a right to, as long as the row has the      *)
(* version it has read (updateByCompany, markPaid, voidInvoice).           *)
THEOREM Invariance == Spec => []IInv
<1>1. Init => IInv
  BY InitEstablishes
<1>2. IInv /\ [Next]_vars => IInv'
  BY NextPreserves
<1> QED
  BY <1>1, <1>2, PTL DEF Spec

(* However many runs of generateRecurringInvoices find a period without    *)
(* its invoice, only one of them makes it.                                 *)
THEOREM InvoicedOnce == Spec => []OneInvoicePerPeriod
<1>1. IInv => OneInvoicePerPeriod
  BY DEF IInv, DataOK
<1> QED
  BY <1>1, Invariance, PTL

(* However often an invoice is paid by hand, by webhook or both, it has    *)
(* one payment; a refund of an event is recorded once.                     *)
THEOREM PaidAndRefundedOnce == Spec => []RecordedOnce
<1>1. IInv => RecordedOnce
  BY DEF IInv, DataOK
<1> QED
  BY <1>1, Invariance, PTL

(* Only Commit writes the status: what it writes may follow the status     *)
(* that is there, not only the one that was read, and replaces one that    *)
(* the run is there to replace.                                            *)
LEMMA StepMoves ==
    IInv /\ [Next]_vars /\ sub'.status # sub.status =>
        /\ Follows(sub.status, sub'.status)
        /\ \A q \in Running : run'[q] # run[q] => Replaces(run[q].kind, sub.status)
<1> SUFFICES ASSUME IInv, [Next]_vars, sub'.status # sub.status
             PROVE  /\ Follows(sub.status, sub'.status)
                    /\ \A q \in Running : run'[q] # run[q] =>
                                             Replaces(run[q].kind, sub.status)
  OBVIOUS
<1>1. sub \in SubscriptionRow
  BY DEF IInv, DataOK
<1>2. ~UNCHANGED vars
  BY DEF vars, Data
<1>3. ~Expire
  BY DEF Expire, Data
<1>4. ~FallDue
  <2> SUFFICES ASSUME FallDue PROVE FALSE
    OBVIOUS
  <2>1. PICK b \in BOOLEAN : sub' = [sub EXCEPT !.due = b]
    BY Zenon DEF FallDue
  <2> QED
    BY <1>1, <2>1 DEF SubscriptionRow
<1>5. ~Cleanup
  BY <1>1 DEF Cleanup, SubscriptionRow
<1>6. PICK r \in Runs : StartJob(r) \/ Ask(r) \/ Deliver(r) \/ Step(r)
  BY <1>2, <1>3, <1>4, <1>5 DEF Next
<1>7. ~(StartJob(r) \/ Ask(r) \/ Deliver(r))
  BY DEF StartJob, Ask, Deliver, Begin, Data
<1>8. ~(Select(r) \/ FindPayment(r) \/ Check(r) \/ Lookup(r) \/ Converge(r) \/ Read(r)
        \/ FindExisting(r) \/ ReadInvoice(r))
  BY DEF Select, FindPayment, Check, Lookup, Converge, Read, FindExisting, ReadInvoice,
         Still, Data
<1>9. ~(CommitInvoice(r) \/ RecordRefund(r) \/ Mark(r) \/ Crash(r))
  BY DEF CommitInvoice, WriteInvoice, RecordRefund, Mark, Crash, Still, Data
<1>10. ~Count(r)
  BY <1>1 DEF Count, SubscriptionRow
<1>11. ~Link(r)
  <2> SUFFICES ASSUME Link(r) PROVE FALSE
    OBVIOUS
  <2>1. PICK b \in BOOLEAN : sub' = [sub EXCEPT !.linked = b]
    BY Zenon DEF Link
  <2> QED
    BY <1>1, <2>1 DEF SubscriptionRow
<1>12. Commit(r)
  BY <1>6, <1>7, <1>8, <1>9, <1>10, <1>11 DEF Step
<1>13. sub.version = run[r].saw.version /\ Write(r) /\ At(r, "write")
  BY <1>12 DEF Commit, Still, Data
<1>14. \A q \in Runs \ {r} : run'[q] = run[q]
  BY <1>13 DEF Write, Goes, Finish, IInv, RunsOK
<1> QED
  BY <1>13, <1>14, WrittenTyped DEF Running

(* No job, webhook or request puts a status where it may not be, though    *)
(* each decides from a status it has read before (transitionStatus).       *)
THEOREM StatusesMove == Spec => StatusMoves
<1>1. IInv /\ [Next]_vars =>
        [sub'.status # sub.status =>
            /\ \/ sub'.status \in Transitions[sub.status]
               \/ sub'.status = "CANCELLED" /\ sub.status \notin Ended
            /\ \A r \in Running :
                  run'[r] # run[r] => Replaces(run[r].kind, sub.status)]_vars
  BY StepMoves DEF Follows
<1> QED
  BY <1>1, Invariance, PTL DEF Spec, StatusMoves

-----------------------------------------------------------------------------
(* Second part: the retry scheduler of the mobile application, for any     *)
(* entries and retry budget. TimerArmed is kept because whoever changes    *)
(* the queue or the connectivity evaluates the timer in the same step, and *)
(* an entry becomes due only by BackoffElapsed, which leaves something     *)
(* due. Nothing is said of billing and scheduler together.                 *)

(* An entry that can still be sent has attempts left.                      *)
BudgetLeft ==
    \A o \in Ops : queue[o].status \in {"due", "waiting", "sending"} => queue[o].attempts < MaxRetryAttempts

SchedulerInv == SchedulerTypeOK /\ BudgetLeft

LEMMA PassTyped ==
    ASSUME SchedulerTypeOK, NEW q, NEW who \in {"scheduler", "other"}
    PROVE  Pass(q, who) \in [by: {"nobody", "scheduler", "other"}, todo: SUBSET Ops, stale: BOOLEAN]
BY DEF Pass, Idle, Pending

LEMMA RearmTyped ==
    ASSUME SchedulerTypeOK, SchedulerInv, NEW w \in [by: {"nobody", "scheduler", "other"}, todo: SUBSET Ops, stale: BOOLEAN],
           NEW last \in SUBSET (Ops \X (0..MaxRetryAttempts)),
           queue' \in [Ops -> [status: EntryStatuses, attempts: 0..MaxRetryAttempts]],
           online' \in BOOLEAN, Rearm(queue', w, last)
    PROVE  /\ timer' \in BOOLEAN
           /\ worker' \in [by: {"nobody", "scheduler", "other"}, todo: SUBSET Ops, stale: BOOLEAN]
           /\ lastFired' \in SUBSET (Ops \X (0..MaxRetryAttempts))
<1>1. Fingerprint(queue') \in SUBSET (Ops \X (0..MaxRetryAttempts))
  BY DEF Fingerprint, Pending
<1>2. Pass(queue', "scheduler") \in [by: {"nobody", "scheduler", "other"}, todo: SUBSET Ops, stale: BOOLEAN]
  BY PassTyped
<1> QED BY <1>1, <1>2 DEF Rearm

LEMMA MutateKeeps ==
    ASSUME SchedulerInv, NEW o \in Ops, NEW status \in EntryStatuses, NEW n \in 0..MaxRetryAttempts,
           status \in {"due", "waiting", "sending"} => n < MaxRetryAttempts,
           NEW w \in [by: {"nobody", "scheduler", "other"}, todo: SUBSET Ops, stale: BOOLEAN],
           Mutate(o, status, n, w), asked' \in BOOLEAN
    PROVE  SchedulerInv'
<1>1. queue' \in [Ops -> [status: EntryStatuses, attempts: 0..MaxRetryAttempts]]
  BY DEF Mutate, SchedulerInv, SchedulerTypeOK
<1>2. BudgetLeft'
  BY DEF Mutate, SchedulerInv, SchedulerTypeOK, BudgetLeft
<1>3. online' \in BOOLEAN /\ signedIn' \in BOOLEAN /\ moved' \in BOOLEAN /\ recurred' \in BOOLEAN
  BY DEF Mutate, SchedulerInv, SchedulerTypeOK
<1>4. /\ timer' \in BOOLEAN
      /\ worker' \in [by: {"nobody", "scheduler", "other"}, todo: SUBSET Ops, stale: BOOLEAN]
      /\ lastFired' \in SUBSET (Ops \X (0..MaxRetryAttempts))
  BY <1>1, <1>3, RearmTyped DEF Mutate, SchedulerInv, SchedulerTypeOK
<1> QED BY <1>1, <1>2, <1>3, <1>4 DEF SchedulerInv, SchedulerTypeOK

LEMMA RearmKeeps ==
    ASSUME SchedulerInv, NEW w \in [by: {"nobody", "scheduler", "other"}, todo: SUBSET Ops, stale: BOOLEAN],
           NEW last \in SUBSET (Ops \X (0..MaxRetryAttempts)),
           Rearm(queue, w, last), online' \in BOOLEAN, signedIn' \in BOOLEAN,
           moved' \in BOOLEAN, asked' \in BOOLEAN, UNCHANGED <<queue, recurred>>
    PROVE  SchedulerInv'
<1>1. /\ timer' \in BOOLEAN
      /\ worker' \in [by: {"nobody", "scheduler", "other"}, todo: SUBSET Ops, stale: BOOLEAN]
      /\ lastFired' \in SUBSET (Ops \X (0..MaxRetryAttempts))
  BY RearmTyped DEF SchedulerInv, SchedulerTypeOK
<1> QED BY <1>1 DEF SchedulerInv, SchedulerTypeOK, BudgetLeft

(* The scheduler stays within its types, and whatever may still be sent    *)
(* has an attempt left.                                                    *)
THEOREM SchedulerInvariance == SchedulerSpec => []SchedulerInv
<1>1. SchedulerInit => SchedulerInv
  <2> SUFFICES ASSUME SchedulerInit PROVE SchedulerInv
    OBVIOUS
  <2>1. [status |-> "absent", attempts |-> 0] \in [status: EntryStatuses, attempts: 0..MaxRetryAttempts]
    BY SchedulerAssumption DEF EntryStatuses
  <2>2. queue \in [Ops -> [status: EntryStatuses, attempts: 0..MaxRetryAttempts]] /\ BudgetLeft
    BY <2>1 DEF SchedulerInit, BudgetLeft
  <2> QED BY <2>2 DEF SchedulerInit, SchedulerInv, SchedulerTypeOK, Idle
<1>2. SchedulerInv /\ [SchedulerNext]_schedulerVars => SchedulerInv'
  <2> SUFFICES ASSUME SchedulerInv, [SchedulerNext]_schedulerVars PROVE SchedulerInv'
    OBVIOUS
  <2>1. MaxRetryAttempts \in Nat \ {0}
    BY SchedulerAssumption
  <2>2. Idle \in [by: {"nobody", "scheduler", "other"}, todo: SUBSET Ops, stale: BOOLEAN]
    BY DEF Idle
  <2>3. /\ worker \in [by: {"nobody", "scheduler", "other"}, todo: SUBSET Ops, stale: BOOLEAN]
        /\ queue \in [Ops -> [status: EntryStatuses, attempts: 0..MaxRetryAttempts]]
        /\ lastFired \in SUBSET (Ops \X (0..MaxRetryAttempts))
        /\ asked \in BOOLEAN /\ online \in BOOLEAN /\ signedIn \in BOOLEAN /\ moved \in BOOLEAN
    BY DEF SchedulerInv, SchedulerTypeOK
  <2>4. CASE AskForPass
    BY <2>4 DEF AskForPass, SchedulerInv, SchedulerTypeOK, BudgetLeft
  <2>5. CASE GoOffline
    BY <2>3, <2>5, RearmKeeps DEF GoOffline
  <2>6. CASE GoOnline
    <3>1. asked' \in BOOLEAN /\ online' \in BOOLEAN
      BY <2>3, <2>6 DEF GoOnline
    <3> QED BY <2>3, <2>6, <3>1, RearmKeeps DEF GoOnline
  <2>7. CASE ChangeUser
    BY <2>2, <2>3, <2>7 DEF ChangeUser, SchedulerInv, SchedulerTypeOK, BudgetLeft
  <2>8. CASE NotifyScopeChanged
    <3>1. {} \in SUBSET (Ops \X (0..MaxRetryAttempts))
      OBVIOUS
    <3> QED BY <2>3, <2>8, <3>1, RearmKeeps DEF NotifyScopeChanged
  <2>9. CASE TimerFires
    BY <2>3, <2>9, RearmKeeps DEF TimerFires
  <2>10. CASE StartAsked
    <3>1. worker' \in [by: {"nobody", "scheduler", "other"}, todo: SUBSET Ops, stale: BOOLEAN]
      BY <2>3, <2>10, PassTyped DEF StartAsked, SchedulerInv
    <3> QED BY <2>10, <3>1 DEF StartAsked, SchedulerInv, SchedulerTypeOK, BudgetLeft
  <2>11. CASE EndPass
    <3>1. CASE worker.by = "scheduler"
      BY <2>2, <2>3, <2>11, <3>1, RearmKeeps DEF EndPass
    <3>2. CASE worker.by # "scheduler"
      BY <2>2, <2>11, <3>2 DEF EndPass, SchedulerInv, SchedulerTypeOK, BudgetLeft
    <3> QED BY <3>1, <3>2
  <2>12. ASSUME NEW o \in Ops, Visit(o) PROVE SchedulerInv'
    <3> DEFINE rest == [worker EXCEPT !.todo = @ \ {o}]
    <3>1. rest \in [by: {"nobody", "scheduler", "other"}, todo: SUBSET Ops, stale: BOOLEAN]
      BY <2>3
    <3> HIDE DEF rest
    <3>2. CASE queue[o].status # "due" \/ o \in Skipped
      BY <2>12, <3>1, <3>2 DEF Visit, rest, SchedulerInv, SchedulerTypeOK, BudgetLeft
    <3>3. CASE ~(queue[o].status # "due" \/ o \in Skipped)
      <4>1. Mutate(o, "sending", queue[o].attempts, rest) /\ asked' = asked
        BY <2>12, <3>3 DEF Visit, rest
      <4>2. queue[o].attempts \in 0..MaxRetryAttempts /\ queue[o].attempts < MaxRetryAttempts
        BY <2>3, <3>3 DEF SchedulerInv, BudgetLeft
      <4> QED BY <2>3, <3>1, <4>1, <4>2, MutateKeeps DEF EntryStatuses
    <3> QED BY <3>2, <3>3
  <2>13. ASSUME NEW o \in Ops, Confirm(o) \/ Discard(o) PROVE SchedulerInv'
    <3>1. Mutate(o, "gone", 0, worker) /\ asked' = asked
      BY <2>13 DEF Confirm, Discard
    <3> QED BY <2>1, <2>3, <3>1, MutateKeeps DEF EntryStatuses
  <2>14. ASSUME NEW o \in Ops, Enqueue(o) \/ Retry(o) PROVE SchedulerInv'
    <3>1. Mutate(o, "due", 0, worker) /\ asked' \in BOOLEAN
      BY <2>3, <2>14 DEF Enqueue, Retry
    <3> QED BY <2>1, <2>3, <3>1, MutateKeeps DEF EntryStatuses
  <2>15. ASSUME NEW o \in Ops, RetryLater(o) PROVE SchedulerInv'
    <3> DEFINE n == queue[o].attempts + 1
               status == IF Exhausted(n) THEN "failed" ELSE "waiting"
    <3>1. Mutate(o, status, n, worker) /\ asked' = asked /\ queue[o].status = "sending"
      BY <2>15 DEF RetryLater
    <3>2. queue[o].attempts \in 0..MaxRetryAttempts /\ queue[o].attempts < MaxRetryAttempts
      BY <2>3, <3>1 DEF SchedulerInv, BudgetLeft
    <3>3. n \in 0..MaxRetryAttempts /\ status \in EntryStatuses
          /\ (status \in {"due", "waiting", "sending"} => n < MaxRetryAttempts)
      BY <2>1, <3>2 DEF Exhausted, EntryStatuses
    <3> HIDE DEF n, status
    <3> QED BY <2>3, <3>1, <3>3, MutateKeeps
  <2>16. ASSUME NEW o \in Ops, GiveUp(o) PROVE SchedulerInv'
    <3>1. Mutate(o, "failed", queue[o].attempts, worker) /\ asked' = asked
      BY <2>16 DEF GiveUp
    <3> QED BY <2>3, <3>1, MutateKeeps DEF EntryStatuses
  <2>17. ASSUME NEW o \in Ops, BackoffElapsed(o) PROVE SchedulerInv'
    BY <2>3, <2>17 DEF BackoffElapsed, SchedulerInv, SchedulerTypeOK, BudgetLeft,
       EntryStatuses
  <2>18. CASE UNCHANGED schedulerVars
    BY <2>18 DEF schedulerVars, SchedulerInv, SchedulerTypeOK, BudgetLeft
  <2> QED BY <2>4, <2>5, <2>6, <2>7, <2>8, <2>9, <2>10, <2>11, <2>12, <2>13, <2>14,
             <2>15, <2>16, <2>17, <2>18 DEF SchedulerNext, Work, Answer
<1> QED BY <1>1, <1>2, PTL DEF SchedulerSpec

LEMMA RearmArms == ASSUME NEW w, NEW last, Rearm(queue', w, last) PROVE TimerArmed'
BY DEF Rearm, TimerArmed

(* As long as the device is online and an entry waits for its backoff to   *)
(* end, the timer of the scheduler is armed: every change of queue or      *)
(* connectivity evaluates anew in the same turn, and cancels no timer      *)
(* without setting the next (_rearm).                                      *)
THEOREM Armed == SchedulerSpec => []TimerArmed
<1>1. SchedulerInit => TimerArmed
  BY DEF SchedulerInit, TimerArmed, Pending
<1>2. SchedulerInv /\ TimerArmed /\ [SchedulerNext]_schedulerVars => TimerArmed'
  <2> SUFFICES ASSUME SchedulerInv, TimerArmed, [SchedulerNext]_schedulerVars PROVE TimerArmed'
    OBVIOUS
  <2>1. ASSUME UNCHANGED <<queue, online, timer>> PROVE TimerArmed'
    BY <2>1 DEF TimerArmed, Pending, Due
  <2>2. ASSUME NEW o, NEW status, NEW n, NEW w, Mutate(o, status, n, w) PROVE TimerArmed'
    BY <2>2, RearmArms DEF Mutate
  <2>3. ASSUME NEW w, NEW last, UNCHANGED queue, Rearm(queue, w, last) PROVE TimerArmed'
    BY <2>3, RearmArms
  <2>4. CASE AskForPass \/ ChangeUser \/ StartAsked \/ UNCHANGED schedulerVars
    BY <2>1, <2>4 DEF AskForPass, ChangeUser, StartAsked, schedulerVars
  <2>5. CASE GoOffline \/ GoOnline \/ NotifyScopeChanged \/ TimerFires
    BY <2>3, <2>5 DEF GoOffline, GoOnline, NotifyScopeChanged, TimerFires
  <2>6. CASE EndPass
    BY <2>1, <2>3, <2>6 DEF EndPass
  <2>7. ASSUME NEW o \in Ops, Visit(o) \/ Answer(o) \/ Enqueue(o) \/ Retry(o) \/ Discard(o)
        PROVE  TimerArmed'
    BY <2>1, <2>2, <2>7 DEF Visit, Answer, Confirm, RetryLater, GiveUp, Enqueue, Retry,
       Discard
  <2>8. ASSUME NEW o \in Ops, BackoffElapsed(o) PROVE TimerArmed'
    <3>1. o \in Due(queue')
      BY <2>8 DEF BackoffElapsed, Due, SchedulerInv, SchedulerTypeOK
    <3> QED BY <3>1 DEF TimerArmed
  <2> QED BY <2>4, <2>5, <2>6, <2>7, <2>8 DEF SchedulerNext, Work
<1> QED BY <1>1, <1>2, SchedulerInvariance, PTL DEF SchedulerSpec
=============================================================================

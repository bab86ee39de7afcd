------------------------------ MODULE Payables ------------------------------
(***************************************************************************)
(* What is owed to one supplier on one purchase order: its invoices        *)
(* (PurchaseInvoiceService), the payments (SupplierPaymentsService) and    *)
(* how they are spread over the invoices                                   *)
(* (SupplierPaymentAllocationsService), a SQL statement at a time under    *)
(* READ COMMITTED.  Three means keep them apart: rows locked FOR UPDATE or *)
(* by a write until the transaction ends, the rowVersion of an invoice,    *)
(* and conditions on a status; some writes use none of them.  Of the order *)
(* only its total counts, and whether it is a draft, sent or cancelled     *)
(* (Purchasing has the rest); of the entries in the ledger only which      *)
(* stand for an invoice (Ledger has the rest).                             *)
(* Operators named Mutant.. are plausible bugs of the definition that      *)
(* follows them.                                                           *)
(***************************************************************************)
EXTENDS Integers, FiniteSets, Functions, Null

CONSTANTS
    Invoices,      \* invoices that can be made
    Payments,      \* payments that can be made
    Txns,          \* transactions that can run at the same time
    Units,         \* the largest amount
    MaxRequests    \* bound on the number of requests

ASSUME PayablesAssumption ==
    /\ IsFiniteSet(Invoices) /\ IsFiniteSet(Payments)
    /\ Units \in Nat \ {0}
    /\ MaxRequests \in Nat
    /\ None \notin Invoices \cup Payments \cup Txns

VARIABLES
    order,      \* the PurchaseOrder: status, total, version
    invoice,    \* invoice[i]: a PurchaseInvoice, or None
    payment,    \* payment[p]: a SupplierPayment, or None
    allocated,  \* allocated[p][i]: its active allocations to an invoice
    journal,    \* journal[i]: entries posted and reversed for the invoice
    tx,         \* tx[t]: the transaction of t, or None
    requests    \* requests begun

vars == <<order, invoice, payment, allocated, journal, tx, requests>>

(* overwritten: a status set by hand has replaced another one unseen.      *)
Invoice(total, status) ==
    [total |-> total, status |-> status, paid |-> 0, version |-> 0, deleted |-> FALSE,
     overwritten |-> FALSE]

Payment(amount, i) == [amount |-> amount, of |-> i, void |-> FALSE]

(* A transaction: the invoice and payment it is about, its amount, what it *)
(* read (saw) and has read to remove, the rows it holds.                   *)
Transaction(kind, step, i, p, amount) ==
    [invoice |-> i, payment |-> p, amount |-> amount, kind |-> kind, step |-> step,
     saw |-> None, removes |-> None, rows |-> {}]

(* No row is mistaken for none.                                            *)
ASSUME NoneAssumption ==
    /\ None \notin [total : Nat, status : {"DRAFT", "APPROVED", "PAID", "CANCELLED"}, paid : Nat,
                    version : Nat, deleted : BOOLEAN, overwritten : BOOLEAN]
    /\ None \notin [amount : Nat, of : Invoices \cup {None}, void : BOOLEAN]

(* An order, an invoice of it approved or still to come, a payment on      *)
(* account made or still to come.                                          *)
Init ==
    /\ \E status \in {"DRAFT", "ORDERED"} :
            order = [total |-> Units, status |-> status, version |-> 0]
    /\ \E i \in Invoices, status \in {"DRAFT", "APPROVED"}, q \in 1..Units :
        /\ invoice = [j \in Invoices |-> IF j = i THEN Invoice(q, status) ELSE None]
        /\ journal = [j \in Invoices |->
                [posted |-> IF j = i /\ status = "APPROVED" THEN 1 ELSE 0, reversed |-> 0]]
    /\ \E P \in SUBSET Payments :
        /\ Cardinality(P) <= 1
        /\ payment = [p \in Payments |-> IF p \in P THEN Payment(Units, None) ELSE None]
    /\ allocated = [p \in Payments |-> [i \in Invoices |-> 0]]
    /\ tx = [t \in Txns |-> None]
    /\ requests = 0

Running == {t \in Txns : tx[t] # None}
At(t, step) == t \in Running /\ tx[t].step = step

Live == {i \in Invoices : invoice[i] # None /\ ~invoice[i].deleted}
Active == {p \in Payments : payment[p] # None /\ ~payment[p].void}

(* Rows that are being inserted are taken, and seen by nobody.             *)
FreeInvoices == {i \in Invoices : invoice[i] = None /\ \A t \in Running : tx[t].invoice # i}
FreePayments == {p \in Payments : payment[p] = None /\ \A t \in Running : tx[t].payment # p}

(* sumActiveApprovedPaidByPo                                               *)
InvoicedOf(rows) ==
    SumFunction([i \in {j \in rows : invoice[j].status \in {"APPROVED", "PAID"}} |-> invoice[i].total])
Invoiced == InvoicedOf(Live)

AllocatedTo(i) == SumFunction([p \in Payments |-> allocated[p][i]])
AllocatedOf(p) == SumFunction(allocated[p])

-----------------------------------------------------------------------------
(* Locks.                                                                  *)

OrderRow == <<"order">>
InvoiceRow(i) == <<"invoice", i>>
PaymentRow(p) == <<"payment", p>>

(* The row that the next statement of t locks or writes.                   *)
Wants(t) ==
    CASE tx[t].step \in {"lockOrder", "writeOrder"} -> {OrderRow}
      [] tx[t].step \in {"lockInvoice", "claim", "writeInvoice"} -> {InvoiceRow(tx[t].invoice)}
      [] tx[t].step \in {"lockPayment", "remove"} -> {PaymentRow(tx[t].payment)}
      [] OTHER -> {}

WaitsFor(t, u) == t # u /\ Wants(t) \cap tx[u].rows # {}

Ready(t) == \A u \in Running : ~WaitsFor(t, u)

-----------------------------------------------------------------------------
(* Requests.                                                               *)

Data == <<order, invoice, payment, allocated, journal>>

Becomes(t, new) == tx' = [tx EXCEPT ![t] = new] /\ UNCHANGED <<Data, requests>>

Abort(t) == Becomes(t, None)

Begin(t, transaction) ==
    /\ tx[t] = None
    /\ requests < MaxRequests
    /\ requests' = requests + 1
    /\ tx' = [tx EXCEPT ![t] = transaction]
    /\ UNCHANGED Data

CreateInvoice(t) ==
    \E i \in FreeInvoices, q \in 1..Units : Begin(t, Transaction("create", "order", i, None, q))

(* An order is sent, edited while it is a draft, or cancelled.             *)
ChangeOrder(t) ==
    \/ \E kind \in {"send", "cancelOrder"} : Begin(t, Transaction(kind, "order", None, None, 0))
    \/ \E q \in 1..Units : Begin(t, Transaction("edit", "order", None, None, q))

ChangeInvoice(t) ==
    \E i \in Live, kind \in {"approve", "cancel", "cancelDraft", "markPaid", "delete"} :
        Begin(t, Transaction(kind, "invoice", i, None, 0))

Pay(t) ==
    \E i \in Live, p \in FreePayments, q \in 1..Units :
        Begin(t, Transaction("pay", "invoice", i, p, q))

(* A payment on account waits for no row, and no statement waits for it.   *)
PayUnallocated ==
    \E p \in FreePayments, q \in 1..Units :
        /\ requests < MaxRequests
        /\ requests' = requests + 1
        /\ payment' = [payment EXCEPT ![p] = Payment(q, None)]
        /\ UNCHANGED <<order, invoice, allocated, journal, tx>>

(* What is checked before the transaction begins is checked here.          *)
Allocate(t) ==
    \E i \in Live, p \in Active, q \in 1..Units :
        /\ invoice[i].status # "CANCELLED"
        /\ Begin(t, Transaction("allocate", "lockInvoice", i, p, q))

Void(t) ==
    \E p \in Active :
        LET i == payment[p].of IN
        /\ i # None => i \in Live /\ invoice[i].status # "CANCELLED"
        /\ Begin(t, [Transaction("void", "remove", i, p, payment[p].amount)
                     EXCEPT !.saw = IF i = None THEN None ELSE invoice[i]])

-----------------------------------------------------------------------------
(* Statements on the order.                                                *)

AdmitsOrder(t) ==
    CASE tx[t].kind = "create" -> order.status # "CANCELLED"
      [] tx[t].kind = "cancelOrder" -> order.status # "CANCELLED"
      [] OTHER -> order.status = "DRAFT"

ReadOrder(t) ==
    /\ At(t, "order")
    /\ IF AdmitsOrder(t)
       THEN Becomes(t, [tx[t] EXCEPT
                !.saw = order,
                !.step = CASE tx[t].kind = "create" -> "lockOrder"
                           [] tx[t].kind = "cancelOrder" -> "checkOrder"
                           [] OTHER -> "writeOrder"])
       ELSE Abort(t)

(* No approved or paid invoice may stand on an order that is cancelled.    *)
CheckOrder(t) ==
    /\ At(t, "checkOrder")
    /\ IF \E i \in Live : invoice[i].status \in {"APPROVED", "PAID"}
       THEN Abort(t)
       ELSE Becomes(t, [tx[t] EXCEPT !.step = "writeOrder"])

WriteOrder(t) ==
    /\ At(t, "writeOrder")
    /\ Ready(t)
    /\ IF order.version = tx[t].saw.version
       THEN Becomes(t, [tx[t] EXCEPT !.step = "commit", !.rows = @ \cup Wants(t)])
       ELSE Abort(t)

(* The creations and approvals on an order queue up here.                  *)
MutantLockOrder(t) ==
    /\ At(t, "lockOrder")
    /\ Becomes(t, [tx[t] EXCEPT !.step = "overrun"])

LockOrder(t) ==
    /\ At(t, "lockOrder")
    /\ Ready(t)
    /\ Becomes(t, [tx[t] EXCEPT !.step = "overrun", !.rows = @ \cup Wants(t)])

(* A creation checks the total it read before the lock; an approval reads  *)
(* the order again.                                                        *)
CheckOverrun(t) ==
    /\ At(t, "overrun")
    /\ IF tx[t].kind = "create"
       THEN IF Invoiced + tx[t].amount <= tx[t].saw.total
            THEN Becomes(t, [tx[t] EXCEPT !.step = "commit"])
            ELSE Abort(t)
       ELSE IF Invoiced + tx[t].saw.total <= order.total
            THEN Becomes(t, [tx[t] EXCEPT !.step = "claim"])
            ELSE Abort(t)

-----------------------------------------------------------------------------
(* Statements on an invoice.                                               *)

AdmitsInvoice(t) ==
    LET status == invoice[tx[t].invoice].status IN
    CASE tx[t].kind \in {"approve", "cancelDraft", "delete"} -> status = "DRAFT"
      [] tx[t].kind \in {"cancel", "markPaid"} -> status = "APPROVED"
      [] tx[t].kind = "pay" -> status \in {"APPROVED", "PAID"}

ReadInvoice(t) ==
    /\ At(t, "invoice")
    /\ IF tx[t].invoice \in Live /\ AdmitsInvoice(t)
       THEN Becomes(t, [tx[t] EXCEPT
                !.saw = invoice[tx[t].invoice],
                !.step = CASE tx[t].kind = "approve" -> "lockOrder"
                           [] tx[t].kind = "cancel" -> "claim"
                           [] tx[t].kind = "pay" -> "lockInvoice"
                           [] OTHER -> "writeInvoice"])
       ELSE Abort(t)

(* approveWithCas and cancelWithCas: by the version and the status.        *)
MutantClaim(t) ==
    /\ At(t, "claim")
    /\ Ready(t)
    /\ IF tx[t].invoice \in Live
       THEN Becomes(t, [tx[t] EXCEPT
                !.step = IF tx[t].kind = "cancel" THEN "journal" ELSE "commit",
                !.rows = @ \cup Wants(t)])
       ELSE Abort(t)

Claim(t) ==
    /\ At(t, "claim")
    /\ Ready(t)
    /\ IF /\ tx[t].invoice \in Live
          /\ AdmitsInvoice(t)
          /\ invoice[tx[t].invoice].version = tx[t].saw.version
       THEN Becomes(t, [tx[t] EXCEPT
                !.step = IF tx[t].kind = "cancel" THEN "journal" ELSE "commit",
                !.rows = @ \cup Wants(t)])
       ELSE Abort(t)

(* The posted entry of the invoice, which a cancellation reverses.         *)
FindJournal(t) ==
    /\ At(t, "journal")
    /\ IF journal[tx[t].invoice].posted > journal[tx[t].invoice].reversed
       THEN Becomes(t, [tx[t] EXCEPT !.step = "commit"])
       ELSE Abort(t)

(* Payments and allocations on an invoice queue up here.                   *)
MutantLockInvoice(t) ==
    /\ At(t, "lockInvoice")
    /\ Becomes(t, [tx[t] EXCEPT !.step = IF tx[t].kind = "pay" THEN "cover" ELSE "lockPayment"])

LockInvoice(t) ==
    /\ At(t, "lockInvoice")
    /\ Ready(t)
    /\ IF tx[t].invoice \in Live
       THEN Becomes(t, [tx[t] EXCEPT
                !.step = IF tx[t].kind = "pay" THEN "cover" ELSE "lockPayment",
                !.rows = @ \cup Wants(t)])
       ELSE Abort(t)

(* A payment checks what it read before the lock as paid, and what is      *)
(* allocated now; an allocation checks both as they are now.               *)
CheckCover(t) ==
    LET i == tx[t].invoice
        row == IF tx[t].kind = "pay" THEN tx[t].saw ELSE invoice[i] IN
    /\ At(t, "cover")
    /\ IF /\ tx[t].kind = "pay" \/ AllocatedOf(tx[t].payment) + tx[t].amount <= payment[tx[t].payment].amount
          /\ row.paid + tx[t].amount <= row.total
          /\ AllocatedTo(i) + tx[t].amount <= row.total
       THEN Becomes(t, [tx[t] EXCEPT
                !.step = IF tx[t].kind = "pay" THEN "writeInvoice" ELSE "commit"])
       ELSE Abort(t)

(* A payment, and the voiding of one, write the paid amount by the version *)
(* they read; a status set by hand is written in any case.                 *)
ByVersion == {"pay", "void"}

MutantWriteInvoice(t) ==
    /\ At(t, "writeInvoice")
    /\ Ready(t)
    /\ IF tx[t].kind = "void" /\ tx[t].saw.paid < tx[t].amount
       THEN Abort(t)
       ELSE Becomes(t, [tx[t] EXCEPT !.step = "commit", !.rows = @ \cup Wants(t)])

WriteInvoice(t) ==
    /\ At(t, "writeInvoice")
    /\ Ready(t)
    /\ IF \/ tx[t].kind \in ByVersion /\ invoice[tx[t].invoice].version # tx[t].saw.version
          \/ tx[t].kind = "void" /\ tx[t].saw.paid < tx[t].amount
       THEN Abort(t)
       ELSE Becomes(t, [tx[t] EXCEPT !.step = "commit", !.rows = @ \cup Wants(t)])

-----------------------------------------------------------------------------
(* Statements on a payment.                                                *)

MutantLockPayment(t) ==
    /\ At(t, "lockPayment")
    /\ IF tx[t].payment \in Active
       THEN Becomes(t, [tx[t] EXCEPT !.step = "cover"])
       ELSE Abort(t)

LockPayment(t) ==
    /\ At(t, "lockPayment")
    /\ Ready(t)
    /\ IF tx[t].payment \in Active
       THEN Becomes(t, [tx[t] EXCEPT !.step = "cover", !.rows = @ \cup Wants(t)])
       ELSE Abort(t)

(* The payment is voided if nobody else has done it.                       *)
RemovePayment(t) ==
    /\ At(t, "remove")
    /\ Ready(t)
    /\ IF tx[t].payment \in Active
       THEN Becomes(t, [tx[t] EXCEPT !.step = "unallocate", !.rows = @ \cup Wants(t)])
       ELSE Abort(t)

Unallocate(t) ==
    /\ At(t, "unallocate")
    /\ Becomes(t, [tx[t] EXCEPT
            !.step = IF tx[t].invoice = None THEN "commit" ELSE "writeInvoice",
            !.removes = allocated[tx[t].payment]])

-----------------------------------------------------------------------------
OrderWritten(t) ==
    CASE tx[t].kind = "send" -> [order EXCEPT !.status = "ORDERED", !.version = @ + 1]
      [] tx[t].kind = "edit" -> [order EXCEPT !.total = tx[t].amount, !.version = @ + 1]
      [] tx[t].kind = "cancelOrder" -> [order EXCEPT !.status = "CANCELLED", !.version = @ + 1]
      [] OTHER -> order

ByHand(t, row, status) ==
    [row EXCEPT !.status = status, !.overwritten = @ \/ row.status # tx[t].saw.status]

PaidWritten(row, paid, status) == [row EXCEPT !.paid = paid, !.status = status, !.version = @ + 1]

InvoiceWritten(t, row) ==
    LET left == tx[t].saw.paid - tx[t].amount IN
    CASE tx[t].kind = "create" -> Invoice(tx[t].amount, "DRAFT")
      [] tx[t].kind = "approve" -> [row EXCEPT !.status = "APPROVED", !.version = @ + 1]
      [] tx[t].kind = "cancel" -> [row EXCEPT !.status = "CANCELLED", !.version = @ + 1]
      [] tx[t].kind = "cancelDraft" -> ByHand(t, row, "CANCELLED")
      [] tx[t].kind = "markPaid" -> ByHand(t, row, "PAID")
      [] tx[t].kind = "delete" -> [row EXCEPT !.deleted = TRUE]
      [] tx[t].kind = "pay" -> LET sum == tx[t].saw.paid + tx[t].amount IN
            PaidWritten(row, sum, IF sum >= row.total THEN "PAID" ELSE row.status)
      [] tx[t].kind = "void" ->
            PaidWritten(row, left, IF left < row.total THEN "APPROVED" ELSE row.status)
      [] OTHER -> row

AllocationsWritten(t, p, i) ==
    IF p # tx[t].payment THEN allocated[p][i]
    ELSE CASE tx[t].kind \in {"pay", "allocate"} ->
                allocated[p][i] + (IF i = tx[t].invoice THEN tx[t].amount ELSE 0)
           [] tx[t].kind = "void" -> allocated[p][i] - tx[t].removes[i]
           [] OTHER -> allocated[p][i]

Commit(t) ==
    LET i == tx[t].invoice
        p == tx[t].payment
        one(kind) == IF tx[t].kind = kind THEN 1 ELSE 0 IN
    /\ At(t, "commit")
    /\ order' = OrderWritten(t)
    /\ invoice' = IF i = None THEN invoice ELSE [invoice EXCEPT ![i] = InvoiceWritten(t, @)]
    /\ journal' = IF i = None THEN journal
                  ELSE [journal EXCEPT ![i] = [posted |-> @.posted + one("approve"),
                                               reversed |-> @.reversed + one("cancel")]]
    /\ payment' = CASE tx[t].kind = "pay" -> [payment EXCEPT ![p] = Payment(tx[t].amount, i)]
                    [] tx[t].kind = "void" -> [payment EXCEPT ![p].void = TRUE]
                    [] OTHER -> payment
    /\ allocated' = [q \in Payments |-> [j \in Invoices |-> AllocationsWritten(t, q, j)]]
    /\ tx' = [tx EXCEPT ![t] = None]
    /\ UNCHANGED requests

(* An error, a crash, or the choice of a deadlock's victim.                *)
Fail(t) == t \in Running /\ Abort(t)

Request(t) ==
    \/ CreateInvoice(t) \/ ChangeOrder(t) \/ ChangeInvoice(t) \/ Pay(t) \/ Allocate(t) \/ Void(t)

Statement(t) ==
    \/ ReadOrder(t) \/ CheckOrder(t) \/ WriteOrder(t) \/ LockOrder(t) \/ CheckOverrun(t)
    \/ ReadInvoice(t) \/ Claim(t) \/ FindJournal(t) \/ LockInvoice(t) \/ CheckCover(t)
    \/ WriteInvoice(t) \/ LockPayment(t) \/ RemovePayment(t) \/ Unallocate(t)
    \/ Commit(t) \/ Fail(t)

Next ==
    \/ \E t \in Txns : Request(t) \/ Statement(t)
    \/ PayUnallocated

Spec == Init /\ [][Next]_vars

-----------------------------------------------------------------------------
(* Properties.                                                             *)

(* The paid amount of an invoice is what its standing payments come to: no *)
(* payment and no voiding of one is lost to another.                       *)
PaidIsPayments ==
    \A i \in Invoices : invoice[i] # None =>
        invoice[i].paid = SumFunction([p \in {q \in Active : payment[q].of = i} |-> payment[p].amount])

(* Payments on an invoice and allocations of other payments to it never    *)
(* cover more than its total together.                                     *)
CoverWithinTotal ==
    \A i \in Invoices : AllocatedTo(i) > 0 => AllocatedTo(i) <= invoice[i].total

(* A payment is never allocated beyond its amount, and not at all once it  *)
(* is voided, although its allocations are removed in another statement.   *)
AllocatedWithinPayment ==
    \A p \in Payments : AllocatedOf(p) > 0 => p \in Active /\ AllocatedOf(p) <= payment[p].amount

(* When an invoice is approved, the approved invoices are within the total *)
(* of the order as it stands then, except those that a status set by hand  *)
(* has brought back from a cancellation it did not see.                    *)
ApprovedWithinOrder ==
    [][(\E i \in Invoices : journal'[i].posted > journal[i].posted)
            => InvoicedOf({i \in Live : ~invoice[i].overwritten})' <= order.total]_vars

(* The entry of an invoice is posted once and reversed once at most, even  *)
(* where a status set by hand has overwritten another.                     *)
JournalOnce ==
    \A i \in Invoices : journal[i].reversed <= journal[i].posted /\ journal[i].posted <= 1

(* Transactions wait for one another in a circle only if one of them voids *)
(* a payment: the others take the order before an invoice and an invoice   *)
(* before a payment.                                                       *)
OnlyVoidsDeadlock ==
    \A ring \in SUBSET Running :
        ring # {} /\ (\A t \in ring : \E u \in ring : WaitsFor(t, u))
            => \E t \in ring : tx[t].kind = "void"

(* What lockInvoiceById says: every caller takes the invoice before the    *)
(* payment, so that no two of them wait for one another.                   *)
NoInversion == \A t, u \in Running : ~(WaitsFor(t, u) /\ WaitsFor(u, t))

(* What the allocation service says: the invoice is not cancelled.         *)
AllocatesToLive ==
    [][\A i \in Invoices : AllocatedTo(i)' > AllocatedTo(i) => invoice'[i].status # "CANCELLED"]_vars

(* What the purchase order service says: an order with active invoices is  *)
(* never cancelled.                                                        *)
CancelledUninvoiced ==
    [][order.status # "CANCELLED" /\ order'.status = "CANCELLED" => Invoiced' = 0]_vars
=============================================================================

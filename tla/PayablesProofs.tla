--------------------------- MODULE PayablesProofs ---------------------------
(***************************************************************************)
(* Proofs about Payables: the paid amount of an invoice is what its        *)
(* standing payments come to, what is allocated keeps within the invoice   *)
(* and within the payment, an entry is posted and reversed at most once,   *)
(* and an approval keeps the approved invoices within the order; for any   *)
(* numbers of invoices, payments and transactions.  A transaction x knows  *)
(* things about the rows: the order o, the invoices inv, the payments pm,  *)
(* the allocations al and the journal j.  What it knows is an operator of  *)
(* the rows, to be compared before and after a commit.                     *)
(*                                                                         *)
(* And proofs about RefundAllocation, which allocates the money of refunds *)
(* to payment methods: money, cost and credit are given back exactly       *)
(* (second part).                                                          *)
(***************************************************************************)
EXTENDS Payables, RefundAllocation, SumTheorems

Fields == {"invoice", "payment", "amount", "kind", "step", "saw", "removes", "rows"}

OrderKinds == {"create", "send", "edit", "cancelOrder"}
HandKinds == {"cancelDraft", "markPaid", "delete"}
InvoiceKinds == {"approve", "cancel"} \cup HandKinds
MoneyKinds == {"pay", "allocate", "void"}

Standing == {"APPROVED", "PAID"}

OrderRows == [total : Nat, status : {"DRAFT", "ORDERED", "CANCELLED"}, version : Nat]
InvoiceRows == [total : Nat, status : {"DRAFT", "APPROVED", "PAID", "CANCELLED"}, paid : Nat,
                version : Nat, deleted : BOOLEAN, overwritten : BOOLEAN]
PaymentRows == [amount : Nat, of : Invoices \cup {None}, void : BOOLEAN]
JournalRows == [posted : Nat, reversed : Nat]

(* The sums the properties are about, of given rows.                       *)
To(al, i) == SumFunction([p \in Payments |-> al[p][i]])
Of(al, p) == SumFunction(al[p])

Pays(row, i) == row # None /\ ~row.void /\ row.of = i
PaidBy(pm, i) == SumFunction([p \in Payments |-> IF Pays(pm[p], i) THEN pm[p].amount ELSE 0])

(* Approved or paid, and not by a status that has replaced another unseen. *)
Counts(row) == row # None /\ ~row.deleted /\ ~row.overwritten /\ row.status \in Standing
Clean(inv) == SumFunction([i \in Invoices |-> IF Counts(inv[i]) THEN inv[i].total ELSE 0])

-----------------------------------------------------------------------------
(* What transactions know.                                                 *)

(* While its version stands, an invoice is paid as it was when it was read *)
(* as seen, and stands approved or paid unless a status set by hand has    *)
(* replaced another.                                                       *)
Still(seen, row) ==
    /\ seen \in InvoiceRows
    /\ seen.status \in Standing
    /\ row.status # "DRAFT"
    /\ seen.total = row.total
    /\ seen.version <= row.version
    /\ seen.version = row.version =>
        seen.paid = row.paid /\ (row.status \in Standing \/ row.overwritten)

CreateKnows(x, inv) ==
    /\ x.step \in {"order", "lockOrder", "overrun", "commit"}
    /\ x.invoice \in Invoices /\ inv[x.invoice] = None
    /\ x.payment = None

(* A change of the order: send, edit or cancelOrder.                       *)
OrderKnows(x) ==
    /\ x.step \in {"order", "checkOrder", "writeOrder", "commit"}
    /\ x.invoice = None /\ x.payment = None
    /\ x.step = "commit" => OrderRow \in x.rows

(* Under the lock on the order the approved invoices, and the one to be    *)
(* approved, stay within its total.                                        *)
ApproveKnows(x, o, inv) ==
    /\ x.step \in {"invoice", "lockOrder", "overrun", "claim", "commit"}
    /\ x.step # "invoice" => x.saw \in InvoiceRows /\ x.saw.total = inv[x.invoice].total
    /\ x.step \in {"overrun", "claim", "commit"} => OrderRow \in x.rows
    /\ x.step \in {"claim", "commit"} => Clean(inv) + x.saw.total <= o.total
    /\ x.step = "commit" => InvoiceRow(x.invoice) \in x.rows /\ inv[x.invoice].status = "DRAFT"

CancelKnows(x, j) ==
    /\ x.step \in {"invoice", "claim", "journal", "commit"}
    /\ x.step \in {"journal", "commit"} => InvoiceRow(x.invoice) \in x.rows
    /\ x.step = "commit" => j[x.invoice].posted > j[x.invoice].reversed

HandKnows(x) ==
    /\ x.step \in {"invoice", "writeInvoice", "commit"}
    /\ x.step # "invoice" =>
        /\ x.saw \in InvoiceRows
        /\ x.saw.status = IF x.kind = "markPaid" THEN "APPROVED" ELSE "DRAFT"
    /\ x.step = "commit" => InvoiceRow(x.invoice) \in x.rows

InvoiceKnows(x, o, inv, j) ==
    /\ x.invoice \in Invoices /\ inv[x.invoice] # None
    /\ x.payment = None
    /\ x.kind = "approve" => ApproveKnows(x, o, inv)
    /\ x.kind = "cancel" => CancelKnows(x, j)
    /\ x.kind \in HandKinds => HandKnows(x)

(* What is allocated to an invoice, and this amount, stay within its total *)
(* under the lock on the invoice.                                          *)
FitsInvoice(x, inv, al) == To(al, x.invoice) + x.amount <= inv[x.invoice].total

PayKnows(x, inv, pm, al) ==
    /\ x.step \in {"invoice", "lockInvoice", "cover", "writeInvoice", "commit"}
    /\ x.invoice \in Invoices /\ inv[x.invoice] # None
    /\ x.payment \in Payments /\ pm[x.payment] = None
    /\ x.step # "invoice" => Still(x.saw, inv[x.invoice])
    /\ x.step \notin {"invoice", "lockInvoice"} => InvoiceRow(x.invoice) \in x.rows
    /\ x.step \in {"writeInvoice", "commit"} => FitsInvoice(x, inv, al)
    /\ x.step = "commit" => x.saw.version = inv[x.invoice].version

AllocateKnows(x, inv, pm, al) ==
    /\ x.step \in {"lockInvoice", "lockPayment", "cover", "commit"}
    /\ x.invoice \in Invoices /\ inv[x.invoice] # None
    /\ x.payment \in Payments /\ pm[x.payment] # None
    /\ x.step # "lockInvoice" => InvoiceRow(x.invoice) \in x.rows
    /\ x.step \in {"cover", "commit"} => PaymentRow(x.payment) \in x.rows /\ ~pm[x.payment].void
    /\ x.step = "commit" =>
        FitsInvoice(x, inv, al) /\ Of(al, x.payment) + x.amount <= pm[x.payment].amount

VoidKnows(x, inv, pm, al) ==
    /\ x.step \in {"remove", "unallocate", "writeInvoice", "commit"}
    /\ x.payment \in Payments /\ pm[x.payment] # None
    /\ x.invoice = pm[x.payment].of /\ x.amount = pm[x.payment].amount
    /\ x.invoice # None => inv[x.invoice] # None /\ Still(x.saw, inv[x.invoice])
    /\ x.invoice = None => x.step # "writeInvoice"
    /\ x.step # "remove" => PaymentRow(x.payment) \in x.rows /\ ~pm[x.payment].void
    /\ x.step \in {"writeInvoice", "commit"} => x.removes = al[x.payment]
    /\ x.step = "commit" /\ x.invoice # None =>
        /\ InvoiceRow(x.invoice) \in x.rows
        /\ x.saw.version = inv[x.invoice].version /\ x.amount <= x.saw.paid

Good(x, o, inv, pm, al, j) ==
    /\ DOMAIN x = Fields
    /\ x.kind \in OrderKinds \cup InvoiceKinds \cup MoneyKinds
    /\ x.amount \in Nat
    /\ x.kind = "create" => CreateKnows(x, inv)
    /\ x.kind \in OrderKinds \ {"create"} => OrderKnows(x)
    /\ x.kind \in InvoiceKinds => InvoiceKnows(x, o, inv, j)
    /\ x.kind = "pay" => PayKnows(x, inv, pm, al)
    /\ x.kind = "allocate" => AllocateKnows(x, inv, pm, al)
    /\ x.kind = "void" => VoidKnows(x, inv, pm, al)

(* No row is held by two; an invoice or a payment that is being made is    *)
(* known to the transaction that makes it and to no other.                 *)
Apart(x, z) ==
    /\ x.rows \cap z.rows = {}
    /\ x.kind = "create" => z.invoice # x.invoice
    /\ x.kind = "pay" => z.payment # x.payment

-----------------------------------------------------------------------------
(* The inductive invariant.                                                *)

TypesOK ==
    /\ order \in OrderRows
    /\ invoice \in [Invoices -> InvoiceRows \cup {None}]
    /\ payment \in [Payments -> PaymentRows \cup {None}]
    /\ allocated \in [Payments -> [Invoices -> Nat]]
    /\ journal \in [Invoices -> JournalRows]

(* A draft has not been posted nor paid; what has not been made has no     *)
(* allocations.                                                            *)
DraftsFresh ==
    \A i \in Invoices :
        /\ invoice[i] = None \/ invoice[i].status = "DRAFT" =>
            /\ journal[i].posted = 0
            /\ \A p \in Payments : payment[p] # None => payment[p].of # i
        /\ invoice[i] = None => AllocatedTo(i) = 0

DataInv ==
    /\ TypesOK /\ DraftsFresh
    /\ PaidIsPayments /\ CoverWithinTotal /\ AllocatedWithinPayment /\ JournalOnce

AllApart == \A t, u \in Running : t # u => Apart(tx[t], tx[u])

AllGood ==
    /\ DOMAIN tx = Txns
    /\ \A t \in Running : Good(tx[t], order, invoice, payment, allocated, journal)

IInv == DataInv /\ AllApart /\ AllGood

-----------------------------------------------------------------------------
(* Facts about rows and sums.                                              *)

LEMMA RowsDiffer ==
    /\ \A i, j : InvoiceRow(i) = InvoiceRow(j) => i = j
    /\ \A i, j : PaymentRow(i) = PaymentRow(j) => i = j
    /\ \A i : OrderRow # InvoiceRow(i) /\ OrderRow # PaymentRow(i)
    /\ \A i, j : InvoiceRow(i) # PaymentRow(j)
BY DEF OrderRow, InvoiceRow, PaymentRow

InvoiceTable == [Invoices -> InvoiceRows \cup {None}]
PaymentTable == [Payments -> PaymentRows \cup {None}]
AllocationTable == [Payments -> [Invoices -> Nat]]

LEMMA ToNat ==
    ASSUME NEW al \in AllocationTable, NEW i \in Invoices
    PROVE  /\ To(al, i) \in Nat
           /\ To(al, i) = 0 <=> \A p \in Payments : al[p][i] = 0
<1> DEFINE f == [p \in Payments |-> al[p][i]]
<1>1. DOMAIN f = Payments /\ \A p \in Payments : f[p] \in Nat /\ f[p] = al[p][i]
  BY DEF AllocationTable
<1>2. To(al, i) = SumFunction(f)
  BY DEF To
<1> HIDE DEF f
<1>3. SumFunction(f) \in Nat /\ (SumFunction(f) = 0 <=> \A p \in Payments : f[p] = 0)
  BY <1>1, SumNat, SumZero, PayablesAssumption DEF SumFunction
<1> QED BY <1>1, <1>2, <1>3

LEMMA OfNat ==
    ASSUME NEW al \in AllocationTable, NEW p \in Payments
    PROVE  /\ Of(al, p) \in Nat
           /\ Of(al, p) = 0 <=> \A i \in Invoices : al[p][i] = 0
<1> DEFINE f == al[p]
<1>1. DOMAIN f = Invoices /\ \A i \in Invoices : f[i] \in Nat
  BY DEF AllocationTable
<1>2. Of(al, p) = SumFunction(f)
  BY DEF Of
<1> HIDE DEF f
<1>3. SumFunction(f) \in Nat /\ (SumFunction(f) = 0 <=> \A i \in Invoices : f[i] = 0)
  BY <1>1, SumNat, SumZero, PayablesAssumption DEF SumFunction
<1> QED BY <1>2, <1>3 DEF f

(* Another allocation of one payment to one invoice.                       *)
LEMMA ToChanges ==
    ASSUME NEW al \in AllocationTable, NEW al2 \in AllocationTable, NEW i \in Invoices,
           NEW p \in Payments, \A q \in Payments : q # p => al2[q][i] = al[q][i]
    PROVE  To(al2, i) = To(al, i) + (al2[p][i] - al[p][i])
<1> DEFINE f == [q \in Payments |-> al[q][i]]
           h == [q \in Payments |-> al2[q][i]]
<1>1. /\ DOMAIN f = Payments /\ DOMAIN h = Payments
      /\ \A q \in Payments : f[q] \in Int
      /\ h[p] \in Int /\ h[p] = al2[p][i] /\ f[p] = al[p][i]
      /\ \A q \in Payments : q # p => f[q] = h[q]
  BY DEF AllocationTable
<1>2. To(al, i) = SumFunction(f) /\ To(al2, i) = SumFunction(h)
  BY DEF To
<1> HIDE DEF f, h
<1>3. SumFunctionOnSet(h, Payments) = SumFunctionOnSet(f, Payments) + (h[p] - f[p])
  BY <1>1, SumUpdate, PayablesAssumption
<1> QED BY <1>1, <1>2, <1>3 DEF SumFunction

LEMMA OfChanges ==
    ASSUME NEW al \in AllocationTable, NEW al2 \in AllocationTable, NEW p \in Payments,
           NEW i \in Invoices, \A j \in Invoices : j # i => al2[p][j] = al[p][j]
    PROVE  Of(al2, p) = Of(al, p) + (al2[p][i] - al[p][i])
<1> DEFINE f == al[p]
           h == al2[p]
<1>1. /\ DOMAIN f = Invoices /\ DOMAIN h = Invoices
      /\ \A j \in Invoices : f[j] \in Int
      /\ h[i] \in Int
      /\ \A j \in Invoices : j # i => f[j] = h[j]
  BY DEF AllocationTable
<1>2. Of(al, p) = SumFunction(f) /\ Of(al2, p) = SumFunction(h)
  BY DEF Of
<1> HIDE DEF f, h
<1>3. SumFunctionOnSet(h, Invoices) = SumFunctionOnSet(f, Invoices) + (h[i] - f[i])
  BY <1>1, SumUpdate, PayablesAssumption
<1>4. SumFunction(h) = SumFunction(f) + (h[i] - f[i])
  BY <1>1, <1>3 DEF SumFunction
<1> QED BY <1>2, <1>4 DEF f, h

(* What a payment contributes to the paid amount of an invoice.            *)
Part(row, i) == IF Pays(row, i) THEN row.amount ELSE 0

LEMMA PartNat == ASSUME NEW row \in PaymentRows \cup {None}, NEW i PROVE Part(row, i) \in Nat
BY DEF Part, Pays, PaymentRows

LEMMA PaidByChanges ==
    ASSUME NEW pm \in PaymentTable, NEW pm2 \in PaymentTable, NEW i, NEW p \in Payments,
           \A q \in Payments : q # p => pm2[q] = pm[q]
    PROVE  /\ PaidBy(pm, i) \in Nat
           /\ PaidBy(pm2, i) = PaidBy(pm, i) + (Part(pm2[p], i) - Part(pm[p], i))
<1> DEFINE f == [q \in Payments |-> Part(pm[q], i)]
           h == [q \in Payments |-> Part(pm2[q], i)]
<1>1. /\ DOMAIN f = Payments /\ DOMAIN h = Payments
      /\ \A q \in Payments : f[q] \in Nat /\ h[q] \in Nat
      /\ h[p] = Part(pm2[p], i) /\ f[p] = Part(pm[p], i)
      /\ \A q \in Payments : q # p => f[q] = h[q]
  BY PartNat DEF PaymentTable
<1>2. PaidBy(pm, i) = SumFunction(f) /\ PaidBy(pm2, i) = SumFunction(h)
  BY DEF PaidBy, Part
<1> HIDE DEF f, h
<1>3. \A q \in Payments : f[q] \in Int /\ h[q] \in Int
  BY <1>1
<1>4. SumFunctionOnSet(h, Payments) = SumFunctionOnSet(f, Payments) + (h[p] - f[p])
  BY <1>1, <1>3, SumUpdate, PayablesAssumption
<1>5. SumFunctionOnSet(f, Payments) \in Nat
  BY <1>1, SumNat, PayablesAssumption
<1> QED BY <1>1, <1>2, <1>4, <1>5 DEF SumFunction

(* An invoice that no payment is of.                                       *)
LEMMA Unpaid ==
    ASSUME NEW pm, NEW i, \A p \in Payments : pm[p] # None => pm[p].of # i
    PROVE  PaidBy(pm, i) = 0
<1> DEFINE f == [p \in Payments |-> IF Pays(pm[p], i) THEN pm[p].amount ELSE 0]
<1>1. DOMAIN f = Payments /\ \A p \in Payments : f[p] = 0
  BY DEF Pays
<1>2. PaidBy(pm, i) = SumFunction(f)
  BY DEF PaidBy
<1> HIDE DEF f
<1> QED BY <1>1, <1>2, SumNothing, PayablesAssumption DEF SumFunction

(* What PaidIsPayments sums up, and what it says in terms of PaidBy.       *)
PaidAs(pm, i) ==
    SumFunction([p \in {q \in {r \in Payments : pm[r] # None /\ ~pm[r].void} : pm[q].of = i} |->
                    pm[p].amount])

LEMMA PaidSum ==
    ASSUME NEW pm \in PaymentTable, NEW i
    PROVE  PaidAs(pm, i) = PaidBy(pm, i)
<1> DEFINE T == {q \in {r \in Payments : pm[r] # None /\ ~pm[r].void} : pm[q].of = i}
           h == [p \in T |-> pm[p].amount]
           f == [p \in Payments |-> IF Pays(pm[p], i) THEN pm[p].amount ELSE 0]
<1>1. T \in SUBSET Payments /\ \A p \in Payments : p \in T <=> Pays(pm[p], i)
  BY DEF Pays
<1>2. \A p \in T : f[p] = h[p] /\ h[p] \in Int
  BY <1>1 DEF PaymentTable, PaymentRows, Pays
<1>3. \A p \in Payments \ T : f[p] = 0
  BY <1>1
<1>4. PaidBy(pm, i) = SumFunction(f) /\ DOMAIN f = Payments /\ DOMAIN h = T
  BY DEF PaidBy
<1> HIDE DEF T, f, h
<1>5. SumFunctionOnSet(f, Payments) = SumFunctionOnSet(h, T)
  BY <1>1, <1>2, <1>3, SumRestrict, PayablesAssumption
<1>6. SumFunction(h) = PaidBy(pm, i)
  BY <1>4, <1>5 DEF SumFunction
<1> QED BY <1>6 DEF PaidAs, h, T

LEMMA PaidMeans ==
    ASSUME TypesOK
    PROVE  PaidIsPayments <=>
                \A i \in Invoices : invoice[i] # None => invoice[i].paid = PaidBy(payment, i)
<1>1. \A i : PaidAs(payment, i) = PaidBy(payment, i)
  BY PaidSum DEF TypesOK, PaymentTable
<1> QED BY <1>1 DEF PaidIsPayments, PaidAs, Active

(* What an invoice contributes to the invoiced amount of the order.        *)
Contribution(row) == IF Counts(row) THEN row.total ELSE 0

LEMMA ShareNat == ASSUME NEW row \in InvoiceRows \cup {None} PROVE Contribution(row) \in Nat
BY DEF Contribution, Counts, InvoiceRows

LEMMA CleanChanges ==
    ASSUME NEW inv \in InvoiceTable, NEW inv2 \in InvoiceTable, NEW i \in Invoices,
           \A j \in Invoices : j # i => inv2[j] = inv[j]
    PROVE  /\ Clean(inv) \in Nat
           /\ Clean(inv2) = Clean(inv) + (Contribution(inv2[i]) - Contribution(inv[i]))
<1> DEFINE f == [j \in Invoices |-> Contribution(inv[j])]
           h == [j \in Invoices |-> Contribution(inv2[j])]
<1>1. /\ DOMAIN f = Invoices /\ DOMAIN h = Invoices
      /\ \A j \in Invoices : f[j] \in Nat /\ h[j] \in Nat
      /\ h[i] = Contribution(inv2[i]) /\ f[i] = Contribution(inv[i])
      /\ \A j \in Invoices : j # i => f[j] = h[j]
  BY ShareNat DEF InvoiceTable
<1>2. Clean(inv) = SumFunction(f) /\ Clean(inv2) = SumFunction(h)
  BY DEF Clean, Contribution
<1> HIDE DEF f, h
<1>3. \A j \in Invoices : f[j] \in Int /\ h[j] \in Int
  BY <1>1
<1>4. SumFunctionOnSet(h, Invoices) = SumFunctionOnSet(f, Invoices) + (h[i] - f[i])
  BY <1>1, <1>3, SumUpdate, PayablesAssumption
<1>5. SumFunctionOnSet(f, Invoices) \in Nat
  BY <1>1, SumNat, PayablesAssumption
<1> QED BY <1>1, <1>2, <1>4, <1>5 DEF SumFunction

LEMMA CleanNat == ASSUME NEW inv \in InvoiceTable PROVE Clean(inv) \in Nat
<1> DEFINE f == [j \in Invoices |-> Contribution(inv[j])]
<1>1. DOMAIN f = Invoices /\ \A j \in Invoices : f[j] \in Nat
  BY ShareNat DEF InvoiceTable
<1>2. Clean(inv) = SumFunction(f)
  BY DEF Clean, Contribution
<1> HIDE DEF f
<1> QED BY <1>1, <1>2, SumNat, PayablesAssumption DEF SumFunction

(* Clean is the invoiced amount of the live invoices whose status has not  *)
(* been overwritten.                                                       *)
LEMMA CleanSum ==
    ASSUME NEW inv \in InvoiceTable, NEW rows,
           \A i : i \in rows <=> i \in Invoices /\ inv[i] # None /\ ~inv[i].deleted /\ ~inv[i].overwritten
    PROVE  SumFunction([i \in {j \in rows : inv[j].status \in {"APPROVED", "PAID"}} |-> inv[i].total])
                = Clean(inv)
<1> DEFINE T == {j \in rows : inv[j].status \in {"APPROVED", "PAID"}}
           h == [i \in T |-> inv[i].total]
           f == [i \in Invoices |-> IF Counts(inv[i]) THEN inv[i].total ELSE 0]
<1>1. T \in SUBSET Invoices /\ \A i \in Invoices : i \in T <=> Counts(inv[i])
  BY DEF Counts, Standing
<1>2. \A i \in T : f[i] = h[i] /\ h[i] \in Int
  BY <1>1 DEF InvoiceTable, InvoiceRows, Counts
<1>3. \A i \in Invoices \ T : f[i] = 0
  BY <1>1
<1>4. Clean(inv) = SumFunction(f) /\ DOMAIN f = Invoices /\ DOMAIN h = T
  BY DEF Clean
<1> HIDE DEF T, f, h
<1>5. SumFunctionOnSet(f, Invoices) = SumFunctionOnSet(h, T)
  BY <1>1, <1>2, <1>3, SumRestrict, PayablesAssumption
<1>6. SumFunction(h) = Clean(inv)
  BY <1>4, <1>5 DEF SumFunction
<1> QED BY <1>6 DEF h, T

LEMMA CleanWithin ==
    ASSUME TypesOK PROVE Clean(invoice) <= Invoiced /\ Invoiced \in Nat
<1> DEFINE T == {j \in Live : invoice[j].status \in {"APPROVED", "PAID"}}
           h == [i \in T |-> invoice[i].total]
           g == [i \in Invoices |-> IF i \in T THEN invoice[i].total ELSE 0]
           f == [i \in Invoices |-> IF Counts(invoice[i]) THEN invoice[i].total ELSE 0]
<1>1. T \in SUBSET Invoices /\ \A i \in Invoices : Counts(invoice[i]) => i \in T
  BY DEF Live, Counts, Standing
<1>2. \A i \in T : g[i] = h[i] /\ h[i] \in Nat
  BY <1>1 DEF TypesOK, InvoiceRows, Live
<1>3. \A i \in Invoices \ T : g[i] = 0
  OBVIOUS
<1>4. ASSUME NEW i \in Invoices PROVE f[i] \in Nat /\ g[i] \in Nat /\ f[i] <= g[i]
  <2>1. i \in T => invoice[i].total \in Nat
    BY <1>1, <1>2
  <2>2. Counts(invoice[i]) => i \in T
    BY <1>1
  <2> HIDE DEF T
  <2> QED BY <2>1, <2>2
<1>5. /\ Clean(invoice) = SumFunction(f) /\ Invoiced = SumFunction(h)
      /\ DOMAIN f = Invoices /\ DOMAIN h = T
  BY DEF Clean, Invoiced, InvoicedOf
<1> HIDE DEF T, f, g, h
<1>6. \A i \in T : h[i] \in Int
  BY <1>2
<1>7. \A i \in Invoices : f[i] \in Int /\ g[i] \in Int /\ f[i] <= g[i]
  BY <1>4
<1>8. SumFunctionOnSet(g, Invoices) = SumFunctionOnSet(h, T)
  BY <1>1, <1>2, <1>3, <1>6, SumRestrict, PayablesAssumption
<1>9. SumFunctionOnSet(f, Invoices) <= SumFunctionOnSet(g, Invoices)
  BY <1>7, SumMonotone, PayablesAssumption
<1>10. SumFunctionOnSet(g, Invoices) \in Nat
  BY <1>4, SumNat, PayablesAssumption
<1> QED BY <1>5, <1>8, <1>9, <1>10 DEF SumFunction

-----------------------------------------------------------------------------
(* The invariant holds initially.                                          *)
LEMMA InitEstablishes == Init => IInv
<1> SUFFICES ASSUME Init PROVE IInv
  OBVIOUS
<1>1. Running = {}
  BY DEF Init, Running
<1>2. AllApart /\ AllGood
  BY <1>1 DEF AllApart, AllGood, Init
<1>3. PICK i \in Invoices, target \in {"DRAFT", "APPROVED"}, q \in 1..Units :
        /\ invoice = [j \in Invoices |-> IF j = i THEN Invoice(q, target) ELSE None]
        /\ journal = [j \in Invoices |->
                [posted |-> IF j = i /\ target = "APPROVED" THEN 1 ELSE 0, reversed |-> 0]]
  BY DEF Init
<1>4. PICK P \in SUBSET Payments :
        payment = [p \in Payments |-> IF p \in P THEN Payment(Units, None) ELSE None]
  BY DEF Init
<1>5. q \in Nat /\ Units \in Nat
  BY PayablesAssumption
<1>6. /\ Invoice(q, target) \in InvoiceRows /\ Invoice(q, target) # None
      /\ Invoice(q, target).paid = 0 /\ Invoice(q, target).status = target
      /\ Payment(Units, None) \in PaymentRows /\ Payment(Units, None).of = None
  <2>1. Invoice(q, target) \in InvoiceRows
    BY <1>5 DEF Invoice, InvoiceRows
  <2>2. Invoice(q, target) # None
    BY <2>1, NoneAssumption DEF InvoiceRows
  <2>3. Invoice(q, target).paid = 0 /\ Invoice(q, target).status = target
    BY DEF Invoice
  <2>4. Payment(Units, None) \in PaymentRows /\ Payment(Units, None).of = None
    BY <1>5 DEF Payment, PaymentRows
  <2> QED BY <2>1, <2>2, <2>3, <2>4
<1>7. /\ \A j \in Invoices : invoice[j] = None \/ invoice[j].status = "DRAFT" => journal[j].posted = 0
      /\ \A j \in Invoices : invoice[j] # None => invoice[j].paid = 0
      /\ \A j \in Invoices : journal[j].posted \in {0, 1} /\ journal[j].reversed = 0
      /\ \A p \in Payments : payment[p] # None => payment[p].of = None
  BY <1>3, <1>4, <1>6
<1>8. allocated = [p \in Payments |-> [j \in Invoices |-> 0]]
  BY DEF Init
<1>9. TypesOK
  <2>1. order \in OrderRows
    BY <1>5 DEF Init, OrderRows
  <2>2. invoice \in [Invoices -> InvoiceRows \cup {None}] /\ journal \in [Invoices -> JournalRows]
    BY <1>3, <1>6 DEF JournalRows
  <2>3. payment \in [Payments -> PaymentRows \cup {None}]
    BY <1>4, <1>6
  <2> QED BY <1>8, <2>1, <2>2, <2>3 DEF TypesOK
<1>10. \A j \in Invoices : AllocatedTo(j) = 0
  BY <1>8, <1>9, ToNat DEF AllocatedTo, To, TypesOK, AllocationTable
<1>11. \A p \in Payments : AllocatedOf(p) = 0
  BY <1>8, <1>9, OfNat DEF AllocatedOf, Of, TypesOK, AllocationTable
<1>12. PaidIsPayments
  <2>1. ASSUME NEW j \in Invoices PROVE PaidBy(payment, j) = 0
    BY <1>7, Unpaid, PayablesAssumption
  <2> QED BY <1>7, <1>9, <2>1, PaidMeans
<1>13. DraftsFresh
  BY <1>7, <1>10, PayablesAssumption DEF DraftsFresh
<1>14. JournalOnce
  BY <1>7 DEF JournalOnce
<1>15. CoverWithinTotal /\ AllocatedWithinPayment
  BY <1>10, <1>11 DEF CoverWithinTotal, AllocatedWithinPayment
<1> QED BY <1>2, <1>9, <1>12, <1>13, <1>14, <1>15 DEF IInv, DataInv

-----------------------------------------------------------------------------
(* Steps that change no row.                                               *)
LEMMA StepPreserves ==
    ASSUME IInv, NEW t \in Txns, NEW y, tx' = [tx EXCEPT ![t] = y], UNCHANGED Data,
           y # None =>
             /\ Good(y, order, invoice, payment, allocated, journal)
             /\ \A u \in Running : u # t => Apart(y, tx[u]) /\ Apart(tx[u], y)
    PROVE  IInv'
<1>1. /\ order' = order /\ invoice' = invoice /\ payment' = payment
      /\ allocated' = allocated /\ journal' = journal
  BY DEF Data
<1>2. DataInv'
  <2>1. TypesOK' /\ DraftsFresh' /\ CoverWithinTotal' /\ JournalOnce'
    BY <1>1 DEF IInv, DataInv, TypesOK, DraftsFresh, CoverWithinTotal, JournalOnce, AllocatedTo
  <2>2. PaidIsPayments' /\ AllocatedWithinPayment'
    BY <1>1 DEF IInv, DataInv, PaidIsPayments, AllocatedWithinPayment, AllocatedOf, Active
  <2> QED BY <2>1, <2>2 DEF DataInv
<1>3. DOMAIN tx = Txns
  BY DEF IInv, AllGood
<1>4. tx'[t] = y /\ \A u \in Txns : u # t => tx'[u] = tx[u]
  BY <1>3
<1>5. \A u \in Running' : u \in Txns /\ (u = t \/ u \in Running) /\ tx'[u] # None
  BY <1>4 DEF Running
<1>6. AllGood'
  <2>1. ASSUME NEW u \in Running'
        PROVE  Good(tx'[u], order, invoice, payment, allocated, journal)
    BY <1>4, <1>5 DEF IInv, AllGood
  <2> QED BY <1>1, <1>3, <2>1 DEF AllGood
<1>7. AllApart'
  <2> SUFFICES ASSUME NEW u \in Running', NEW v \in Running', u # v
               PROVE  Apart(tx'[u], tx'[v])
    BY DEF AllApart
  <2>1. CASE u = t
    BY <1>4, <1>5, <2>1
  <2>2. CASE v = t
    BY <1>4, <1>5, <2>2
  <2>3. CASE u # t /\ v # t
    BY <1>4, <1>5, <2>3 DEF IInv, AllApart
  <2> QED BY <2>1, <2>2, <2>3
<1> QED BY <1>2, <1>6, <1>7 DEF IInv

LEMMA AbortPreserves == ASSUME IInv, NEW t \in Txns, Abort(t) PROVE IInv'
BY StepPreserves DEF Abort, Becomes

LEMMA Known ==
    ASSUME IInv, NEW t \in Txns, NEW step, At(t, step)
    PROVE  /\ t \in Running /\ tx[t].step = step
           /\ Good(tx[t], order, invoice, payment, allocated, journal)
           /\ DOMAIN tx[t] = Fields
BY DEF At, Running, IInv, AllGood, Good

(* A step of t that stays what it is, and takes the rows that it wants and *)
(* nobody holds, or none.                                                  *)
LEMMA GoOn ==
    ASSUME IInv, NEW t \in Running, NEW y, Becomes(t, y),
           Good(y, order, invoice, payment, allocated, journal),
           y.kind = tx[t].kind, y.invoice = tx[t].invoice, y.payment = tx[t].payment,
           y.rows = tx[t].rows \/ (Ready(t) /\ y.rows = tx[t].rows \cup Wants(t))
    PROVE  IInv'
<1>1. t \in Txns
  BY DEF Running
<1>2. tx' = [tx EXCEPT ![t] = y] /\ UNCHANGED Data
  BY DEF Becomes
<1>3. ASSUME NEW u \in Running, u # t PROVE Apart(y, tx[u]) /\ Apart(tx[u], y)
  <2>1. Apart(tx[t], tx[u]) /\ Apart(tx[u], tx[t])
    BY <1>3 DEF IInv, AllApart
  <2>2. y.rows \cap tx[u].rows = {}
    BY <1>3, <2>1 DEF Apart, Ready, WaitsFor
  <2> QED BY <2>1, <2>2 DEF Apart
<1> QED BY <1>1, <1>2, <1>3, StepPreserves

-----------------------------------------------------------------------------
(* Requests.                                                               *)

LEMMA TransactionFields ==
    ASSUME NEW kind, NEW step, NEW i, NEW p, NEW amount,
           NEW y, y = Transaction(kind, step, i, p, amount)
    PROVE  /\ DOMAIN y = Fields
           /\ y.kind = kind /\ y.step = step /\ y.invoice = i /\ y.payment = p
           /\ y.amount = amount /\ y.rows = {}
BY DEF Transaction, Fields

(* A request that is about no invoice and no payment that is being made.   *)
LEMMA BeginPreserves ==
    ASSUME IInv, NEW t \in Txns, NEW y, Begin(t, y), y.rows = {},
           Good(y, order, invoice, payment, allocated, journal),
           \A u \in Running : u # t =>
                /\ tx[u].kind = "create" \/ y.kind = "create" => tx[u].invoice # y.invoice
                /\ tx[u].kind = "pay" \/ y.kind = "pay" => tx[u].payment # y.payment
    PROVE  IInv'
<1>1. tx' = [tx EXCEPT ![t] = y] /\ UNCHANGED Data
  BY DEF Begin
<1> QED BY <1>1, StepPreserves DEF Apart

(* What is being made is not there yet.                                    *)
LEMMA BeingMade ==
    ASSUME IInv, NEW u \in Running
    PROVE  /\ tx[u].kind = "create" => tx[u].invoice \in Invoices /\ invoice[tx[u].invoice] = None
           /\ tx[u].kind = "pay" => tx[u].payment \in Payments /\ payment[tx[u].payment] = None
BY DEF IInv, AllGood, Good, CreateKnows, PayKnows

LEMMA OrderRequestPreserves ==
    ASSUME IInv, NEW t \in Txns, CreateInvoice(t) \/ ChangeOrder(t) PROVE IInv'
<1>1. CASE CreateInvoice(t)
  <2>1. PICK i \in FreeInvoices, q \in 1..Units : Begin(t, Transaction("create", "order", i, None, q))
    BY <1>1 DEF CreateInvoice
  <2> DEFINE y == Transaction("create", "order", i, None, q)
  <2>2. /\ DOMAIN y = Fields /\ y.kind = "create" /\ y.step = "order" /\ y.invoice = i
        /\ y.payment = None /\ y.amount = q /\ y.rows = {}
    BY TransactionFields
  <2>3. i \in Invoices /\ invoice[i] = None /\ \A u \in Running : tx[u].invoice # i
    BY DEF FreeInvoices
  <2>4. q \in Nat
    BY PayablesAssumption
  <2> HIDE DEF y
  <2>5. Good(y, order, invoice, payment, allocated, journal)
    BY <2>2, <2>3, <2>4 DEF Good, OrderKinds, InvoiceKinds, HandKinds, MoneyKinds, CreateKnows
  <2>6. \A u \in Running : tx[u].kind = "pay" => tx[u].payment # None
    BY BeingMade, PayablesAssumption
  <2> QED BY <2>1, <2>2, <2>3, <2>5, <2>6, BeginPreserves DEF y
<1>2. CASE ChangeOrder(t)
  <2>1. PICK kind \in {"send", "edit", "cancelOrder"}, q \in Nat :
            Begin(t, Transaction(kind, "order", None, None, q))
    <3>1. \A q \in 1..Units : q \in Nat
      BY PayablesAssumption
    <3>2. 0 \in Nat
      OBVIOUS
    <3> QED BY <1>2, <3>1, <3>2 DEF ChangeOrder
  <2> DEFINE y == Transaction(kind, "order", None, None, q)
  <2>2. /\ DOMAIN y = Fields /\ y.kind = kind /\ y.step = "order" /\ y.invoice = None
        /\ y.payment = None /\ y.amount = q /\ y.rows = {}
    BY TransactionFields
  <2> HIDE DEF y
  <2>3. Good(y, order, invoice, payment, allocated, journal)
    BY <2>2 DEF Good, OrderKinds, InvoiceKinds, HandKinds, MoneyKinds, OrderKnows
  <2>4. \A u \in Running : /\ tx[u].kind = "create" => tx[u].invoice # None
                           /\ tx[u].kind = "pay" => tx[u].payment # None
    BY BeingMade, PayablesAssumption
  <2> QED BY <2>1, <2>2, <2>3, <2>4, BeginPreserves DEF y
<1> QED BY <1>1, <1>2

LEMMA ChangeInvoicePreserves == ASSUME IInv, NEW t \in Txns, ChangeInvoice(t) PROVE IInv'
<1>1. PICK i \in Live, kind \in {"approve", "cancel", "cancelDraft", "markPaid", "delete"} :
        Begin(t, Transaction(kind, "invoice", i, None, 0))
  BY DEF ChangeInvoice
<1> DEFINE y == Transaction(kind, "invoice", i, None, 0)
<1>2. /\ DOMAIN y = Fields /\ y.kind = kind /\ y.step = "invoice" /\ y.invoice = i
      /\ y.payment = None /\ y.amount = 0 /\ y.rows = {}
  BY TransactionFields
<1>3. i \in Invoices /\ invoice[i] # None
  BY DEF Live
<1> HIDE DEF y
<1>4. InvoiceKnows(y, order, invoice, journal) /\ y.kind \in InvoiceKinds
  BY <1>2, <1>3 DEF InvoiceKinds, HandKinds, InvoiceKnows, ApproveKnows, CancelKnows, HandKnows
<1>5. Good(y, order, invoice, payment, allocated, journal)
  BY <1>2, <1>4 DEF Good, OrderKinds, InvoiceKinds, HandKinds, MoneyKinds
<1>6. \A u \in Running : /\ tx[u].kind = "create" => tx[u].invoice # i
                         /\ tx[u].kind = "pay" => tx[u].payment # None
  BY <1>3, BeingMade, PayablesAssumption
<1>7. y.kind # "create" /\ y.kind # "pay"
  BY <1>2
<1> QED BY <1>1, <1>2, <1>5, <1>6, <1>7, BeginPreserves DEF y

LEMMA PayPreserves == ASSUME IInv, NEW t \in Txns, Pay(t) PROVE IInv'
<1>1. PICK i \in Live, p \in FreePayments, q \in 1..Units :
        Begin(t, Transaction("pay", "invoice", i, p, q))
  BY DEF Pay
<1> DEFINE y == Transaction("pay", "invoice", i, p, q)
<1>2. /\ DOMAIN y = Fields /\ y.kind = "pay" /\ y.step = "invoice" /\ y.invoice = i
      /\ y.payment = p /\ y.amount = q /\ y.rows = {}
  BY TransactionFields
<1>3. /\ i \in Invoices /\ invoice[i] # None /\ p \in Payments /\ payment[p] = None
      /\ \A u \in Running : tx[u].payment # p
  BY DEF Live, FreePayments
<1>4. q \in Nat
  BY PayablesAssumption
<1> HIDE DEF y
<1>5. Good(y, order, invoice, payment, allocated, journal)
  BY <1>2, <1>3, <1>4 DEF Good, OrderKinds, InvoiceKinds, HandKinds, MoneyKinds, PayKnows
<1>6. \A u \in Running : tx[u].kind = "create" => tx[u].invoice # i
  BY <1>3, BeingMade
<1> QED BY <1>1, <1>2, <1>3, <1>5, <1>6, BeginPreserves DEF y

LEMMA AllocatePreserves == ASSUME IInv, NEW t \in Txns, Allocate(t) PROVE IInv'
<1>1. PICK i \in Live, p \in Active, q \in 1..Units :
        Begin(t, Transaction("allocate", "lockInvoice", i, p, q))
  BY DEF Allocate
<1> DEFINE y == Transaction("allocate", "lockInvoice", i, p, q)
<1>2. /\ DOMAIN y = Fields /\ y.kind = "allocate" /\ y.step = "lockInvoice" /\ y.invoice = i
      /\ y.payment = p /\ y.amount = q /\ y.rows = {}
  BY TransactionFields
<1>3. i \in Invoices /\ invoice[i] # None /\ p \in Payments /\ payment[p] # None
  BY DEF Live, Active
<1>4. q \in Nat
  BY PayablesAssumption
<1> HIDE DEF y
<1>5. Good(y, order, invoice, payment, allocated, journal)
  BY <1>2, <1>3, <1>4 DEF Good, OrderKinds, InvoiceKinds, HandKinds, MoneyKinds, AllocateKnows
<1>6. \A u \in Running : /\ tx[u].kind = "create" => tx[u].invoice # i
                         /\ tx[u].kind = "pay" => tx[u].payment # p
  BY <1>3, BeingMade
<1> QED BY <1>1, <1>2, <1>5, <1>6, BeginPreserves DEF y

(* A payment that is voided is of no draft, so its invoice was seen        *)
(* approved or paid.                                                       *)
LEMMA VoidPreserves == ASSUME IInv, NEW t \in Txns, Void(t) PROVE IInv'
<1>1. PICK p \in Active :
        LET i == payment[p].of IN
        /\ i # None => i \in Live /\ invoice[i].status # "CANCELLED"
        /\ Begin(t, [Transaction("void", "remove", i, p, payment[p].amount)
                     EXCEPT !.saw = IF i = None THEN None ELSE invoice[i]])
  BY DEF Void
<1> DEFINE i == payment[p].of
           z == Transaction("void", "remove", i, p, payment[p].amount)
           y == [z EXCEPT !.saw = IF i = None THEN None ELSE invoice[i]]
<1>2. /\ DOMAIN z = Fields /\ z.kind = "void" /\ z.step = "remove" /\ z.invoice = i
      /\ z.payment = p /\ z.amount = payment[p].amount /\ z.rows = {}
  BY TransactionFields
<1>3. p \in Payments /\ payment[p] # None /\ i \in Invoices \cup {None} /\ payment[p].amount \in Nat
  BY DEF Active, IInv, DataInv, TypesOK, PaymentRows
<1>4. i # None => /\ i \in Invoices /\ invoice[i] # None /\ invoice[i].status # "CANCELLED"
                  /\ invoice[i] \in InvoiceRows
  BY <1>1 DEF Live, IInv, DataInv, TypesOK
<1>5. i # None => Still(invoice[i], invoice[i])
  <2>1. i # None => invoice[i].status # "DRAFT"
    BY <1>3, <1>4 DEF IInv, DataInv, DraftsFresh
  <2> HIDE DEF i
  <2> QED BY <1>4, <2>1 DEF Still, InvoiceRows, Standing
<1> HIDE DEF z
<1>6. /\ DOMAIN y = Fields /\ y.kind = "void" /\ y.step = "remove" /\ y.invoice = i
      /\ y.payment = p /\ y.amount = payment[p].amount /\ y.rows = {}
      /\ i # None => y.saw = invoice[i]
  BY <1>2 DEF Fields
<1>7. Begin(t, y)
  BY <1>1 DEF z
<1> HIDE DEF y
<1>8. Good(y, order, invoice, payment, allocated, journal)
  BY <1>3, <1>4, <1>5, <1>6 DEF Good, OrderKinds, InvoiceKinds, HandKinds, MoneyKinds, VoidKnows
<1>9. \A u \in Running : /\ tx[u].kind = "create" => tx[u].invoice # i
                         /\ tx[u].kind = "pay" => tx[u].payment # p
  BY <1>3, <1>4, BeingMade, PayablesAssumption
<1> HIDE DEF i
<1> QED BY <1>6, <1>7, <1>8, <1>9, BeginPreserves

-----------------------------------------------------------------------------
(* Statements on the order.                                                *)

LEMMA WantsOne ==
    ASSUME NEW t \in Running
    PROVE  /\ tx[t].step \in {"lockOrder", "writeOrder"} => Wants(t) = {OrderRow}
           /\ tx[t].step \in {"lockInvoice", "claim", "writeInvoice"} => Wants(t) = {InvoiceRow(tx[t].invoice)}
           /\ tx[t].step \in {"lockPayment", "remove"} => Wants(t) = {PaymentRow(tx[t].payment)}
BY DEF Wants

(* Which kinds of transaction get to a step.                               *)
LEMMA StepKinds ==
    ASSUME NEW x, NEW o, NEW inv, NEW pm, NEW al, NEW j, Good(x, o, inv, pm, al, j)
    PROVE  /\ x.step = "order" => x.kind \in OrderKinds
           /\ x.step \in {"checkOrder", "writeOrder"} => x.kind \in OrderKinds \ {"create"}
           /\ x.step \in {"lockOrder", "overrun"} => x.kind \in {"create", "approve"}
           /\ x.step = "invoice" => x.kind \in InvoiceKinds \cup {"pay"}
           /\ x.step = "claim" => x.kind \in {"approve", "cancel"}
           /\ x.step = "journal" => x.kind = "cancel"
           /\ x.step \in {"lockInvoice", "cover"} => x.kind \in {"pay", "allocate"}
           /\ x.step = "writeInvoice" => x.kind \in HandKinds \cup {"pay", "void"}
           /\ x.step = "lockPayment" => x.kind = "allocate"
           /\ x.step \in {"remove", "unallocate"} => x.kind = "void"
<1>1. CASE x.kind \in OrderKinds
  BY <1>1 DEF Good, OrderKinds, CreateKnows, OrderKnows
<1>2. CASE x.kind \in InvoiceKinds
  BY <1>2 DEF Good, InvoiceKinds, HandKinds, InvoiceKnows, ApproveKnows, CancelKnows, HandKnows
<1>3. CASE x.kind \in MoneyKinds
  BY <1>3 DEF Good, MoneyKinds, PayKnows, AllocateKnows, VoidKnows
<1> QED BY <1>1, <1>2, <1>3 DEF Good

LEMMA ReadOrderPreserves == ASSUME IInv, NEW t \in Txns, ReadOrder(t) PROVE IInv'
<1> DEFINE x == tx[t]
<1>1. /\ t \in Running /\ x.step = "order" /\ DOMAIN x = Fields /\ x.kind \in OrderKinds
      /\ Good(x, order, invoice, payment, allocated, journal)
  BY Known, StepKinds DEF ReadOrder
<1>2. CASE Abort(t)
  BY <1>2, AbortPreserves
<1>3. CASE ~Abort(t)
  <2> DEFINE next == CASE x.kind = "create" -> "lockOrder"
                       [] x.kind = "cancelOrder" -> "checkOrder"
                       [] OTHER -> "writeOrder"
             y == [x EXCEPT !.saw = order, !.step = next]
  <2>1. Becomes(t, y)
    BY <1>3 DEF ReadOrder
  <2>2. /\ x.kind = "create" => next = "lockOrder"
        /\ x.kind # "create" => next \in {"checkOrder", "writeOrder"}
    OBVIOUS
  <2> HIDE DEF next
  <2>3. /\ DOMAIN y = Fields /\ y.kind = x.kind /\ y.step = next /\ y.invoice = x.invoice
        /\ y.payment = x.payment /\ y.amount = x.amount /\ y.rows = x.rows
    BY <1>1 DEF Fields
  <2> HIDE DEF y
  <2>4. Good(y, order, invoice, payment, allocated, journal)
    BY <1>1, <2>2, <2>3 DEF Good, OrderKinds, InvoiceKinds, HandKinds, MoneyKinds, CreateKnows, OrderKnows
  <2> QED BY <1>1, <2>1, <2>3, <2>4, GoOn
<1> QED BY <1>2, <1>3

LEMMA CheckOrderPreserves == ASSUME IInv, NEW t \in Txns, CheckOrder(t) PROVE IInv'
<1> DEFINE x == tx[t]
<1>1. /\ t \in Running /\ x.step = "checkOrder" /\ DOMAIN x = Fields
      /\ x.kind \in OrderKinds \ {"create"}
      /\ Good(x, order, invoice, payment, allocated, journal)
  BY Known, StepKinds DEF CheckOrder
<1>2. CASE Abort(t)
  BY <1>2, AbortPreserves
<1>3. CASE ~Abort(t)
  <2> DEFINE y == [x EXCEPT !.step = "writeOrder"]
  <2>1. Becomes(t, y)
    BY <1>3 DEF CheckOrder
  <2>2. /\ DOMAIN y = Fields /\ y.kind = x.kind /\ y.step = "writeOrder" /\ y.invoice = x.invoice
        /\ y.payment = x.payment /\ y.amount = x.amount /\ y.rows = x.rows
    BY <1>1 DEF Fields
  <2> HIDE DEF y
  <2>3. Good(y, order, invoice, payment, allocated, journal)
    BY <1>1, <2>2 DEF Good, OrderKinds, InvoiceKinds, HandKinds, MoneyKinds, OrderKnows
  <2> QED BY <1>1, <2>1, <2>2, <2>3, GoOn
<1> QED BY <1>2, <1>3

LEMMA WriteOrderPreserves == ASSUME IInv, NEW t \in Txns, WriteOrder(t) PROVE IInv'
<1> DEFINE x == tx[t]
<1>1. /\ t \in Running /\ x.step = "writeOrder" /\ DOMAIN x = Fields
      /\ x.kind \in OrderKinds \ {"create"}
      /\ Good(x, order, invoice, payment, allocated, journal)
  BY Known, StepKinds DEF WriteOrder
<1>2. CASE Abort(t)
  BY <1>2, AbortPreserves
<1>3. CASE ~Abort(t)
  <2> DEFINE y == [x EXCEPT !.step = "commit", !.rows = @ \cup Wants(t)]
  <2>1. Becomes(t, y) /\ Ready(t)
    BY <1>3 DEF WriteOrder
  <2>2. /\ DOMAIN y = Fields /\ y.kind = x.kind /\ y.step = "commit" /\ y.invoice = x.invoice
        /\ y.payment = x.payment /\ y.amount = x.amount /\ y.rows = x.rows \cup Wants(t)
    BY <1>1 DEF Fields
  <2>3. Wants(t) = {OrderRow}
    BY <1>1, WantsOne
  <2> HIDE DEF y
  <2>4. Good(y, order, invoice, payment, allocated, journal)
    BY <1>1, <2>2, <2>3 DEF Good, OrderKinds, InvoiceKinds, HandKinds, MoneyKinds, OrderKnows
  <2> QED BY <1>1, <2>1, <2>2, <2>4, GoOn
<1> QED BY <1>2, <1>3

LEMMA LockOrderPreserves == ASSUME IInv, NEW t \in Txns, LockOrder(t) PROVE IInv'
<1> DEFINE x == tx[t]
           y == [x EXCEPT !.step = "overrun", !.rows = @ \cup Wants(t)]
<1>1. /\ t \in Running /\ x.step = "lockOrder" /\ DOMAIN x = Fields
      /\ x.kind \in {"create", "approve"}
      /\ Good(x, order, invoice, payment, allocated, journal)
  BY Known, StepKinds DEF LockOrder
<1>2. Becomes(t, y) /\ Ready(t)
  BY DEF LockOrder
<1>3. /\ DOMAIN y = Fields /\ y.kind = x.kind /\ y.step = "overrun" /\ y.invoice = x.invoice
      /\ y.payment = x.payment /\ y.amount = x.amount /\ y.rows = x.rows \cup Wants(t)
      /\ y.saw = x.saw
  BY <1>1 DEF Fields
<1>4. Wants(t) = {OrderRow}
  BY <1>1, WantsOne
<1> HIDE DEF y
<1>5. Good(y, order, invoice, payment, allocated, journal)
  BY <1>1, <1>3, <1>4 DEF Good, OrderKinds, InvoiceKinds, HandKinds, MoneyKinds, CreateKnows,
     InvoiceKnows, ApproveKnows
<1> QED BY <1>1, <1>2, <1>3, <1>5, GoOn

(* The approval fits: what counts of the approved invoices is no more than *)
(* all that is invoiced.                                                   *)
LEMMA CheckOverrunPreserves == ASSUME IInv, NEW t \in Txns, CheckOverrun(t) PROVE IInv'
<1> DEFINE x == tx[t]
<1>1. /\ t \in Running /\ x.step = "overrun" /\ DOMAIN x = Fields
      /\ x.kind \in {"create", "approve"}
      /\ Good(x, order, invoice, payment, allocated, journal)
  BY Known, StepKinds DEF CheckOverrun
<1>2. CASE Abort(t)
  BY <1>2, AbortPreserves
<1>3. CASE ~Abort(t) /\ x.kind = "create"
  <2> DEFINE y == [x EXCEPT !.step = "commit"]
  <2>1. Becomes(t, y)
    BY <1>3 DEF CheckOverrun
  <2>2. /\ DOMAIN y = Fields /\ y.kind = x.kind /\ y.step = "commit" /\ y.invoice = x.invoice
        /\ y.payment = x.payment /\ y.amount = x.amount /\ y.rows = x.rows
    BY <1>1 DEF Fields
  <2> HIDE DEF y
  <2>3. Good(y, order, invoice, payment, allocated, journal)
    BY <1>1, <1>3, <2>2 DEF Good, OrderKinds, InvoiceKinds, HandKinds, MoneyKinds, CreateKnows
  <2> QED BY <1>1, <2>1, <2>2, <2>3, GoOn
<1>4. CASE ~Abort(t) /\ x.kind # "create"
  <2> DEFINE y == [x EXCEPT !.step = "claim"]
  <2>1. Becomes(t, y) /\ Invoiced + x.saw.total <= order.total
    BY <1>4 DEF CheckOverrun
  <2>2. /\ DOMAIN y = Fields /\ y.kind = "approve" /\ y.step = "claim" /\ y.invoice = x.invoice
        /\ y.payment = x.payment /\ y.amount = x.amount /\ y.rows = x.rows /\ y.saw = x.saw
    BY <1>1, <1>4 DEF Fields
  <2>3. InvoiceKnows(x, order, invoice, journal) /\ ApproveKnows(x, order, invoice)
    BY <1>1, <1>4 DEF Good, InvoiceKinds, InvoiceKnows
  <2>4. x.saw.total \in Nat
    BY <1>1, <2>3 DEF ApproveKnows, InvoiceRows
  <2>5. TypesOK /\ order.total \in Nat
    BY DEF IInv, DataInv, TypesOK, OrderRows
  <2>6. Clean(invoice) \in Nat
    <3>1. invoice \in InvoiceTable
      BY <2>5 DEF TypesOK, InvoiceTable
    <3>2. x.invoice \in Invoices
      BY <2>3 DEF InvoiceKnows
    <3> QED BY <3>1, <3>2, CleanChanges
  <2>7. Clean(invoice) + x.saw.total <= order.total
    BY <2>1, <2>4, <2>5, <2>6, CleanWithin
  <2> HIDE DEF y
  <2>8. ApproveKnows(y, order, invoice) /\ InvoiceKnows(y, order, invoice, journal)
    BY <1>1, <2>2, <2>3, <2>7 DEF ApproveKnows, InvoiceKnows, HandKinds
  <2>9. Good(y, order, invoice, payment, allocated, journal)
    BY <1>1, <2>2, <2>8 DEF Good, OrderKinds, InvoiceKinds, HandKinds, MoneyKinds
  <2> QED BY <1>1, <1>4, <2>1, <2>2, <2>9, GoOn
<1> QED BY <1>2, <1>3, <1>4

-----------------------------------------------------------------------------
(* Statements on an invoice.                                               *)

(* What is read of an invoice that stands approved or paid.                *)
LEMMA StillItself ==
    ASSUME NEW row \in InvoiceRows, row.status \in Standing PROVE Still(row, row)
BY DEF Still, InvoiceRows, Standing

LEMMA ReadInvoicePreserves == ASSUME IInv, NEW t \in Txns, ReadInvoice(t) PROVE IInv'
<1> DEFINE x == tx[t]
           row == invoice[x.invoice]
<1>1. /\ t \in Running /\ x.step = "invoice" /\ DOMAIN x = Fields
      /\ x.kind \in InvoiceKinds \cup {"pay"}
      /\ Good(x, order, invoice, payment, allocated, journal)
  BY Known, StepKinds DEF ReadInvoice
<1>2. CASE Abort(t)
  BY <1>2, AbortPreserves
<1>3. CASE ~Abort(t)
  <2> DEFINE next == CASE x.kind = "approve" -> "lockOrder"
                       [] x.kind = "cancel" -> "claim"
                       [] x.kind = "pay" -> "lockInvoice"
                       [] OTHER -> "writeInvoice"
             y == [x EXCEPT !.saw = row, !.step = next]
  <2>1. Becomes(t, y) /\ x.invoice \in Live /\ AdmitsInvoice(t)
    BY <1>3 DEF ReadInvoice
  <2>2. /\ x.kind = "approve" => next = "lockOrder"
        /\ x.kind = "cancel" => next = "claim"
        /\ x.kind = "pay" => next = "lockInvoice"
        /\ x.kind \in HandKinds => next = "writeInvoice"
    BY DEF HandKinds
  <2>3. /\ x.kind \in {"cancelDraft", "delete"} => row.status = "DRAFT"
        /\ x.kind = "markPaid" => row.status = "APPROVED"
        /\ x.kind = "pay" => row.status \in Standing
    BY <2>1 DEF AdmitsInvoice, Standing
  <2>4. row \in InvoiceRows
    BY <2>1 DEF Live, IInv, DataInv, TypesOK
  <2>5. x.kind = "pay" => Still(row, row)
    <3> HIDE DEF row
    <3> QED BY <2>3, <2>4, StillItself
  <2> HIDE DEF next
  <2>6. /\ DOMAIN y = Fields /\ y.kind = x.kind /\ y.step = next /\ y.invoice = x.invoice
        /\ y.payment = x.payment /\ y.amount = x.amount /\ y.rows = x.rows /\ y.saw = row
    BY <1>1 DEF Fields
  <2> HIDE DEF y
  <2>7. CASE x.kind = "pay"
    <3>1. PayKnows(x, invoice, payment, allocated)
      BY <1>1, <2>7 DEF Good
    <3>2. PayKnows(y, invoice, payment, allocated)
      BY <2>2, <2>5, <2>6, <2>7, <3>1 DEF PayKnows
    <3>3. Good(y, order, invoice, payment, allocated, journal)
      BY <1>1, <2>6, <2>7, <3>2 DEF Good, OrderKinds, InvoiceKinds, HandKinds, MoneyKinds
    <3> QED BY <1>1, <2>1, <2>6, <3>3, GoOn
  <2>8. CASE x.kind \in InvoiceKinds
    <3>1. InvoiceKnows(x, order, invoice, journal)
      BY <1>1, <2>8 DEF Good
    <3>2. x.kind = "approve" => ApproveKnows(y, order, invoice)
      BY <2>2, <2>4, <2>6, <3>1 DEF InvoiceKnows, ApproveKnows
    <3>3. x.kind = "cancel" => CancelKnows(y, journal)
      BY <2>2, <2>6, <3>1 DEF InvoiceKnows, CancelKnows
    <3>4. x.kind \in HandKinds => HandKnows(y)
      BY <2>2, <2>3, <2>4, <2>6, <3>1 DEF InvoiceKnows, HandKnows, HandKinds
    <3>5. InvoiceKnows(y, order, invoice, journal)
      BY <2>6, <3>1, <3>2, <3>3, <3>4 DEF InvoiceKnows
    <3>6. Good(y, order, invoice, payment, allocated, journal)
      BY <1>1, <2>6, <2>8, <3>5 DEF Good, OrderKinds, InvoiceKinds, HandKinds, MoneyKinds
    <3> QED BY <1>1, <2>1, <2>6, <3>6, GoOn
  <2> QED BY <1>1, <2>7, <2>8
<1> QED BY <1>2, <1>3

LEMMA ClaimPreserves == ASSUME IInv, NEW t \in Txns, Claim(t) PROVE IInv'
<1> DEFINE x == tx[t]
<1>1. /\ t \in Running /\ x.step = "claim" /\ DOMAIN x = Fields
      /\ x.kind \in {"approve", "cancel"}
      /\ Good(x, order, invoice, payment, allocated, journal)
  BY Known, StepKinds DEF Claim
<1>2. CASE Abort(t)
  BY <1>2, AbortPreserves
<1>3. CASE ~Abort(t)
  <2> DEFINE next == IF x.kind = "cancel" THEN "journal" ELSE "commit"
             y == [x EXCEPT !.step = next, !.rows = @ \cup Wants(t)]
  <2>1. Becomes(t, y) /\ Ready(t) /\ AdmitsInvoice(t)
    BY <1>3 DEF Claim
  <2>2. /\ x.kind = "approve" => next = "commit" /\ invoice[x.invoice].status = "DRAFT"
        /\ x.kind = "cancel" => next = "journal"
    BY <2>1 DEF AdmitsInvoice
  <2> HIDE DEF next
  <2>3. /\ DOMAIN y = Fields /\ y.kind = x.kind /\ y.step = next /\ y.invoice = x.invoice
        /\ y.payment = x.payment /\ y.amount = x.amount /\ y.rows = x.rows \cup Wants(t)
        /\ y.saw = x.saw
    BY <1>1 DEF Fields
  <2>4. Wants(t) = {InvoiceRow(x.invoice)}
    BY <1>1, WantsOne
  <2> HIDE DEF y
  <2>5. InvoiceKnows(x, order, invoice, journal)
    BY <1>1 DEF Good, InvoiceKinds
  <2>6. x.kind = "approve" => ApproveKnows(y, order, invoice)
    BY <1>1, <2>2, <2>3, <2>4, <2>5 DEF InvoiceKnows, ApproveKnows
  <2>7. x.kind = "cancel" => CancelKnows(y, journal)
    BY <1>1, <2>2, <2>3, <2>4, <2>5 DEF InvoiceKnows, CancelKnows
  <2>8. InvoiceKnows(y, order, invoice, journal)
    BY <1>1, <2>3, <2>5, <2>6, <2>7 DEF InvoiceKnows, HandKinds
  <2>9. Good(y, order, invoice, payment, allocated, journal)
    BY <1>1, <2>3, <2>8 DEF Good, OrderKinds, InvoiceKinds, HandKinds, MoneyKinds
  <2> QED BY <1>1, <2>1, <2>3, <2>9, GoOn
<1> QED BY <1>2, <1>3

LEMMA FindJournalPreserves == ASSUME IInv, NEW t \in Txns, FindJournal(t) PROVE IInv'
<1> DEFINE x == tx[t]
<1>1. /\ t \in Running /\ x.step = "journal" /\ DOMAIN x = Fields /\ x.kind = "cancel"
      /\ Good(x, order, invoice, payment, allocated, journal)
  BY Known, StepKinds DEF FindJournal
<1>2. CASE Abort(t)
  BY <1>2, AbortPreserves
<1>3. CASE ~Abort(t)
  <2> DEFINE y == [x EXCEPT !.step = "commit"]
  <2>1. Becomes(t, y) /\ journal[x.invoice].posted > journal[x.invoice].reversed
    BY <1>3 DEF FindJournal
  <2>2. /\ DOMAIN y = Fields /\ y.kind = x.kind /\ y.step = "commit" /\ y.invoice = x.invoice
        /\ y.payment = x.payment /\ y.amount = x.amount /\ y.rows = x.rows
    BY <1>1 DEF Fields
  <2> HIDE DEF y
  <2>3. InvoiceKnows(x, order, invoice, journal)
    BY <1>1 DEF Good, InvoiceKinds
  <2>4. InvoiceKnows(y, order, invoice, journal)
    BY <1>1, <2>1, <2>2, <2>3 DEF InvoiceKnows, CancelKnows, HandKinds
  <2>5. Good(y, order, invoice, payment, allocated, journal)
    BY <1>1, <2>2, <2>4 DEF Good, OrderKinds, InvoiceKinds, HandKinds, MoneyKinds
  <2> QED BY <1>1, <2>1, <2>2, <2>5, GoOn
<1> QED BY <1>2, <1>3

LEMMA LockInvoicePreserves == ASSUME IInv, NEW t \in Txns, LockInvoice(t) PROVE IInv'
<1> DEFINE x == tx[t]
<1>1. /\ t \in Running /\ x.step = "lockInvoice" /\ DOMAIN x = Fields
      /\ x.kind \in {"pay", "allocate"}
      /\ Good(x, order, invoice, payment, allocated, journal)
  BY Known, StepKinds DEF LockInvoice
<1>2. CASE Abort(t)
  BY <1>2, AbortPreserves
<1>3. CASE ~Abort(t)
  <2> DEFINE next == IF x.kind = "pay" THEN "cover" ELSE "lockPayment"
             y == [x EXCEPT !.step = next, !.rows = @ \cup Wants(t)]
  <2>1. Becomes(t, y) /\ Ready(t)
    BY <1>3 DEF LockInvoice
  <2>2. /\ x.kind = "pay" => next = "cover"
        /\ x.kind = "allocate" => next = "lockPayment"
    OBVIOUS
  <2> HIDE DEF next
  <2>3. /\ DOMAIN y = Fields /\ y.kind = x.kind /\ y.step = next /\ y.invoice = x.invoice
        /\ y.payment = x.payment /\ y.amount = x.amount /\ y.rows = x.rows \cup Wants(t)
        /\ y.saw = x.saw
    BY <1>1 DEF Fields
  <2>4. Wants(t) = {InvoiceRow(x.invoice)}
    BY <1>1, WantsOne
  <2> HIDE DEF y
  <2>5. x.kind = "pay" => PayKnows(y, invoice, payment, allocated)
    BY <1>1, <2>2, <2>3, <2>4 DEF Good, PayKnows
  <2>6. x.kind = "allocate" => AllocateKnows(y, invoice, payment, allocated)
    BY <1>1, <2>2, <2>3, <2>4 DEF Good, AllocateKnows
  <2>7. Good(y, order, invoice, payment, allocated, journal)
    BY <1>1, <2>3, <2>5, <2>6 DEF Good, OrderKinds, InvoiceKinds, HandKinds, MoneyKinds
  <2> QED BY <1>1, <2>1, <2>3, <2>7, GoOn
<1> QED BY <1>2, <1>3

(* A payment checks the total it read, which is the invoice's still.       *)
LEMMA CheckCoverPreserves == ASSUME IInv, NEW t \in Txns, CheckCover(t) PROVE IInv'
<1> DEFINE x == tx[t]
<1>1. /\ t \in Running /\ x.step = "cover" /\ DOMAIN x = Fields
      /\ x.kind \in {"pay", "allocate"}
      /\ Good(x, order, invoice, payment, allocated, journal)
  BY Known, StepKinds DEF CheckCover
<1>2. CASE Abort(t)
  BY <1>2, AbortPreserves
<1>3. CASE ~Abort(t)
  <2> DEFINE next == IF x.kind = "pay" THEN "writeInvoice" ELSE "commit"
             y == [x EXCEPT !.step = next]
  <2>1. Becomes(t, y)
    BY <1>3 DEF CheckCover
  <2>2. /\ x.kind = "pay" => next = "writeInvoice"
        /\ x.kind = "allocate" => next = "commit"
    OBVIOUS
  <2> HIDE DEF next
  <2>3. /\ DOMAIN y = Fields /\ y.kind = x.kind /\ y.step = next /\ y.invoice = x.invoice
        /\ y.payment = x.payment /\ y.amount = x.amount /\ y.rows = x.rows /\ y.saw = x.saw
    BY <1>1 DEF Fields
  <2> HIDE DEF y
  <2>4. CASE x.kind = "pay"
    <3>1. PayKnows(x, invoice, payment, allocated)
      BY <1>1, <2>4 DEF Good
    <3>2. AllocatedTo(x.invoice) + x.amount <= x.saw.total
      BY <1>3, <2>4 DEF CheckCover
    <3>3. FitsInvoice(y, invoice, allocated)
      BY <1>1, <2>3, <3>1, <3>2 DEF FitsInvoice, PayKnows, Still, AllocatedTo, To
    <3>4. PayKnows(y, invoice, payment, allocated)
      BY <1>1, <2>2, <2>3, <2>4, <3>1, <3>3 DEF PayKnows
    <3>5. Good(y, order, invoice, payment, allocated, journal)
      BY <1>1, <2>3, <2>4, <3>4 DEF Good, OrderKinds, InvoiceKinds, HandKinds, MoneyKinds
    <3> QED BY <1>1, <2>1, <2>3, <3>5, GoOn
  <2>5. CASE x.kind = "allocate"
    <3>1. AllocateKnows(x, invoice, payment, allocated)
      BY <1>1, <2>5 DEF Good
    <3>2. /\ AllocatedTo(x.invoice) + x.amount <= invoice[x.invoice].total
          /\ AllocatedOf(x.payment) + x.amount <= payment[x.payment].amount
      BY <1>3, <2>5 DEF CheckCover
    <3>3. /\ FitsInvoice(y, invoice, allocated)
          /\ Of(allocated, y.payment) + y.amount <= payment[y.payment].amount
      BY <2>3, <3>2 DEF FitsInvoice, AllocatedTo, To, AllocatedOf, Of
    <3>4. AllocateKnows(y, invoice, payment, allocated)
      BY <1>1, <2>2, <2>3, <2>5, <3>1, <3>3 DEF AllocateKnows
    <3>5. Good(y, order, invoice, payment, allocated, journal)
      BY <1>1, <2>3, <2>5, <3>4 DEF Good, OrderKinds, InvoiceKinds, HandKinds, MoneyKinds
    <3> QED BY <1>1, <2>1, <2>3, <3>5, GoOn
  <2> QED BY <1>1, <2>4, <2>5
<1> QED BY <1>2, <1>3

LEMMA WriteInvoicePreserves == ASSUME IInv, NEW t \in Txns, WriteInvoice(t) PROVE IInv'
<1> DEFINE x == tx[t]
<1>1. /\ t \in Running /\ x.step = "writeInvoice" /\ DOMAIN x = Fields
      /\ x.kind \in HandKinds \cup {"pay", "void"}
      /\ Good(x, order, invoice, payment, allocated, journal)
  BY Known, StepKinds DEF WriteInvoice
<1>2. CASE Abort(t)
  BY <1>2, AbortPreserves
<1>3. CASE ~Abort(t)
  <2> DEFINE y == [x EXCEPT !.step = "commit", !.rows = @ \cup Wants(t)]
  <2>1. /\ Becomes(t, y) /\ Ready(t)
        /\ x.kind \in {"pay", "void"} => invoice[x.invoice].version = x.saw.version
        /\ x.kind = "void" => ~(x.saw.paid < x.amount)
    BY <1>3 DEF WriteInvoice, ByVersion
  <2>2. /\ DOMAIN y = Fields /\ y.kind = x.kind /\ y.step = "commit" /\ y.invoice = x.invoice
        /\ y.payment = x.payment /\ y.amount = x.amount /\ y.rows = x.rows \cup Wants(t)
        /\ y.saw = x.saw /\ y.removes = x.removes
    BY <1>1 DEF Fields
  <2>3. Wants(t) = {InvoiceRow(x.invoice)}
    BY <1>1, WantsOne
  <2> HIDE DEF y
  <2>4. CASE x.kind \in HandKinds
    <3>1. InvoiceKnows(x, order, invoice, journal)
      BY <1>1, <2>4 DEF Good, InvoiceKinds
    <3>2. HandKnows(y)
      BY <1>1, <2>2, <2>3, <2>4, <3>1 DEF InvoiceKnows, HandKnows
    <3>3. InvoiceKnows(y, order, invoice, journal)
      BY <2>2, <2>4, <3>1, <3>2 DEF InvoiceKnows, HandKinds
    <3>4. Good(y, order, invoice, payment, allocated, journal)
      BY <1>1, <2>2, <2>4, <3>3 DEF Good, OrderKinds, InvoiceKinds, HandKinds, MoneyKinds
    <3> QED BY <1>1, <2>1, <2>2, <3>4, GoOn
  <2>5. CASE x.kind = "pay"
    <3>1. PayKnows(x, invoice, payment, allocated)
      BY <1>1, <2>5 DEF Good
    <3>2. PayKnows(y, invoice, payment, allocated)
      BY <1>1, <2>1, <2>2, <2>3, <2>5, <3>1 DEF PayKnows, FitsInvoice
    <3>3. Good(y, order, invoice, payment, allocated, journal)
      BY <1>1, <2>2, <2>5, <3>2 DEF Good, OrderKinds, InvoiceKinds, HandKinds, MoneyKinds
    <3> QED BY <1>1, <2>1, <2>2, <3>3, GoOn
  <2>6. CASE x.kind = "void"
    <3>1. VoidKnows(x, invoice, payment, allocated)
      BY <1>1, <2>6 DEF Good
    <3>2. x.invoice # None => x.amount <= x.saw.paid
      BY <1>1, <2>1, <2>6, <3>1 DEF VoidKnows, Still, InvoiceRows, Good
    <3>3. VoidKnows(y, invoice, payment, allocated)
      BY <1>1, <2>1, <2>2, <2>3, <2>6, <3>1, <3>2 DEF VoidKnows
    <3>4. Good(y, order, invoice, payment, allocated, journal)
      BY <1>1, <2>2, <2>6, <3>3 DEF Good, OrderKinds, InvoiceKinds, HandKinds, MoneyKinds
    <3> QED BY <1>1, <2>1, <2>2, <3>4, GoOn
  <2> QED BY <1>1, <2>4, <2>5, <2>6
<1> QED BY <1>2, <1>3

-----------------------------------------------------------------------------
(* Statements on a payment.                                                *)

LEMMA LockPaymentPreserves == ASSUME IInv, NEW t \in Txns, LockPayment(t) PROVE IInv'
<1> DEFINE x == tx[t]
<1>1. /\ t \in Running /\ x.step = "lockPayment" /\ DOMAIN x = Fields /\ x.kind = "allocate"
      /\ Good(x, order, invoice, payment, allocated, journal)
  BY Known, StepKinds DEF LockPayment
<1>2. CASE Abort(t)
  BY <1>2, AbortPreserves
<1>3. CASE ~Abort(t)
  <2> DEFINE y == [x EXCEPT !.step = "cover", !.rows = @ \cup Wants(t)]
  <2>1. Becomes(t, y) /\ Ready(t) /\ ~payment[x.payment].void
    BY <1>3 DEF LockPayment, Active
  <2>2. /\ DOMAIN y = Fields /\ y.kind = x.kind /\ y.step = "cover" /\ y.invoice = x.invoice
        /\ y.payment = x.payment /\ y.amount = x.amount /\ y.rows = x.rows \cup Wants(t)
    BY <1>1 DEF Fields
  <2>3. Wants(t) = {PaymentRow(x.payment)}
    BY <1>1, WantsOne
  <2> HIDE DEF y
  <2>4. AllocateKnows(y, invoice, payment, allocated)
    BY <1>1, <2>1, <2>2, <2>3 DEF Good, AllocateKnows
  <2>5. Good(y, order, invoice, payment, allocated, journal)
    BY <1>1, <2>2, <2>4 DEF Good, OrderKinds, InvoiceKinds, HandKinds, MoneyKinds
  <2> QED BY <1>1, <2>1, <2>2, <2>5, GoOn
<1> QED BY <1>2, <1>3

LEMMA RemovePaymentPreserves == ASSUME IInv, NEW t \in Txns, RemovePayment(t) PROVE IInv'
<1> DEFINE x == tx[t]
<1>1. /\ t \in Running /\ x.step = "remove" /\ DOMAIN x = Fields /\ x.kind = "void"
      /\ Good(x, order, invoice, payment, allocated, journal)
  BY Known, StepKinds DEF RemovePayment
<1>2. CASE Abort(t)
  BY <1>2, AbortPreserves
<1>3. CASE ~Abort(t)
  <2> DEFINE y == [x EXCEPT !.step = "unallocate", !.rows = @ \cup Wants(t)]
  <2>1. Becomes(t, y) /\ Ready(t) /\ ~payment[x.payment].void
    BY <1>3 DEF RemovePayment, Active
  <2>2. /\ DOMAIN y = Fields /\ y.kind = x.kind /\ y.step = "unallocate" /\ y.invoice = x.invoice
        /\ y.payment = x.payment /\ y.amount = x.amount /\ y.rows = x.rows \cup Wants(t)
        /\ y.saw = x.saw
    BY <1>1 DEF Fields
  <2>3. Wants(t) = {PaymentRow(x.payment)}
    BY <1>1, WantsOne
  <2> HIDE DEF y
  <2>4. VoidKnows(y, invoice, payment, allocated)
    BY <1>1, <2>1, <2>2, <2>3 DEF Good, VoidKnows
  <2>5. Good(y, order, invoice, payment, allocated, journal)
    BY <1>1, <2>2, <2>4 DEF Good, OrderKinds, InvoiceKinds, HandKinds, MoneyKinds
  <2> QED BY <1>1, <2>1, <2>2, <2>5, GoOn
<1> QED BY <1>2, <1>3

LEMMA UnallocatePreserves == ASSUME IInv, NEW t \in Txns, Unallocate(t) PROVE IInv'
<1> DEFINE x == tx[t]
           next == IF x.invoice = None THEN "commit" ELSE "writeInvoice"
           y == [x EXCEPT !.step = next, !.removes = allocated[x.payment]]
<1>1. /\ t \in Running /\ x.step = "unallocate" /\ DOMAIN x = Fields /\ x.kind = "void"
      /\ Good(x, order, invoice, payment, allocated, journal)
  BY Known, StepKinds DEF Unallocate
<1>2. Becomes(t, y)
  BY DEF Unallocate
<1>3. /\ x.invoice = None => next = "commit"
      /\ x.invoice # None => next = "writeInvoice"
  OBVIOUS
<1> HIDE DEF next
<1>4. /\ DOMAIN y = Fields /\ y.kind = x.kind /\ y.step = next /\ y.invoice = x.invoice
      /\ y.payment = x.payment /\ y.amount = x.amount /\ y.rows = x.rows
      /\ y.saw = x.saw /\ y.removes = allocated[x.payment]
  BY <1>1 DEF Fields
<1> HIDE DEF y
<1>5. VoidKnows(y, invoice, payment, allocated)
  BY <1>1, <1>3, <1>4 DEF Good, VoidKnows
<1>6. Good(y, order, invoice, payment, allocated, journal)
  BY <1>1, <1>4, <1>5 DEF Good, OrderKinds, InvoiceKinds, HandKinds, MoneyKinds
<1> QED BY <1>1, <1>2, <1>4, <1>6, GoOn

-----------------------------------------------------------------------------
(* What a transaction knows survives what others do.                       *)

(* An invoice keeps its total; its version grows when its paid amount      *)
(* changes, or when it is cancelled by one who saw it approved.            *)
Moves(row, new) ==
    /\ new # None
    /\ new.status = "DRAFT" => row.status = "DRAFT"
    /\ new.total = row.total
    /\ row.version <= new.version
    /\ new.version = row.version =>
        /\ new.paid = row.paid
        /\ row.status \in Standing \/ row.overwritten => new.status \in Standing \/ new.overwritten

LEMMA StillMoves ==
    ASSUME NEW seen, NEW row \in InvoiceRows, NEW new \in InvoiceRows,
           Still(seen, row), Moves(row, new)
    PROVE  Still(seen, new)
BY DEF Still, Moves, InvoiceRows

(* What others may do to the rows without a transaction x that has no part *)
(* in it being wrong about them: they leave alone what x holds or makes.   *)
Keeps(x, o, o2, inv, inv2, pm, pm2, al, al2, j, j2) ==
    /\ \A i \in Invoices : inv[i] # None => Moves(inv[i], inv2[i])
    /\ \A p \in Payments : pm[p] # None =>
            pm2[p] # None /\ pm2[p].of = pm[p].of /\ pm2[p].amount = pm[p].amount
    /\ InvoiceRow(x.invoice) \in x.rows /\ x.invoice \in Invoices =>
            /\ inv2[x.invoice] = inv[x.invoice] /\ j2[x.invoice] = j[x.invoice]
            /\ To(al2, x.invoice) <= To(al, x.invoice)
    /\ PaymentRow(x.payment) \in x.rows /\ x.payment \in Payments =>
            pm2[x.payment] = pm[x.payment] /\ al2[x.payment] = al[x.payment]
    /\ OrderRow \in x.rows => o2.total = o.total /\ Clean(inv2) <= Clean(inv)
    /\ x.kind = "create" => inv2[x.invoice] = None
    /\ x.kind = "pay" => pm2[x.payment] = None

LEMMA GoodStays ==
    ASSUME NEW x, NEW o \in OrderRows, NEW o2, NEW inv \in InvoiceTable, NEW inv2 \in InvoiceTable,
           NEW pm \in PaymentTable, NEW pm2, NEW al \in AllocationTable, NEW al2 \in AllocationTable,
           NEW j, NEW j2,
           Good(x, o, inv, pm, al, j), Keeps(x, o, o2, inv, inv2, pm, pm2, al, al2, j, j2)
    PROVE  Good(x, o2, inv2, pm2, al2, j2)
<1> USE DEF Keeps
<1>1. x.amount \in Nat
  BY DEF Good
<1>2. \A i \in Invoices : inv[i] # None => /\ inv2[i] # None /\ inv2[i].total = inv[i].total
                                           /\ inv[i] \in InvoiceRows /\ inv2[i] \in InvoiceRows
                                           /\ inv[i].total \in Nat
  BY DEF Moves, InvoiceTable, InvoiceRows
<1>3. \A seen : \A i \in Invoices : inv[i] # None /\ Still(seen, inv[i]) => Still(seen, inv2[i])
  BY <1>2, StillMoves
<1>4. ASSUME x.invoice \in Invoices, inv[x.invoice] # None, InvoiceRow(x.invoice) \in x.rows,
             FitsInvoice(x, inv, al)
      PROVE  FitsInvoice(x, inv2, al2)
  <2>1. /\ To(al, x.invoice) \in Nat /\ To(al2, x.invoice) \in Nat
        /\ To(al2, x.invoice) <= To(al, x.invoice)
    BY <1>4, ToNat
  <2>2. inv2[x.invoice].total = inv[x.invoice].total /\ inv[x.invoice].total \in Nat
    BY <1>2, <1>4
  <2> QED BY <1>1, <1>4, <2>1, <2>2 DEF FitsInvoice
<1>5. CASE x.kind \in OrderKinds
  BY <1>5 DEF Good, OrderKinds, InvoiceKinds, HandKinds, MoneyKinds, CreateKnows
<1>6. CASE x.kind \in InvoiceKinds
  <2>1. InvoiceKnows(x, o, inv, j)
    BY <1>6 DEF Good
  <2>2. x.invoice \in Invoices /\ inv[x.invoice] # None
    BY <2>1 DEF InvoiceKnows
  <2>3. ASSUME x.kind = "approve" PROVE ApproveKnows(x, o2, inv2)
    <3>1. ApproveKnows(x, o, inv)
      BY <2>1, <2>3 DEF InvoiceKnows
    <3>2. x.step \in {"claim", "commit"} => Clean(inv2) + x.saw.total <= o2.total
      <4>1. Clean(inv) \in Nat /\ Clean(inv2) \in Nat
        BY <2>2, CleanChanges
      <4>2. o.total \in Nat
        BY DEF OrderRows
      <4>3. x.step \in {"claim", "commit"} =>
                x.saw.total \in Nat /\ OrderRow \in x.rows /\ Clean(inv) + x.saw.total <= o.total
        BY <3>1 DEF ApproveKnows, InvoiceRows
      <4> QED BY <4>1, <4>2, <4>3
    <3>3. x.step = "commit" => inv2[x.invoice] = inv[x.invoice]
      BY <2>2, <3>1 DEF ApproveKnows
    <3> QED BY <1>2, <2>2, <3>1, <3>2, <3>3 DEF ApproveKnows
  <2>4. x.kind = "cancel" => CancelKnows(x, j2)
    BY <2>1, <2>2 DEF InvoiceKnows, CancelKnows
  <2>5. InvoiceKnows(x, o2, inv2, j2)
    BY <1>2, <2>1, <2>2, <2>3, <2>4 DEF InvoiceKnows
  <2> QED BY <1>6, <2>5 DEF Good, OrderKinds, InvoiceKinds, HandKinds, MoneyKinds
<1>7. CASE x.kind = "pay"
  <2>1. PayKnows(x, inv, pm, al)
    BY <1>7 DEF Good
  <2>2. PayKnows(x, inv2, pm2, al2)
    BY <1>2, <1>3, <1>4, <1>7, <2>1 DEF PayKnows
  <2> QED BY <1>7, <2>2 DEF Good, OrderKinds, InvoiceKinds, HandKinds, MoneyKinds
<1>8. CASE x.kind = "allocate"
  <2>1. AllocateKnows(x, inv, pm, al)
    BY <1>8 DEF Good
  <2>2. x.payment \in Payments /\ pm[x.payment] # None
    BY <2>1 DEF AllocateKnows
  <2>3. x.step = "commit" => Of(al2, x.payment) = Of(al, x.payment) /\ pm2[x.payment] = pm[x.payment]
    BY <2>1, <2>2 DEF AllocateKnows, Of
  <2>4. AllocateKnows(x, inv2, pm2, al2)
    BY <1>2, <1>4, <2>1, <2>2, <2>3 DEF AllocateKnows
  <2> QED BY <1>8, <2>4 DEF Good, OrderKinds, InvoiceKinds, HandKinds, MoneyKinds
<1>9. CASE x.kind = "void"
  <2>1. VoidKnows(x, inv, pm, al)
    BY <1>9 DEF Good
  <2>2. /\ x.payment \in Payments /\ pm[x.payment] # None
        /\ x.invoice = pm[x.payment].of
    BY <2>1 DEF VoidKnows
  <2>3. x.invoice # None => /\ x.invoice \in Invoices /\ Still(x.saw, inv[x.invoice])
                            /\ inv[x.invoice] # None
    <3>1. x.invoice \in Invoices \cup {None}
      BY <2>2 DEF PaymentTable, PaymentRows
    <3>2. x.invoice # None => inv[x.invoice] # None
      BY <2>1, <3>1 DEF VoidKnows
    <3> QED BY <2>1, <3>1, <3>2 DEF VoidKnows
  <2>4. x.invoice # None => Still(x.saw, inv2[x.invoice])
    BY <1>3, <2>3
  <2>5. VoidKnows(x, inv2, pm2, al2)
    BY <1>2, <2>1, <2>2, <2>3, <2>4 DEF VoidKnows
  <2> QED BY <1>9, <2>5 DEF Good, OrderKinds, InvoiceKinds, HandKinds, MoneyKinds
<1> QED BY <1>5, <1>6, <1>7, <1>8, <1>9 DEF Good, MoneyKinds

-----------------------------------------------------------------------------
(* Commits.                                                                *)

(* What all commits have in common: t changes no row but those it is about *)
(* and holds, or makes, and allocates nothing to another invoice.          *)
LEMMA CommitPreserves ==
    ASSUME IInv, NEW t \in Running, tx' = [tx EXCEPT ![t] = None], DataInv',
           \A i \in Invoices : invoice[i] # None => Moves(invoice[i], invoice'[i]),
           \A p \in Payments : payment[p] # None =>
                /\ payment'[p] # None /\ payment'[p].of = payment[p].of
                /\ payment'[p].amount = payment[p].amount,
           \A i \in Invoices :
                \/ i = tx[t].invoice /\ (InvoiceRow(i) \in tx[t].rows \/ tx[t].kind = "create")
                \/ /\ invoice'[i] = invoice[i] /\ journal'[i] = journal[i]
                   /\ To(allocated', i) <= To(allocated, i),
           \A p \in Payments :
                \/ p = tx[t].payment /\ (PaymentRow(p) \in tx[t].rows \/ tx[t].kind = "pay")
                \/ payment'[p] = payment[p] /\ allocated'[p] = allocated[p],
           OrderRow \notin tx[t].rows => order'.total = order.total /\ Clean(invoice') <= Clean(invoice)
    PROVE  IInv'
<1>1. DOMAIN tx = Txns /\ t \in Txns
  BY DEF IInv, AllGood, Running
<1>2. tx'[t] = None /\ \A u \in Txns : u # t => tx'[u] = tx[u]
  BY <1>1
<1>3. Running' = Running \ {t} /\ \A u \in Running' : tx'[u] = tx[u]
  BY <1>1, <1>2 DEF Running
<1>4. AllApart'
  BY <1>3 DEF AllApart, IInv
<1>5. /\ order \in OrderRows /\ invoice \in InvoiceTable /\ payment \in PaymentTable
      /\ allocated \in AllocationTable /\ invoice' \in InvoiceTable /\ allocated' \in AllocationTable
  BY DEF IInv, DataInv, TypesOK, InvoiceTable, PaymentTable, AllocationTable
<1>6. ASSUME NEW u \in Running, u # t
      PROVE  Good(tx[u], order', invoice', payment', allocated', journal')
  <2> DEFINE x == tx[u]
             z == tx[t]
  <2>1. Good(x, order, invoice, payment, allocated, journal)
    BY DEF IInv, AllGood
  <2>2. Apart(x, z) /\ Apart(z, x)
    BY <1>6 DEF IInv, AllApart
  <2>3. InvoiceRow(x.invoice) \in x.rows /\ x.invoice \in Invoices =>
            /\ invoice'[x.invoice] = invoice[x.invoice] /\ journal'[x.invoice] = journal[x.invoice]
            /\ To(allocated', x.invoice) <= To(allocated, x.invoice)
    BY <2>2 DEF Apart
  <2>4. PaymentRow(x.payment) \in x.rows /\ x.payment \in Payments =>
            payment'[x.payment] = payment[x.payment] /\ allocated'[x.payment] = allocated[x.payment]
    BY <2>2 DEF Apart
  <2>5. OrderRow \in x.rows => order'.total = order.total /\ Clean(invoice') <= Clean(invoice)
    BY <2>2 DEF Apart
  <2>6. x.kind = "create" => invoice'[x.invoice] = None
    <3>1. x.kind = "create" =>
            x.invoice \in Invoices /\ invoice[x.invoice] = None /\ z.invoice # x.invoice
      BY <2>2, BeingMade DEF Apart
    <3> QED BY <3>1
  <2>7. x.kind = "pay" => payment'[x.payment] = None
    <3>1. x.kind = "pay" =>
            x.payment \in Payments /\ payment[x.payment] = None /\ z.payment # x.payment
      BY <2>2, BeingMade DEF Apart
    <3> QED BY <3>1
  <2> HIDE DEF x
  <2>8. Good(x, order', invoice', payment', allocated', journal')
    <3>1. Keeps(x, order, order', invoice, invoice', payment, payment', allocated, allocated',
                journal, journal')
      BY <2>3, <2>4, <2>5, <2>6, <2>7 DEF Keeps
    <3> QED BY <1>5, <2>1, <3>1, GoodStays
  <2> QED BY <2>8 DEF x
<1>7. AllGood'
  <2>1. ASSUME NEW u \in Running'
        PROVE  Good(tx'[u], order', invoice', payment', allocated', journal')
    BY <1>3, <1>6
  <2> QED BY <1>1, <2>1 DEF AllGood
<1> QED BY <1>4, <1>7 DEF IInv

LEMMA CommitKnown ==
    ASSUME IInv, NEW t \in Txns, Commit(t)
    PROVE  /\ t \in Running /\ tx[t].step = "commit" /\ tx' = [tx EXCEPT ![t] = None]
           /\ Good(tx[t], order, invoice, payment, allocated, journal)
           /\ TypesOK
BY Known DEF Commit, IInv, DataInv

(* Money is moved by payments, allocations and voidings only, and entries  *)
(* are posted and reversed by approvals and cancellations.                 *)
LEMMA AllocationsStay ==
    ASSUME TypesOK, NEW t \in Txns, Commit(t), tx[t].kind \notin MoneyKinds
    PROVE  allocated' = allocated
<1>1. \A p \in Payments, i \in Invoices : AllocationsWritten(t, p, i) = allocated[p][i]
  BY DEF AllocationsWritten, MoneyKinds
<1>2. allocated' = [p \in Payments |-> [i \in Invoices |-> allocated[p][i]]]
  BY <1>1 DEF Commit
<1> QED BY <1>2 DEF TypesOK

LEMMA JournalStays ==
    ASSUME TypesOK, NEW t \in Txns, Commit(t), tx[t].kind \notin {"approve", "cancel"}
    PROVE  journal' = journal
<1> DEFINE i == tx[t].invoice
<1>1. CASE i = None
  BY <1>1 DEF Commit
<1>2. CASE i # None
  <2>1. journal' = [journal EXCEPT ![i] = [posted |-> journal[i].posted + 0, reversed |-> journal[i].reversed + 0]]
    BY <1>2 DEF Commit
  <2> HIDE DEF i
  <2>2. i \in Invoices => [posted |-> journal[i].posted + 0, reversed |-> journal[i].reversed + 0] = journal[i]
    <3>1. i \in Invoices => journal[i] \in JournalRows
      BY DEF TypesOK
    <3>2. i \in Invoices => journal[i].posted + 0 = journal[i].posted /\ journal[i].reversed + 0 = journal[i].reversed
      BY <3>1 DEF JournalRows
    <3> QED BY <3>1, <3>2 DEF JournalRows
  <2> QED BY <2>1, <2>2 DEF TypesOK
<1> QED BY <1>1, <1>2

LEMMA CreateCommits ==
    ASSUME IInv, NEW t \in Txns, Commit(t), tx[t].kind = "create" PROVE IInv'
<1> DEFINE x == tx[t]
           i == x.invoice
           new == Invoice(x.amount, "DRAFT")
<1>1. /\ t \in Running /\ tx' = [tx EXCEPT ![t] = None] /\ TypesOK
      /\ i \in Invoices /\ invoice[i] = None /\ x.amount \in Nat /\ i # None
  BY CommitKnown, PayablesAssumption DEF Good, CreateKnows
<1>2. allocated' = allocated /\ journal' = journal
  BY <1>1, AllocationsStay, JournalStays DEF MoneyKinds
<1>3. payment' = payment /\ order' = order
  BY DEF Commit, OrderWritten
<1>4. invoice' = [invoice EXCEPT ![i] = new]
  BY <1>1 DEF Commit, InvoiceWritten
<1>5. new \in InvoiceRows /\ new # None /\ new.paid = 0 /\ new.status = "DRAFT"
  <2>1. new \in InvoiceRows
    BY <1>1 DEF Invoice, InvoiceRows
  <2>2. new.paid = 0 /\ new.status = "DRAFT"
    BY DEF Invoice
  <2> QED BY <2>1, <2>2, NoneAssumption DEF InvoiceRows
<1> HIDE DEF new
<1>6. invoice'[i] = new /\ \A k \in Invoices : k # i => invoice'[k] = invoice[k]
  BY <1>1, <1>4 DEF TypesOK
<1>7. TypesOK'
  <2>1. invoice' \in [Invoices -> InvoiceRows \cup {None}]
    BY <1>1, <1>4, <1>5 DEF TypesOK
  <2> QED BY <1>1, <1>2, <1>3, <2>1 DEF TypesOK
<1>8. DataInv'
  <2>1. DraftsFresh'
    BY <1>1, <1>2, <1>3, <1>6 DEF IInv, DataInv, DraftsFresh, AllocatedTo
  <2>2. PaidIsPayments'
    <3>1. PaidBy(payment, i) = 0
      BY <1>1, Unpaid DEF IInv, DataInv, DraftsFresh
    <3>2. \A k \in Invoices : invoice[k] # None => invoice[k].paid = PaidBy(payment, k)
      BY <1>1, PaidMeans DEF IInv, DataInv
    <3>3. \A k \in Invoices : invoice'[k] # None => invoice'[k].paid = PaidBy(payment, k)
      BY <1>5, <1>6, <3>1, <3>2
    <3>4. \A k : PaidAs(payment, k) = PaidBy(payment, k)
      BY <1>1, PaidSum DEF TypesOK, PaymentTable
    <3> QED BY <1>3, <3>3, <3>4 DEF PaidIsPayments, Active, PaidAs
  <2>3. CoverWithinTotal'
    <3>1. AllocatedTo(i) = 0
      BY <1>1 DEF IInv, DataInv, DraftsFresh
    <3> QED BY <1>2, <1>6, <3>1 DEF IInv, DataInv, CoverWithinTotal, AllocatedTo
  <2>4. AllocatedWithinPayment' /\ JournalOnce'
    BY <1>2, <1>3 DEF IInv, DataInv, AllocatedWithinPayment, AllocatedOf, Active, JournalOnce
  <2> QED BY <1>7, <2>1, <2>2, <2>3, <2>4 DEF DataInv
<1>9. invoice \in InvoiceTable /\ invoice' \in InvoiceTable
  BY <1>1, <1>7 DEF TypesOK, InvoiceTable
<1>10. Clean(invoice') <= Clean(invoice)
  <2>1. Contribution(invoice[i]) = 0 /\ Contribution(invoice'[i]) = 0
    BY <1>1, <1>5, <1>6 DEF Contribution, Counts, Standing
  <2> QED BY <1>1, <1>6, <1>9, <2>1, CleanChanges
<1>11. \A k \in Invoices : invoice[k] # None => Moves(invoice[k], invoice'[k])
  BY <1>1, <1>6 DEF Moves, TypesOK, InvoiceRows
<1>12. \A k \in Invoices : To(allocated', k) <= To(allocated, k)
  BY <1>1, <1>2, ToNat DEF TypesOK, AllocationTable
<1> QED BY <1>1, <1>2, <1>3, <1>6, <1>8, <1>10, <1>11, <1>12, CommitPreserves

LEMMA OrderCommits ==
    ASSUME IInv, NEW t \in Txns, Commit(t), tx[t].kind \in OrderKinds \ {"create"} PROVE IInv'
<1> DEFINE x == tx[t]
<1>1. /\ t \in Running /\ tx' = [tx EXCEPT ![t] = None] /\ TypesOK
      /\ x.invoice = None /\ x.payment = None /\ OrderRow \in x.rows /\ x.amount \in Nat
  BY CommitKnown DEF Good, OrderKnows
<1>2. allocated' = allocated /\ journal' = journal
  BY <1>1, AllocationsStay, JournalStays DEF MoneyKinds, OrderKinds
<1>3. payment' = payment /\ invoice' = invoice
  BY <1>1 DEF Commit, OrderKinds
<1>4. order' \in OrderRows
  <2>1. PICK v \in Nat : v = order.version + 1
    BY <1>1 DEF TypesOK, OrderRows
  <2>5. order' = OrderWritten(t)
    BY DEF Commit
  <2>2. CASE x.kind = "send"
    <3>1. order' = [order EXCEPT !.status = "ORDERED", !.version = v]
      BY <2>1, <2>5, <2>2 DEF OrderWritten
    <3> QED BY <1>1, <3>1 DEF TypesOK, OrderRows
  <2>3. CASE x.kind = "edit"
    <3>1. order' = [order EXCEPT !.total = x.amount, !.version = v]
      BY <2>1, <2>5, <2>3 DEF OrderWritten
    <3> QED BY <1>1, <3>1 DEF TypesOK, OrderRows
  <2>4. CASE x.kind = "cancelOrder"
    <3>1. order' = [order EXCEPT !.status = "CANCELLED", !.version = v]
      BY <2>1, <2>5, <2>4 DEF OrderWritten
    <3> QED BY <1>1, <3>1 DEF TypesOK, OrderRows
  <2> QED BY <2>2, <2>3, <2>4 DEF OrderKinds
<1>5. DataInv'
  BY <1>1, <1>2, <1>3, <1>4 DEF IInv, DataInv, TypesOK, DraftsFresh, PaidIsPayments, CoverWithinTotal,
     AllocatedWithinPayment, JournalOnce, AllocatedTo, AllocatedOf, Active
<1>6. \A k \in Invoices : invoice[k] # None => Moves(invoice[k], invoice'[k])
  BY <1>1, <1>3 DEF Moves, TypesOK, InvoiceRows
<1>7. \A k \in Invoices : To(allocated', k) <= To(allocated, k)
  BY <1>1, <1>2, ToNat DEF TypesOK, AllocationTable
<1> QED BY <1>1, <1>2, <1>3, <1>5, <1>6, <1>7, CommitPreserves

(* A change of an invoice that moves no money: it was a draft, or keeps    *)
(* its paid amount; only an approval makes it count.                       *)
LEMMA InvoiceWrittenOK ==
    ASSUME IInv, NEW t \in Txns, Commit(t), tx[t].kind \in InvoiceKinds,
           NEW row, row = invoice[tx[t].invoice], NEW new, new = InvoiceWritten(t, row)
    PROVE  /\ new \in InvoiceRows /\ Moves(row, new) /\ new.paid = row.paid
           /\ new.status = "DRAFT" => row.status = "DRAFT"
           /\ tx[t].kind # "approve" => Contribution(new) <= Contribution(row)
           /\ tx[t].kind = "approve" => row.status = "DRAFT" /\ new.status = "APPROVED"
<1> DEFINE x == tx[t]
<1>1. Good(x, order, invoice, payment, allocated, journal) /\ TypesOK /\ x.step = "commit"
  BY CommitKnown
<1>2. InvoiceKnows(x, order, invoice, journal)
  BY <1>1 DEF Good
<1>3. row \in InvoiceRows /\ row # None /\ row.version \in Nat /\ row.total \in Nat
  BY <1>1, <1>2 DEF InvoiceKnows, TypesOK, InvoiceRows
<1>4. Contribution(row) \in Nat
  BY <1>3, ShareNat
<1>5. PICK v \in Nat : v = row.version + 1
  BY <1>3
<1>6. ASSUME NEW r2 \in InvoiceRows PROVE r2 # None
  BY NoneAssumption DEF InvoiceRows
<1>7. CASE x.kind = "approve"
  <2>1. new = [row EXCEPT !.status = "APPROVED", !.version = v]
    BY <1>5, <1>7 DEF InvoiceWritten
  <2>2. row.status = "DRAFT"
    BY <1>1, <1>2, <1>7 DEF InvoiceKnows, ApproveKnows
  <2>3. new \in InvoiceRows /\ new.version = v /\ new.total = row.total /\ new.paid = row.paid
        /\ new.status = "APPROVED"
    BY <1>3, <2>1 DEF InvoiceRows
  <2> QED BY <1>3, <1>5, <1>6, <1>7, <2>2, <2>3 DEF Moves
<1>8. CASE x.kind = "cancel"
  <2>1. new = [row EXCEPT !.status = "CANCELLED", !.version = v]
    BY <1>5, <1>8 DEF InvoiceWritten
  <2>2. new \in InvoiceRows /\ new.version = v /\ new.total = row.total /\ new.paid = row.paid
        /\ new.status = "CANCELLED"
    BY <1>3, <2>1 DEF InvoiceRows
  <2>3. Contribution(new) = 0
    BY <2>2 DEF Contribution, Counts, Standing
  <2> QED BY <1>3, <1>4, <1>5, <1>6, <1>8, <2>2, <2>3 DEF Moves
<1>9. CASE x.kind = "delete"
  <2>1. new = [row EXCEPT !.deleted = TRUE]
    BY <1>9 DEF InvoiceWritten
  <2>2. new \in InvoiceRows /\ new.version = row.version /\ new.total = row.total /\ new.paid = row.paid
        /\ new.status = row.status /\ new.overwritten = row.overwritten /\ new.deleted
    BY <1>3, <2>1 DEF InvoiceRows
  <2>3. Contribution(new) = 0
    BY <2>2 DEF Contribution, Counts
  <2> QED BY <1>3, <1>4, <1>6, <1>9, <2>2, <2>3 DEF Moves
<1>10. CASE x.kind \in {"cancelDraft", "markPaid"}
  <2> DEFINE target == IF x.kind = "markPaid" THEN "PAID" ELSE "CANCELLED"
             over == row.overwritten \/ row.status # x.saw.status
  <2>1. x.saw.status = IF x.kind = "markPaid" THEN "APPROVED" ELSE "DRAFT"
    BY <1>1, <1>2, <1>10 DEF InvoiceKnows, HandKinds, HandKnows
  <2>2. new = [row EXCEPT !.status = target, !.overwritten = over]
    BY <1>10 DEF InvoiceWritten, ByHand
  <2>3. over \in BOOLEAN /\ target \in {"PAID", "CANCELLED"}
    BY <1>3 DEF InvoiceRows
  <2>4. /\ over <=> row.overwritten \/ row.status # x.saw.status
        /\ x.kind = "markPaid" => target = "PAID"
        /\ x.kind = "cancelDraft" => target = "CANCELLED"
    BY <1>10
  <2> HIDE DEF target, over
  <2>5. new \in InvoiceRows /\ new.version = row.version /\ new.total = row.total /\ new.paid = row.paid
        /\ new.status = target /\ new.overwritten = over /\ new.deleted = row.deleted
    BY <1>3, <2>2, <2>3 DEF InvoiceRows
  <2>6. Counts(new) => Counts(row)
    <3>1. ASSUME Counts(new) PROVE Counts(row)
      <4>1. ~over /\ target = "PAID" /\ ~row.deleted
        BY <2>3, <2>5, <3>1 DEF Counts, Standing
      <4>2. x.kind = "markPaid" /\ ~row.overwritten /\ row.status = "APPROVED"
        BY <1>10, <2>1, <2>4, <4>1
      <4> QED BY <1>3, <4>1, <4>2 DEF Counts, Standing
    <3> QED BY <3>1
  <2>7. Contribution(new) <= Contribution(row)
    BY <1>3, <1>4, <2>5, <2>6 DEF Contribution
  <2>8. row.status \in Standing \/ row.overwritten => new.status \in Standing \/ new.overwritten
    BY <1>10, <2>1, <2>4, <2>5 DEF Standing
  <2> QED BY <1>3, <1>6, <1>10, <2>3, <2>5, <2>7, <2>8 DEF Moves
<1> QED BY <1>7, <1>8, <1>9, <1>10 DEF InvoiceKinds, HandKinds

LEMMA InvoiceCommits ==
    ASSUME IInv, NEW t \in Txns, Commit(t), tx[t].kind \in InvoiceKinds PROVE IInv'
<1> DEFINE x == tx[t]
           i == x.invoice
           row == invoice[i]
           new == InvoiceWritten(t, row)
           j == journal[i]
           a == IF x.kind = "approve" THEN 1 ELSE 0
           c == IF x.kind = "cancel" THEN 1 ELSE 0
           k == [posted |-> j.posted + a, reversed |-> j.reversed + c]
<1>1. /\ t \in Running /\ tx' = [tx EXCEPT ![t] = None] /\ TypesOK /\ x.step = "commit"
      /\ InvoiceKnows(x, order, invoice, journal)
  BY CommitKnown DEF Good
<1>2. i \in Invoices /\ row # None /\ i # None /\ InvoiceRow(i) \in x.rows
  BY <1>1, PayablesAssumption DEF InvoiceKnows, InvoiceKinds, ApproveKnows, CancelKnows, HandKnows
<1>3. /\ new \in InvoiceRows /\ Moves(row, new) /\ new.paid = row.paid
      /\ new.status = "DRAFT" => row.status = "DRAFT"
      /\ x.kind # "approve" => Contribution(new) <= Contribution(row)
      /\ x.kind = "approve" => row.status = "DRAFT" /\ new.status = "APPROVED"
  BY InvoiceWrittenOK
<1>4. allocated' = allocated
  BY <1>1, AllocationsStay DEF MoneyKinds, InvoiceKinds, HandKinds
<1>5. payment' = payment /\ order' = order
  BY DEF Commit, OrderWritten, InvoiceKinds, HandKinds
<1>6. invoice' = [invoice EXCEPT ![i] = new] /\ journal' = [journal EXCEPT ![i] = k]
  BY <1>2 DEF Commit
<1>7. new # None
  BY <1>3 DEF Moves
<1>8. /\ k \in JournalRows /\ k.reversed <= k.posted /\ k.posted <= 1
      /\ new.status = "DRAFT" => k.posted = 0
  <2>1. j \in JournalRows /\ j.reversed <= j.posted /\ j.posted <= 1
    BY <1>1, <1>2 DEF TypesOK, IInv, DataInv, JournalOnce
  <2>2. row.status = "DRAFT" => j.posted = 0
    BY <1>2 DEF IInv, DataInv, DraftsFresh
  <2>3. x.kind = "cancel" => j.posted > j.reversed
    BY <1>1 DEF InvoiceKnows, CancelKnows
  <2>4. /\ x.kind = "approve" => a = 1 /\ c = 0 /\ j.posted = 0 /\ new.status # "DRAFT"
        /\ x.kind = "cancel" => a = 0 /\ c = 1
        /\ x.kind \notin {"approve", "cancel"} => a = 0 /\ c = 0
    BY <1>3, <2>2
  <2>5. j.posted \in Nat /\ j.reversed \in Nat
    BY <2>1 DEF JournalRows
  <2>6. k.posted = j.posted + a /\ k.reversed = j.reversed + c
    OBVIOUS
  <2>7. a \in Nat /\ c \in Nat /\ (x.kind # "approve" => a = 0)
    OBVIOUS
  <2>8. k \in JournalRows
    BY <2>5, <2>7 DEF JournalRows
  <2> HIDE DEF k, a, c, j, new, row
  <2>9. k.reversed <= k.posted /\ k.posted <= 1
    BY <2>1, <2>3, <2>4, <2>5, <2>6
  <2> QED BY <1>3, <2>2, <2>4, <2>5, <2>6, <2>7, <2>8, <2>9
<1> HIDE DEF new, k
<1>9. /\ invoice'[i] = new /\ \A m \in Invoices : m # i => invoice'[m] = invoice[m]
      /\ journal'[i] = k /\ \A m \in Invoices : m # i => journal'[m] = journal[m]
  BY <1>1, <1>2, <1>6 DEF TypesOK
<1>10. TypesOK'
  <2>1. invoice' \in [Invoices -> InvoiceRows \cup {None}] /\ journal' \in [Invoices -> JournalRows]
    BY <1>1, <1>2, <1>3, <1>6, <1>8 DEF TypesOK
  <2> QED BY <1>1, <1>4, <1>5, <2>1 DEF TypesOK
<1>11. DataInv'
  <2>1. DraftsFresh'
    <3>1. ASSUME NEW m \in Invoices
          PROVE  /\ invoice'[m] = None \/ invoice'[m].status = "DRAFT" =>
                    /\ journal'[m].posted = 0
                    /\ \A p \in Payments : payment[p] # None => payment[p].of # m
                 /\ invoice'[m] = None => AllocatedTo(m) = 0
      <4>1. CASE m = i
        BY <1>2, <1>3, <1>7, <1>8, <1>9, <4>1 DEF IInv, DataInv, DraftsFresh
      <4>2. CASE m # i
        BY <1>9, <4>2 DEF IInv, DataInv, DraftsFresh
      <4> QED BY <4>1, <4>2
    <3> QED BY <1>4, <1>5, <3>1 DEF DraftsFresh, AllocatedTo
  <2>2. PaidIsPayments'
    <3>1. \A m \in Invoices : invoice'[m] # None => invoice[m] # None /\ invoice'[m].paid = invoice[m].paid
      BY <1>2, <1>3, <1>9
    <3> QED BY <1>5, <3>1 DEF IInv, DataInv, PaidIsPayments, Active
  <2>3. CoverWithinTotal'
    <3>1. invoice'[i].total = invoice[i].total
      BY <1>3, <1>9 DEF Moves
    <3> QED BY <1>4, <1>9, <3>1 DEF IInv, DataInv, CoverWithinTotal, AllocatedTo
  <2>4. AllocatedWithinPayment'
    BY <1>4, <1>5 DEF IInv, DataInv, AllocatedWithinPayment, AllocatedOf, Active
  <2>5. JournalOnce'
    BY <1>8, <1>9 DEF IInv, DataInv, JournalOnce
  <2> QED BY <1>10, <2>1, <2>2, <2>3, <2>4, <2>5 DEF DataInv
<1>12. invoice \in InvoiceTable /\ invoice' \in InvoiceTable
  BY <1>1, <1>10 DEF TypesOK, InvoiceTable
<1>13. OrderRow \notin x.rows => Clean(invoice') <= Clean(invoice)
  <2>1. OrderRow \notin x.rows => x.kind # "approve"
    BY <1>1 DEF InvoiceKnows, ApproveKnows
  <2>2. /\ Clean(invoice) \in Nat
        /\ Clean(invoice') = Clean(invoice) + (Contribution(new) - Contribution(row))
    BY <1>2, <1>9, <1>12, CleanChanges
  <2>3. Contribution(new) \in Nat /\ Contribution(row) \in Nat
    BY <1>2, <1>3, <1>12, ShareNat DEF InvoiceTable
  <2> HIDE DEF row
  <2> QED BY <1>3, <2>1, <2>2, <2>3
<1>14. \A m \in Invoices : invoice[m] # None => Moves(invoice[m], invoice'[m])
  <2>1. \A m \in Invoices : invoice[m] # None => Moves(invoice[m], invoice[m])
    BY <1>1 DEF Moves, TypesOK, InvoiceRows
  <2> QED BY <1>3, <1>9, <2>1
<1>15. \A m \in Invoices : To(allocated', m) <= To(allocated, m)
  BY <1>1, <1>4, ToNat DEF TypesOK, AllocationTable
<1> HIDE DEF row, i
<1> QED BY <1>1, <1>2, <1>4, <1>5, <1>9, <1>11, <1>13, <1>14, <1>15, CommitPreserves DEF i

(* A payment, or the voiding of one, writes another paid amount by the     *)
(* version it saw.                                                         *)
LEMMA PaidWrittenOK ==
    ASSUME NEW row \in InvoiceRows, NEW seen, Still(seen, row), seen.version = row.version,
           NEW paid \in Nat, NEW target, target \in Standing \/ target = row.status,
           NEW new, new = PaidWritten(row, paid, target)
    PROVE  /\ new \in InvoiceRows /\ Moves(row, new) /\ new.paid = paid
           /\ new.total = row.total /\ new.status # "DRAFT"
           /\ Contribution(new) <= Contribution(row)
<1>1. PICK v \in Nat : v = row.version + 1
  BY DEF InvoiceRows
<1>2. new = [row EXCEPT !.paid = paid, !.status = target, !.version = v]
  BY <1>1 DEF PaidWritten
<1>3. /\ row.status # "DRAFT"
      /\ row.status \in Standing \/ row.overwritten
      /\ row.total \in Nat /\ row.version \in Nat
      /\ row.status \in {"DRAFT", "APPROVED", "PAID", "CANCELLED"}
  BY DEF Still, InvoiceRows
<1>4. target \in {"APPROVED", "PAID", "CANCELLED"}
  BY <1>3 DEF Standing
<1>5. /\ new \in InvoiceRows /\ new.paid = paid /\ new.total = row.total /\ new.version = v
      /\ new.status = target /\ new.deleted = row.deleted /\ new.overwritten = row.overwritten
  BY <1>2, <1>4 DEF InvoiceRows
<1>6. new # None /\ row # None
  BY <1>5, NoneAssumption DEF InvoiceRows
<1>7. Moves(row, new)
  BY <1>1, <1>3, <1>4, <1>5, <1>6 DEF Moves
<1>8. Counts(new) => Counts(row)
  BY <1>3, <1>5, <1>6 DEF Counts
<1>9. Contribution(new) <= Contribution(row)
  BY <1>3, <1>5, <1>8 DEF Contribution
<1> QED BY <1>4, <1>5, <1>7, <1>9

(* What becomes of the allocations when an amount is added to one of them. *)
Adds(al, al2, p, i, q) ==
    /\ al2 \in AllocationTable
    /\ \A r \in Payments, j \in Invoices :
            al2[r][j] = IF r = p /\ j = i THEN al[r][j] + q ELSE al[r][j]

LEMMA Allocated ==
    ASSUME NEW al \in AllocationTable, NEW p \in Payments, NEW i \in Invoices, NEW q \in Nat, NEW al2,
           Adds(al, al2, p, i, q)
    PROVE  /\ al2 \in AllocationTable
           /\ To(al2, i) = To(al, i) + q
           /\ \A j \in Invoices : j # i => To(al2, j) = To(al, j)
           /\ Of(al2, p) = Of(al, p) + q
           /\ \A r \in Payments : r # p => al2[r] = al[r] /\ Of(al2, r) = Of(al, r)
<1>1. \A r \in Payments, j \in Invoices :
        al[r][j] \in Nat /\ al2[r][j] = IF r = p /\ j = i THEN al[r][j] + q ELSE al[r][j]
  BY DEF AllocationTable, Adds
<1>2. al2 \in AllocationTable
  BY DEF Adds
<1>3. al2[p][i] - al[p][i] = q
  BY <1>1
<1>4. To(al2, i) = To(al, i) + q
  BY <1>1, <1>2, <1>3, ToChanges
<1>5. Of(al2, p) = Of(al, p) + q
  BY <1>1, <1>2, <1>3, OfChanges
<1>6. ASSUME NEW j \in Invoices, j # i PROVE To(al2, j) = To(al, j)
  <2>1. al2[p][j] - al[p][j] = 0 /\ \A r \in Payments : al2[r][j] = al[r][j]
    BY <1>1, <1>6
  <2>2. To(al2, j) = To(al, j) + 0
    BY <1>2, <2>1, ToChanges
  <2> QED BY <2>2, ToNat
<1>7. ASSUME NEW r \in Payments, r # p PROVE al2[r] = al[r] /\ Of(al2, r) = Of(al, r)
  <2>1. al2[r] = al[r]
    BY <1>1, <1>2, <1>7 DEF AllocationTable
  <2> QED BY <2>1 DEF Of
<1> QED BY <1>2, <1>4, <1>5, <1>6, <1>7

LEMMA AllocationAdds ==
    ASSUME TypesOK, NEW t \in Txns, Commit(t), tx[t].kind \in {"pay", "allocate"}, tx[t].amount \in Nat
    PROVE  Adds(allocated, allocated', tx[t].payment, tx[t].invoice, tx[t].amount)
<1>1. ASSUME NEW r \in Payments, NEW j \in Invoices
      PROVE  /\ AllocationsWritten(t, r, j) =
                    IF r = tx[t].payment /\ j = tx[t].invoice THEN allocated[r][j] + tx[t].amount
                    ELSE allocated[r][j]
             /\ AllocationsWritten(t, r, j) \in Nat
  <2>1. allocated[r][j] \in Nat
    BY DEF TypesOK
  <2>2. CASE r # tx[t].payment
    BY <2>1, <2>2 DEF AllocationsWritten
  <2>3. CASE r = tx[t].payment
    <3>1. AllocationsWritten(t, r, j) = allocated[r][j] + (IF j = tx[t].invoice THEN tx[t].amount ELSE 0)
      BY <2>3 DEF AllocationsWritten
    <3> QED BY <2>1, <2>3, <3>1
  <2> QED BY <2>2, <2>3
<1>2. allocated' = [r \in Payments |-> [j \in Invoices |-> AllocationsWritten(t, r, j)]]
  BY DEF Commit
<1> QED BY <1>1, <1>2 DEF Adds, AllocationTable

(* A payment of an invoice: the invoice is paid by its amount more, all of *)
(* which is allocated to the invoice.                                      *)
LEMMA PayCommits ==
    ASSUME IInv, NEW t \in Txns, Commit(t), tx[t].kind = "pay" PROVE IInv'
<1> DEFINE x == tx[t]
           i == x.invoice
           p == x.payment
           q == x.amount
           row == invoice[i]
           sum == x.saw.paid + q
           target == IF sum >= row.total THEN "PAID" ELSE row.status
           new == PaidWritten(row, sum, target)
           made == Payment(q, i)
<1>1. /\ t \in Running /\ tx' = [tx EXCEPT ![t] = None] /\ TypesOK
      /\ i \in Invoices /\ row # None /\ i # None /\ p \in Payments /\ payment[p] = None
      /\ q \in Nat /\ Still(x.saw, row) /\ InvoiceRow(i) \in x.rows
      /\ To(allocated, i) + q <= row.total /\ x.saw.version = row.version
  BY CommitKnown, PayablesAssumption DEF Good, PayKnows, FitsInvoice
<1>2. row \in InvoiceRows /\ row.paid \in Nat /\ sum = row.paid + q /\ sum \in Nat
  BY <1>1 DEF TypesOK, InvoiceRows, Still
<1>3. /\ new \in InvoiceRows /\ Moves(row, new) /\ new.paid = sum
      /\ new.total = row.total /\ new.status # "DRAFT" /\ Contribution(new) <= Contribution(row)
  <2>1. target \in Standing \/ target = row.status
    BY DEF Standing
  <2> HIDE DEF row, sum, target
  <2> QED BY <1>1, <1>2, <2>1, PaidWrittenOK
<1>4. new # None
  BY <1>3 DEF Moves
<1>5. journal' = journal /\ order' = order
  BY <1>1, JournalStays DEF Commit, OrderWritten
<1>6. invoice' = [invoice EXCEPT ![i] = new] /\ payment' = [payment EXCEPT ![p] = made]
  BY <1>1 DEF Commit, InvoiceWritten
<1>7. made \in PaymentRows /\ made # None /\ made.of = i /\ made.amount = q /\ ~made.void
  <2>1. made \in PaymentRows /\ made.of = i /\ made.amount = q /\ ~made.void
    BY <1>1 DEF Payment, PaymentRows
  <2> QED BY <2>1, NoneAssumption DEF PaymentRows
<1>8. /\ payment \in PaymentTable /\ invoice \in InvoiceTable /\ allocated \in AllocationTable
  BY <1>1 DEF TypesOK, PaymentTable, InvoiceTable, AllocationTable
<1>9. /\ allocated' \in AllocationTable
      /\ To(allocated', i) = To(allocated, i) + q
      /\ \A j \in Invoices : j # i => To(allocated', j) = To(allocated, j)
      /\ Of(allocated', p) = Of(allocated, p) + q
      /\ \A r \in Payments : r # p => allocated'[r] = allocated[r] /\ Of(allocated', r) = Of(allocated, r)
  <2>1. Adds(allocated, allocated', p, i, q)
    BY <1>1, AllocationAdds
  <2> HIDE DEF i, p, q
  <2> QED BY <1>1, <1>8, <2>1, Allocated
<1> HIDE DEF new, made, sum
<1>10. /\ invoice'[i] = new /\ \A m \in Invoices : m # i => invoice'[m] = invoice[m]
       /\ payment'[p] = made /\ \A r \in Payments : r # p => payment'[r] = payment[r]
  BY <1>1, <1>6 DEF TypesOK
<1>11. invoice' \in InvoiceTable /\ payment' \in PaymentTable
  BY <1>1, <1>3, <1>6, <1>7, <1>8 DEF InvoiceTable, PaymentTable
<1>12. TypesOK'
  BY <1>1, <1>5, <1>9, <1>11 DEF TypesOK, InvoiceTable, PaymentTable, AllocationTable
<1>13. DataInv'
  <2>1. DraftsFresh'
    <3>1. ASSUME NEW m \in Invoices
          PROVE  /\ invoice'[m] = None \/ invoice'[m].status = "DRAFT" =>
                    /\ journal'[m].posted = 0
                    /\ \A r \in Payments : payment'[r] # None => payment'[r].of # m
                 /\ invoice'[m] = None => To(allocated', m) = 0
      <4>1. CASE m = i
        BY <1>3, <1>4, <1>10, <4>1
      <4>2. CASE m # i
        <5>1. To(allocated', m) = AllocatedTo(m)
          BY <1>9, <4>2 DEF AllocatedTo, To
        <5>2. \A r \in Payments : payment'[r] # None /\ payment'[r].of = m => payment[r] # None /\ payment[r].of = m
          BY <1>7, <1>10, <4>2
        <5> QED BY <1>5, <1>10, <4>2, <5>1, <5>2 DEF IInv, DataInv, DraftsFresh
      <4> QED BY <4>1, <4>2
    <3> QED BY <3>1 DEF DraftsFresh, AllocatedTo, To
  <2>2. PaidIsPayments'
    <3>1. ASSUME NEW m \in Invoices, invoice'[m] # None
          PROVE  invoice'[m].paid = PaidBy(payment', m)
      <4>1. /\ PaidBy(payment, m) \in Nat
            /\ PaidBy(payment', m) = PaidBy(payment, m) + (Part(made, m) - Part(None, m))
        BY <1>1, <1>8, <1>10, <1>11, PaidByChanges
      <4>2. Part(None, m) = 0 /\ Part(made, m) = IF m = i THEN q ELSE 0
        BY <1>7 DEF Part, Pays
      <4>3. invoice[m] # None => invoice[m].paid = PaidBy(payment, m)
        BY <1>1, PaidMeans DEF IInv, DataInv
      <4>4. CASE m = i
        BY <1>1, <1>2, <1>3, <1>10, <4>1, <4>2, <4>3, <4>4
      <4>5. CASE m # i
        BY <1>10, <3>1, <4>1, <4>2, <4>3, <4>5
      <4> QED BY <4>4, <4>5
    <3>2. \A m : PaidAs(payment', m) = PaidBy(payment', m)
      BY <1>11, PaidSum
    <3> QED BY <3>1, <3>2 DEF PaidIsPayments, PaidAs, Active
  <2>3. CoverWithinTotal'
    <3>1. ASSUME NEW m \in Invoices PROVE To(allocated', m) > 0 => To(allocated', m) <= invoice'[m].total
      <4>1. CASE m = i
        BY <1>1, <1>3, <1>9, <1>10, <4>1
      <4>2. CASE m # i
        BY <1>9, <1>10, <4>2 DEF IInv, DataInv, CoverWithinTotal, AllocatedTo, To
      <4> QED BY <4>1, <4>2
    <3> QED BY <3>1 DEF CoverWithinTotal, AllocatedTo, To
  <2>4. AllocatedWithinPayment'
    <3>1. ASSUME NEW r \in Payments, Of(allocated', r) > 0
          PROVE  /\ payment'[r] # None /\ ~payment'[r].void
                 /\ Of(allocated', r) <= payment'[r].amount
      <4>1. CASE r = p
        <5>1. Of(allocated, p) \in Nat
          BY <1>1, <1>8, OfNat
        <5>2. ~(Of(allocated, p) > 0)
          BY <1>1 DEF IInv, DataInv, AllocatedWithinPayment, AllocatedOf, Of, Active
        <5> QED BY <1>1, <1>7, <1>9, <1>10, <4>1, <5>1, <5>2
      <4>2. CASE r # p
        BY <1>9, <1>10, <3>1, <4>2 DEF IInv, DataInv, AllocatedWithinPayment, AllocatedOf, Of, Active
      <4> QED BY <4>1, <4>2
    <3> QED BY <3>1 DEF AllocatedWithinPayment, AllocatedOf, Of, Active
  <2>5. JournalOnce'
    BY <1>5 DEF IInv, DataInv, JournalOnce
  <2> QED BY <1>12, <2>1, <2>2, <2>3, <2>4, <2>5 DEF DataInv
<1>14. Clean(invoice') <= Clean(invoice)
  <2>1. /\ Clean(invoice) \in Nat
        /\ Clean(invoice') = Clean(invoice) + (Contribution(new) - Contribution(row))
    BY <1>1, <1>8, <1>10, <1>11, CleanChanges
  <2>2. Contribution(new) \in Nat /\ Contribution(row) \in Nat
    BY <1>2, <1>3, ShareNat
  <2> HIDE DEF row
  <2> QED BY <1>3, <2>1, <2>2
<1>15. \A m \in Invoices : invoice[m] # None => Moves(invoice[m], invoice'[m])
  <2>1. \A m \in Invoices : invoice[m] # None => Moves(invoice[m], invoice[m])
    BY <1>1 DEF Moves, TypesOK, InvoiceRows
  <2> QED BY <1>3, <1>10, <2>1
<1>16. \A m \in Invoices : m # i => To(allocated', m) <= To(allocated, m)
  BY <1>8, <1>9, ToNat
<1>17. order'.total = order.total
  BY <1>5
<1> HIDE DEF row, i, p, x
<1> QED BY <1>1, <1>5, <1>9, <1>10, <1>13, <1>14, <1>15, <1>16, <1>17, CommitPreserves DEF i, p, x

(* An allocation of a payment to an invoice.                               *)
LEMMA AllocateCommits ==
    ASSUME IInv, NEW t \in Txns, Commit(t), tx[t].kind = "allocate" PROVE IInv'
<1> DEFINE x == tx[t]
           i == x.invoice
           p == x.payment
           q == x.amount
<1>1. /\ t \in Running /\ tx' = [tx EXCEPT ![t] = None] /\ TypesOK
      /\ i \in Invoices /\ invoice[i] # None /\ i # None /\ p \in Payments
      /\ payment[p] # None /\ ~payment[p].void /\ q \in Nat
      /\ InvoiceRow(i) \in x.rows /\ PaymentRow(p) \in x.rows
      /\ To(allocated, i) + q <= invoice[i].total /\ Of(allocated, p) + q <= payment[p].amount
  BY CommitKnown, PayablesAssumption DEF Good, AllocateKnows, FitsInvoice
<1>2. journal' = journal /\ order' = order /\ payment' = payment
  BY <1>1, JournalStays DEF Commit, OrderWritten
<1>3. invoice' = invoice
  BY <1>1 DEF Commit, InvoiceWritten, TypesOK
<1>4. allocated \in AllocationTable
  BY <1>1 DEF TypesOK, AllocationTable
<1>5. /\ allocated' \in AllocationTable
      /\ To(allocated', i) = To(allocated, i) + q
      /\ \A j \in Invoices : j # i => To(allocated', j) = To(allocated, j)
      /\ Of(allocated', p) = Of(allocated, p) + q
      /\ \A r \in Payments : r # p => allocated'[r] = allocated[r] /\ Of(allocated', r) = Of(allocated, r)
  <2>1. Adds(allocated, allocated', p, i, q)
    BY <1>1, AllocationAdds
  <2> HIDE DEF i, p, q
  <2> QED BY <1>1, <1>4, <2>1, Allocated
<1>6. TypesOK'
  BY <1>1, <1>2, <1>3, <1>5 DEF TypesOK, AllocationTable
<1>7. DataInv'
  <2>1. DraftsFresh'
    <3>1. \A m \in Invoices : invoice[m] = None => To(allocated', m) = AllocatedTo(m)
      BY <1>1, <1>5 DEF AllocatedTo, To
    <3> QED BY <1>2, <1>3, <3>1 DEF IInv, DataInv, DraftsFresh, AllocatedTo, To
  <2>2. PaidIsPayments'
    BY <1>2, <1>3 DEF IInv, DataInv, PaidIsPayments, Active
  <2>3. CoverWithinTotal'
    <3>1. ASSUME NEW m \in Invoices PROVE To(allocated', m) > 0 => To(allocated', m) <= invoice[m].total
      <4>1. CASE m = i
        BY <1>1, <1>5, <4>1
      <4>2. CASE m # i
        BY <1>5, <4>2 DEF IInv, DataInv, CoverWithinTotal, AllocatedTo, To
      <4> QED BY <4>1, <4>2
    <3> QED BY <1>3, <3>1 DEF CoverWithinTotal, AllocatedTo, To
  <2>4. AllocatedWithinPayment'
    <3>1. ASSUME NEW r \in Payments, Of(allocated', r) > 0
          PROVE  /\ payment[r] # None /\ ~payment[r].void
                 /\ Of(allocated', r) <= payment[r].amount
      <4>1. CASE r = p
        BY <1>1, <1>5, <4>1
      <4>2. CASE r # p
        BY <1>5, <3>1, <4>2 DEF IInv, DataInv, AllocatedWithinPayment, AllocatedOf, Of, Active
      <4> QED BY <4>1, <4>2
    <3> QED BY <1>2, <3>1 DEF AllocatedWithinPayment, AllocatedOf, Of, Active
  <2>5. JournalOnce'
    BY <1>2 DEF IInv, DataInv, JournalOnce
  <2> QED BY <1>6, <2>1, <2>2, <2>3, <2>4, <2>5 DEF DataInv
<1>8. invoice \in InvoiceTable
  BY <1>1 DEF TypesOK, InvoiceTable
<1>9. Clean(invoice') <= Clean(invoice)
  <2>1. Clean(invoice) \in Nat
    BY <1>8, CleanNat
  <2> QED BY <1>3, <2>1
<1>10. \A m \in Invoices : invoice[m] # None => Moves(invoice[m], invoice'[m])
  BY <1>1, <1>3 DEF Moves, TypesOK, InvoiceRows
<1>11. \A m \in Invoices : m # i => To(allocated', m) <= To(allocated, m)
  BY <1>4, <1>5, ToNat
<1> HIDE DEF i, p, x
<1> QED BY <1>1, <1>2, <1>3, <1>5, <1>7, <1>9, <1>10, <1>11, CommitPreserves DEF i, p, x

(* What becomes of the allocations when those of a payment are removed.    *)
Clears(al, al2, p) ==
    /\ al2 \in AllocationTable
    /\ \A r \in Payments, j \in Invoices : al2[r][j] = IF r = p THEN 0 ELSE al[r][j]

LEMMA Cleared ==
    ASSUME NEW al \in AllocationTable, NEW p \in Payments, NEW al2, Clears(al, al2, p)
    PROVE  /\ al2 \in AllocationTable
           /\ \A j \in Invoices : /\ To(al2, j) \in Nat /\ To(al, j) \in Nat
                                  /\ To(al2, j) <= To(al, j)
           /\ Of(al2, p) = 0
           /\ \A r \in Payments : r # p => al2[r] = al[r] /\ Of(al2, r) = Of(al, r)
<1>1. al2 \in AllocationTable
  BY DEF Clears
<1>2. \A r \in Payments, j \in Invoices :
        al[r][j] \in Nat /\ al2[r][j] = IF r = p THEN 0 ELSE al[r][j]
  BY DEF AllocationTable, Clears
<1>3. Of(al2, p) = 0
  BY <1>1, <1>2, OfNat
<1>4. ASSUME NEW j \in Invoices
      PROVE  /\ To(al2, j) \in Nat /\ To(al, j) \in Nat
             /\ To(al2, j) <= To(al, j)
  <2>1. To(al2, j) = To(al, j) + (al2[p][j] - al[p][j])
    BY <1>1, <1>2, ToChanges
  <2>2. To(al2, j) \in Nat /\ To(al, j) \in Nat
    BY <1>1, ToNat
  <2>3. al2[p][j] = 0 /\ al[p][j] \in Nat
    BY <1>2
  <2> QED BY <2>1, <2>2, <2>3
<1>5. ASSUME NEW r \in Payments, r # p PROVE al2[r] = al[r] /\ Of(al2, r) = Of(al, r)
  <2>1. al2[r] = al[r]
    BY <1>1, <1>2, <1>5 DEF AllocationTable
  <2> QED BY <2>1 DEF Of
<1> QED BY <1>1, <1>3, <1>4, <1>5

(* The voiding of a payment takes its amount from the paid amount of the   *)
(* invoice it was of, if it was of one.                                    *)
LEMMA VoidWrites ==
    ASSUME IInv, NEW t \in Txns, Commit(t), tx[t].kind = "void",
           NEW i, i = tx[t].invoice, NEW q, q = tx[t].amount
    PROVE  /\ invoice' \in InvoiceTable
           /\ \A m \in Invoices : m # i => invoice'[m] = invoice[m]
           /\ i # None => /\ i \in Invoices /\ invoice[i] # None
                          /\ Moves(invoice[i], invoice'[i]) /\ invoice'[i].status # "DRAFT"
                          /\ invoice'[i].paid = invoice[i].paid - q
           /\ Clean(invoice') <= Clean(invoice)
<1> DEFINE x == tx[t]
<1>1. /\ TypesOK /\ VoidKnows(x, invoice, payment, allocated) /\ x.amount \in Nat /\ x.step = "commit"
  BY CommitKnown DEF Good
<1>2. invoice \in InvoiceTable /\ payment \in PaymentTable
  BY <1>1 DEF TypesOK, InvoiceTable, PaymentTable
<1>3. i \in Invoices \cup {None}
  BY <1>1, <1>2 DEF VoidKnows, PaymentTable, PaymentRows
<1>4. CASE i = None
  <2>1. invoice' = invoice /\ \A m \in Invoices : m # i
    BY <1>4, PayablesAssumption DEF Commit
  <2>2. Clean(invoice) \in Nat
    BY <1>2, CleanNat
  <2> QED BY <1>2, <1>4, <2>1, <2>2
<1>5. CASE i # None
  <2> DEFINE row == invoice[i]
             left == x.saw.paid - q
             target == IF left < row.total THEN "APPROVED" ELSE row.status
             new == PaidWritten(row, left, target)
  <2>1. /\ i \in Invoices /\ row # None /\ Still(x.saw, row) /\ x.saw.version = row.version
        /\ x.amount <= x.saw.paid
    BY <1>1, <1>3, <1>5 DEF VoidKnows
  <2>2. row \in InvoiceRows /\ row.paid \in Nat /\ left = row.paid - q /\ left \in Nat
    BY <1>1, <1>2, <2>1 DEF InvoiceTable, InvoiceRows, Still
  <2>3. target \in Standing \/ target = row.status
    BY DEF Standing
  <2>4. invoice' = [invoice EXCEPT ![i] = new]
    BY <1>5 DEF Commit, InvoiceWritten
  <2> HIDE DEF row, left, target
  <2>5. /\ new \in InvoiceRows /\ Moves(row, new) /\ new.paid = left
        /\ new.status # "DRAFT" /\ Contribution(new) <= Contribution(row)
    BY <2>1, <2>2, <2>3, PaidWrittenOK
  <2> HIDE DEF new
  <2>6. invoice' \in InvoiceTable /\ invoice'[i] = new /\ \A m \in Invoices : m # i => invoice'[m] = invoice[m]
    BY <1>2, <2>1, <2>4, <2>5 DEF InvoiceTable
  <2>7. Clean(invoice') <= Clean(invoice)
    <3>1. /\ Clean(invoice) \in Nat
          /\ Clean(invoice') = Clean(invoice) + (Contribution(new) - Contribution(row))
      BY <1>2, <2>1, <2>6, CleanChanges DEF row
    <3>2. Contribution(new) \in Nat /\ Contribution(row) \in Nat
      BY <2>2, <2>5, ShareNat
    <3> QED BY <2>5, <3>1, <3>2
  <2> QED BY <2>1, <2>2, <2>5, <2>6, <2>7 DEF row
<1> QED BY <1>4, <1>5

LEMMA VoidCommits ==
    ASSUME IInv, NEW t \in Txns, Commit(t), tx[t].kind = "void" PROVE IInv'
<1> DEFINE x == tx[t]
           i == x.invoice
           p == x.payment
           q == x.amount
           made == [payment[p] EXCEPT !.void = TRUE]
<1>1. /\ t \in Running /\ tx' = [tx EXCEPT ![t] = None] /\ TypesOK
      /\ p \in Payments /\ payment[p] # None /\ ~payment[p].void /\ q \in Nat
      /\ i = payment[p].of /\ q = payment[p].amount /\ x.removes = allocated[p]
      /\ i # None => InvoiceRow(i) \in x.rows
      /\ PaymentRow(p) \in x.rows
  BY CommitKnown DEF Good, VoidKnows
<1>2. /\ payment \in PaymentTable /\ invoice \in InvoiceTable /\ allocated \in AllocationTable
  BY <1>1 DEF TypesOK, PaymentTable, InvoiceTable, AllocationTable
<1>3. journal' = journal /\ order' = order
  BY <1>1, JournalStays DEF Commit, OrderWritten
<1>4. payment' = [payment EXCEPT ![p] = made]
  BY <1>1 DEF Commit
<1>5. made \in PaymentRows /\ made # None /\ made.of = i /\ made.amount = q /\ made.void
  <2>1. made \in PaymentRows /\ made.of = i /\ made.amount = q /\ made.void
    BY <1>1, <1>2 DEF PaymentTable, PaymentRows
  <2> QED BY <2>1, NoneAssumption DEF PaymentRows
<1> HIDE DEF made
<1>6. /\ invoice' \in InvoiceTable
      /\ \A m \in Invoices : m # i => invoice'[m] = invoice[m]
      /\ i # None => /\ i \in Invoices /\ invoice[i] # None
                     /\ Moves(invoice[i], invoice'[i]) /\ invoice'[i].status # "DRAFT"
                     /\ invoice'[i].paid = invoice[i].paid - q
      /\ Clean(invoice') <= Clean(invoice)
  BY VoidWrites
<1>7. \A m \in Invoices : m # None
  BY PayablesAssumption
<1>8. Clears(allocated, allocated', p)
  <2>1. ASSUME NEW r \in Payments, NEW j \in Invoices
        PROVE  AllocationsWritten(t, r, j) = IF r = p THEN 0 ELSE allocated[r][j]
    BY <1>1, <1>2 DEF AllocationsWritten, AllocationTable
  <2>2. \A r \in Payments, j \in Invoices : AllocationsWritten(t, r, j) \in Nat
    BY <1>2, <2>1 DEF AllocationTable
  <2>3. allocated' = [r \in Payments |-> [j \in Invoices |-> AllocationsWritten(t, r, j)]]
    BY DEF Commit
  <2> QED BY <2>1, <2>2, <2>3 DEF Clears, AllocationTable
<1> HIDE DEF i, p, q
<1>9. /\ allocated' \in AllocationTable
      /\ \A j \in Invoices : /\ To(allocated', j) \in Nat /\ To(allocated, j) \in Nat
                             /\ To(allocated', j) <= To(allocated, j)
      /\ Of(allocated', p) = 0
      /\ \A r \in Payments : r # p => allocated'[r] = allocated[r] /\ Of(allocated', r) = Of(allocated, r)
  BY <1>1, <1>2, <1>8, Cleared
<1>10. /\ payment'[p] = made /\ \A r \in Payments : r # p => payment'[r] = payment[r]
       /\ payment' \in PaymentTable
  BY <1>1, <1>2, <1>4, <1>5 DEF PaymentTable
<1>11. TypesOK'
  BY <1>1, <1>3, <1>6, <1>9, <1>10 DEF TypesOK, InvoiceTable, PaymentTable, AllocationTable
<1>12. \A m \in Invoices : invoice[m] # None => Moves(invoice[m], invoice'[m])
  <2>1. \A m \in Invoices : invoice[m] # None => Moves(invoice[m], invoice[m])
    BY <1>1 DEF Moves, TypesOK, InvoiceRows
  <2> QED BY <1>6, <1>7, <2>1
<1>13. \A m \in Invoices : invoice'[m] # None => invoice[m] # None /\ invoice'[m].total = invoice[m].total
  BY <1>6, <1>7 DEF Moves
<1>14. DataInv'
  <2>1. DraftsFresh'
    <3>1. ASSUME NEW m \in Invoices
          PROVE  /\ invoice'[m] = None \/ invoice'[m].status = "DRAFT" =>
                    /\ journal'[m].posted = 0
                    /\ \A r \in Payments : payment'[r] # None => payment'[r].of # m
                 /\ invoice'[m] = None => To(allocated', m) = 0
      <4>1. CASE m = i
        BY <1>6, <1>7, <4>1 DEF Moves
      <4>2. CASE m # i
        <5>1. \A r \in Payments : payment'[r] # None /\ payment'[r].of = m => payment[r] # None /\ payment[r].of = m
          BY <1>5, <1>10, <4>2
        <5>2. invoice[m] = None => To(allocated, m) = 0
          BY DEF IInv, DataInv, DraftsFresh, AllocatedTo, To
        <5>3. To(allocated', m) \in Nat /\ To(allocated, m) \in Nat /\ To(allocated', m) <= To(allocated, m)
          BY <1>9
        <5>4. invoice'[m] = None => To(allocated', m) = 0
          BY <1>6, <4>2, <5>2, <5>3
        <5> QED BY <1>3, <1>6, <4>2, <5>1, <5>4 DEF IInv, DataInv, DraftsFresh
      <4> QED BY <4>1, <4>2
    <3> QED BY <3>1 DEF DraftsFresh, AllocatedTo, To
  <2>2. PaidIsPayments'
    <3>1. ASSUME NEW m \in Invoices, invoice'[m] # None
          PROVE  invoice'[m].paid = PaidBy(payment', m)
      <4>1. /\ PaidBy(payment, m) \in Nat
            /\ PaidBy(payment', m) = PaidBy(payment, m) + (Part(made, m) - Part(payment[p], m))
        BY <1>1, <1>2, <1>10, PaidByChanges
      <4>2. Part(made, m) = 0 /\ Part(payment[p], m) = IF m = i THEN q ELSE 0
        BY <1>1, <1>5 DEF Part, Pays
      <4>3. invoice[m] # None /\ invoice[m].paid = PaidBy(payment, m)
        BY <1>1, <1>13, <3>1, PaidMeans DEF IInv, DataInv
      <4>4. CASE m = i
        BY <1>1, <1>6, <1>7, <4>1, <4>2, <4>3, <4>4
      <4>5. CASE m # i
        BY <1>6, <4>1, <4>2, <4>3, <4>5
      <4> QED BY <4>4, <4>5
    <3>2. \A m : PaidAs(payment', m) = PaidBy(payment', m)
      BY <1>10, PaidSum
    <3> QED BY <3>1, <3>2 DEF PaidIsPayments, PaidAs, Active
  <2>3. CoverWithinTotal'
    <3>1. ASSUME NEW m \in Invoices, To(allocated', m) > 0 PROVE To(allocated', m) <= invoice'[m].total
      <4>1. To(allocated, m) > 0 /\ To(allocated', m) <= To(allocated, m)
            /\ To(allocated, m) \in Nat /\ To(allocated', m) \in Nat
        BY <1>9, <3>1
      <4>2. invoice[m] # None /\ To(allocated, m) <= invoice[m].total
        BY <4>1 DEF IInv, DataInv, CoverWithinTotal, DraftsFresh, AllocatedTo, To
      <4>3. invoice'[m].total = invoice[m].total /\ invoice[m].total \in Nat
        BY <1>2, <1>12, <4>2 DEF Moves, InvoiceTable, InvoiceRows
      <4> QED BY <4>1, <4>2, <4>3
    <3> QED BY <3>1 DEF CoverWithinTotal, AllocatedTo, To
  <2>4. AllocatedWithinPayment'
    <3>1. ASSUME NEW r \in Payments, Of(allocated', r) > 0
          PROVE  /\ payment'[r] # None /\ ~payment'[r].void
                 /\ Of(allocated', r) <= payment'[r].amount
      <4>1. r # p
        BY <1>9, <3>1
      <4> QED BY <1>9, <1>10, <3>1, <4>1 DEF IInv, DataInv, AllocatedWithinPayment, AllocatedOf, Of, Active
    <3> QED BY <3>1 DEF AllocatedWithinPayment, AllocatedOf, Of, Active
  <2>5. JournalOnce'
    BY <1>3 DEF IInv, DataInv, JournalOnce
  <2> QED BY <1>11, <2>1, <2>2, <2>3, <2>4, <2>5 DEF DataInv
<1>15. \A m \in Invoices :
          \/ m = x.invoice /\ (InvoiceRow(m) \in x.rows \/ x.kind = "create")
          \/ /\ invoice'[m] = invoice[m] /\ journal'[m] = journal[m]
             /\ To(allocated', m) <= To(allocated, m)
  BY <1>1, <1>3, <1>6, <1>7, <1>9 DEF i
<1>16. \A r \in Payments : payment[r] # None =>
          payment'[r] # None /\ payment'[r].of = payment[r].of /\ payment'[r].amount = payment[r].amount
  BY <1>1, <1>5, <1>10
<1>17. order'.total = order.total
  BY <1>3
<1>18. \A r \in Payments :
          \/ r = x.payment /\ (PaymentRow(r) \in x.rows \/ x.kind = "pay")
          \/ payment'[r] = payment[r] /\ allocated'[r] = allocated[r]
  BY <1>1, <1>9, <1>10 DEF p
<1> QED BY <1>1, <1>6, <1>12, <1>14, <1>15, <1>16, <1>17, <1>18, CommitPreserves

LEMMA CommitKeeps == ASSUME IInv, NEW t \in Txns, Commit(t) PROVE IInv'
<1>1. tx[t].kind \in OrderKinds \cup InvoiceKinds \cup MoneyKinds
  BY CommitKnown DEF Good
<1> QED BY <1>1, CreateCommits, OrderCommits, InvoiceCommits, PayCommits, AllocateCommits, VoidCommits
        DEF MoneyKinds

-----------------------------------------------------------------------------
(* A payment on account.                                                   *)
LEMMA PayUnallocatedPreserves == ASSUME IInv, PayUnallocated PROVE IInv'
<1>1. PICK p \in FreePayments, q \in 1..Units :
        /\ payment' = [payment EXCEPT ![p] = Payment(q, None)]
        /\ UNCHANGED <<order, invoice, allocated, journal, tx>>
  BY DEF PayUnallocated
<1> DEFINE made == Payment(q, None)
<1>2. /\ p \in Payments /\ payment[p] = None /\ \A u \in Running : tx[u].payment # p
      /\ q \in Nat /\ TypesOK
  BY PayablesAssumption DEF FreePayments, IInv, DataInv
<1>3. made \in PaymentRows /\ made # None /\ made.of = None
  <2>1. made \in PaymentRows /\ made.of = None
    BY <1>2 DEF Payment, PaymentRows
  <2> QED BY <2>1, NoneAssumption DEF PaymentRows
<1>4. payment' = [payment EXCEPT ![p] = made]
  BY <1>1
<1> HIDE DEF made
<1>5. /\ payment \in PaymentTable /\ invoice \in InvoiceTable /\ allocated \in AllocationTable
      /\ payment' \in PaymentTable /\ payment'[p] = made
      /\ \A r \in Payments : r # p => payment'[r] = payment[r]
  BY <1>2, <1>3, <1>4 DEF TypesOK, PaymentTable, InvoiceTable, AllocationTable
<1>6. \A m \in Invoices : m # None
  BY PayablesAssumption
<1>7. DataInv'
  <2>1. TypesOK'
    BY <1>1, <1>2, <1>5 DEF TypesOK, PaymentTable
  <2>2. DraftsFresh'
    BY <1>1, <1>3, <1>5, <1>6 DEF IInv, DataInv, DraftsFresh, AllocatedTo
  <2>3. PaidIsPayments'
    <3>1. ASSUME NEW m \in Invoices PROVE PaidBy(payment', m) = PaidBy(payment, m)
      <4>1. /\ PaidBy(payment, m) \in Nat
            /\ PaidBy(payment', m) = PaidBy(payment, m) + (Part(made, m) - Part(None, m))
        BY <1>2, <1>5, PaidByChanges
      <4>2. Part(None, m) = 0 /\ Part(made, m) = 0
        BY <1>3, <1>6 DEF Part, Pays
      <4> QED BY <4>1, <4>2
    <3>2. \A m \in Invoices : invoice[m] # None => invoice[m].paid = PaidBy(payment', m)
      BY <1>2, <3>1, PaidMeans DEF IInv, DataInv
    <3>3. \A m : PaidAs(payment', m) = PaidBy(payment', m)
      BY <1>5, PaidSum
    <3> QED BY <1>1, <3>2, <3>3 DEF PaidIsPayments, PaidAs, Active
  <2>4. AllocatedWithinPayment'
    <3>1. ~(AllocatedOf(p) > 0)
      BY <1>2 DEF IInv, DataInv, AllocatedWithinPayment, Active
    <3>2. \A r \in Payments : AllocatedOf(r) > 0 =>
            /\ payment'[r] # None /\ ~payment'[r].void /\ AllocatedOf(r) <= payment'[r].amount
      BY <1>5, <3>1 DEF IInv, DataInv, AllocatedWithinPayment, Active
    <3> QED BY <1>1, <3>2 DEF AllocatedWithinPayment, AllocatedOf, Active
  <2>5. CoverWithinTotal' /\ JournalOnce'
    BY <1>1 DEF IInv, DataInv, CoverWithinTotal, JournalOnce, AllocatedTo
  <2> QED BY <2>1, <2>2, <2>3, <2>4, <2>5 DEF DataInv
<1>8. Running' = Running /\ AllApart'
  BY <1>1 DEF Running, IInv, AllApart
<1>9. ASSUME NEW u \in Running PROVE Good(tx[u], order, invoice, payment', allocated, journal)
  <2> DEFINE x == tx[u]
  <2>1. Good(x, order, invoice, payment, allocated, journal)
    BY DEF IInv, AllGood
  <2>2. \A m \in Invoices : invoice[m] # None => Moves(invoice[m], invoice[m])
    BY <1>2 DEF Moves, TypesOK, InvoiceRows
  <2>3. x.payment # p
    BY <1>2
  <2>4. \A m \in Invoices : To(allocated, m) \in Nat
    BY <1>5, ToNat
  <2>5. /\ x.kind = "create" => invoice[x.invoice] = None
        /\ x.kind = "pay" => x.payment \in Payments /\ payment[x.payment] = None
    BY BeingMade
  <2>6. Clean(invoice) \in Nat /\ order.total \in Nat
    BY <1>2, <1>5, CleanNat DEF TypesOK, OrderRows
  <2> HIDE DEF x
  <2>7. Keeps(x, order, order, invoice, invoice, payment, payment', allocated, allocated, journal, journal)
    BY <1>2, <1>5, <2>2, <2>3, <2>4, <2>5, <2>6 DEF Keeps
  <2>8. order \in OrderRows
    BY <1>2 DEF TypesOK
  <2>9. Good(x, order, invoice, payment', allocated, journal)
    BY <1>5, <2>1, <2>7, <2>8, GoodStays
  <2> QED BY <2>9 DEF x
<1>10. AllGood'
  BY <1>1, <1>8, <1>9 DEF IInv, AllGood
<1> QED BY <1>7, <1>8, <1>10 DEF IInv

-----------------------------------------------------------------------------
LEMMA StatementPreserves == ASSUME IInv, NEW t \in Txns, Statement(t) PROVE IInv'
BY ReadOrderPreserves, CheckOrderPreserves, WriteOrderPreserves, LockOrderPreserves,
   CheckOverrunPreserves, ReadInvoicePreserves, ClaimPreserves, FindJournalPreserves,
   LockInvoicePreserves, CheckCoverPreserves, WriteInvoicePreserves, LockPaymentPreserves,
   RemovePaymentPreserves, UnallocatePreserves, CommitKeeps, AbortPreserves
   DEF Statement, Fail

LEMMA NextPreserves == IInv /\ [Next]_vars => IInv'
<1> SUFFICES ASSUME IInv, [Next]_vars PROVE IInv'
  OBVIOUS
<1>1. ASSUME NEW t \in Txns, Request(t) PROVE IInv'
  BY <1>1, OrderRequestPreserves, ChangeInvoicePreserves, PayPreserves, AllocatePreserves, VoidPreserves
     DEF Request
<1>2. ASSUME NEW t \in Txns, Statement(t) PROVE IInv'
  BY <1>2, StatementPreserves
<1>3. CASE PayUnallocated
  BY <1>3, PayUnallocatedPreserves
<1>4. CASE UNCHANGED vars
  BY <1>4 DEF vars, IInv, DataInv, TypesOK, DraftsFresh, PaidIsPayments, CoverWithinTotal, Running,
     AllocatedWithinPayment, JournalOnce, AllApart, AllGood, AllocatedTo, AllocatedOf, Active
<1> QED BY <1>1, <1>2, <1>3, <1>4 DEF Next

(* The inductive invariant: the tables have their types, the four          *)
(* properties below hold, no row is held twice, and every transaction is   *)
(* right about the rows it has seen, holds or makes.                       *)
THEOREM Invariance == Spec => []IInv
BY InitEstablishes, NextPreserves, PTL DEF Spec

(* No payment of an invoice and no voiding of one is lost to another: the  *)
(* paid amount, which both write as a number computed from one read before *)
(* (by the rowVersion), is what the standing payments of the invoice come  *)
(* to.                                                                     *)
THEOREM PaymentsAreCounted == Spec => []PaidIsPayments
<1>1. IInv => PaidIsPayments
  BY DEF IInv, DataInv
<1> QED BY <1>1, Invariance, PTL

(* Payments of an invoice, and allocations of other payments to it, queue  *)
(* up for its row and never cover more than its total together.            *)
THEOREM InvoicesAreNotOvercovered == Spec => []CoverWithinTotal
<1>1. IInv => CoverWithinTotal
  BY DEF IInv, DataInv
<1> QED BY <1>1, Invariance, PTL

(* A payment is never allocated beyond its amount, whatever invoices the   *)
(* allocations are to, and nothing is allocated of a voided one, although  *)
(* it is voided and its allocations are removed in separate statements.    *)
THEOREM PaymentsAreNotOverallocated == Spec => []AllocatedWithinPayment
<1>1. IInv => AllocatedWithinPayment
  BY DEF IInv, DataInv
<1> QED BY <1>1, Invariance, PTL

(* The entry of an invoice is posted once and reversed once at most: of    *)
(* two approvals, or two cancellations, one fails on the version, and a    *)
(* status set by hand reopens neither.                                     *)
THEOREM EntriesAreOnce == Spec => []JournalOnce
<1>1. IInv => JournalOnce
  BY DEF IInv, DataInv
<1> QED BY <1>1, Invariance, PTL

-----------------------------------------------------------------------------
(* Approvals.                                                              *)

LEMMA OnlyCommitsPost ==
    ASSUME Next, \A t \in Txns : ~Commit(t) PROVE journal' = journal
<1>1. ASSUME NEW t \in Txns, Request(t) PROVE journal' = journal
  BY <1>1 DEF Request, CreateInvoice, ChangeOrder, ChangeInvoice, Pay, Allocate, Void, Begin, Data
<1>2. ASSUME NEW t \in Txns, Statement(t), ~Commit(t) PROVE journal' = journal
  BY <1>2 DEF Statement, ReadOrder, CheckOrder, WriteOrder, LockOrder, CheckOverrun, ReadInvoice,
     Claim, FindJournal, LockInvoice, CheckCover, WriteInvoice, LockPayment, RemovePayment,
     Unallocate, Fail, Abort, Becomes, Data
<1>3. CASE PayUnallocated
  BY <1>3 DEF PayUnallocated
<1> QED BY <1>1, <1>2, <1>3 DEF Next

LEMMA OnlyApprovalsPost ==
    ASSUME IInv, NEW t \in Txns, Commit(t), tx[t].kind # "approve", NEW i \in Invoices
    PROVE  ~(journal'[i].posted > journal[i].posted)
<1>1. TypesOK
  BY DEF IInv, DataInv
<1>2. journal[i].posted \in Nat
  BY <1>1 DEF TypesOK, JournalRows
<1>3. CASE tx[t].kind # "cancel"
  BY <1>1, <1>2, <1>3, JournalStays
<1>4. CASE tx[t].kind = "cancel"
  <2> DEFINE k == tx[t].invoice
  <2>1. k \in Invoices /\ k # None
    BY <1>4, CommitKnown, PayablesAssumption DEF Good, InvoiceKinds, InvoiceKnows
  <2>2. journal' = [journal EXCEPT ![k] = [posted |-> journal[k].posted + 0, reversed |-> journal[k].reversed + 1]]
    BY <1>4, <2>1 DEF Commit
  <2> HIDE DEF k
  <2>3. journal'[i].posted = journal[i].posted \/ journal'[i].posted = journal[i].posted + 0
    BY <1>1, <2>1, <2>2 DEF TypesOK
  <2> QED BY <1>2, <2>3
<1> QED BY <1>3, <1>4

(* The approval holds the order from before it adds up what is approved.   *)
LEMMA ApprovalFits ==
    ASSUME IInv, NEW t \in Txns, Commit(t), tx[t].kind = "approve"
    PROVE  Clean(invoice') <= order.total
<1> DEFINE x == tx[t]
           i == x.invoice
           row == invoice[i]
           new == InvoiceWritten(t, row)
<1>1. /\ TypesOK /\ InvoiceKnows(x, order, invoice, journal) /\ ApproveKnows(x, order, invoice)
      /\ x.step = "commit"
  BY CommitKnown DEF Good, InvoiceKinds, InvoiceKnows
<1>2. /\ i \in Invoices /\ i # None /\ row # None /\ row.status = "DRAFT"
      /\ x.saw.total = row.total /\ Clean(invoice) + x.saw.total <= order.total
  BY <1>1, PayablesAssumption DEF InvoiceKnows, ApproveKnows
<1>3. invoice \in InvoiceTable /\ order.total \in Nat
  BY <1>1 DEF TypesOK, InvoiceTable, OrderRows
<1>4. new \in InvoiceRows /\ Moves(row, new)
  BY InvoiceWrittenOK DEF InvoiceKinds
<1>5. invoice' = [invoice EXCEPT ![i] = new]
  BY <1>2 DEF Commit
<1> HIDE DEF new
<1>6. /\ invoice' \in InvoiceTable /\ invoice'[i] = new
      /\ \A m \in Invoices : m # i => invoice'[m] = invoice[m]
  BY <1>2, <1>3, <1>4, <1>5 DEF InvoiceTable
<1>7. /\ Clean(invoice) \in Nat
      /\ Clean(invoice') = Clean(invoice) + (Contribution(new) - Contribution(row))
  BY <1>2, <1>3, <1>6, CleanChanges
<1>8. row.total \in Nat
  BY <1>2, <1>3 DEF InvoiceTable, InvoiceRows
<1>9. Contribution(row) = 0 /\ Contribution(new) \in Nat /\ Contribution(new) <= row.total
  BY <1>2, <1>4, <1>8, ShareNat DEF Contribution, Counts, Standing, Moves
<1> HIDE DEF row
<1> QED BY <1>2, <1>3, <1>7, <1>8, <1>9

(* When an invoice is approved, the approved invoices are within the total *)
(* of the order: creations and approvals queue up for its row, an approval *)
(* reads the total again under the lock and adds up what others have       *)
(* approved; and of two approvals of one invoice one fails on its version. *)
THEOREM ApprovalsStayWithinOrder == Spec => ApprovedWithinOrder
<1> DEFINE A == (\E i \in Invoices : journal'[i].posted > journal[i].posted)
                    => InvoicedOf({i \in Live : ~invoice[i].overwritten})' <= order.total
<1>1. IInv /\ IInv' /\ [Next]_vars => [A]_vars
  <2> SUFFICES ASSUME IInv, IInv', Next, NEW i \in Invoices, journal'[i].posted > journal[i].posted
               PROVE  InvoicedOf({j \in Live : ~invoice[j].overwritten})' <= order.total
    OBVIOUS
  <2>1. journal' # journal
    <3>1. journal[i].posted \in Nat
      BY DEF IInv, DataInv, TypesOK, JournalRows
    <3> QED BY <3>1
  <2>2. PICK t \in Txns : Commit(t)
    BY <2>1, OnlyCommitsPost
  <2>3. tx[t].kind = "approve"
    BY <2>2, OnlyApprovalsPost
  <2>4. Clean(invoice') <= order.total
    BY <2>2, <2>3, ApprovalFits
  <2>5. invoice' \in InvoiceTable
    BY DEF IInv, DataInv, TypesOK, InvoiceTable
  <2> DEFINE rows == {j \in {k \in Invoices : invoice'[k] # None /\ ~invoice'[k].deleted} :
                            ~invoice'[j].overwritten}
  <2>6. InvoicedOf({j \in Live : ~invoice[j].overwritten})' =
            SumFunction([j \in {k \in rows : invoice'[k].status \in {"APPROVED", "PAID"}} |-> invoice'[j].total])
    BY DEF InvoicedOf, Live
  <2>7. \A j : j \in rows <=>
            j \in Invoices /\ invoice'[j] # None /\ ~invoice'[j].deleted /\ ~invoice'[j].overwritten
    OBVIOUS
  <2> HIDE DEF rows
  <2>8. SumFunction([j \in {k \in rows : invoice'[k].status \in {"APPROVED", "PAID"}} |-> invoice'[j].total])
            = Clean(invoice')
    BY <2>5, <2>7, CleanSum
  <2> QED BY <2>4, <2>6, <2>8
<1> QED BY <1>1, Invariance, PTL DEF Spec, ApprovedWithinOrder

-----------------------------------------------------------------------------
(* Second part: RefundAllocation, the refunds of one sale to the last step *)
(* of 0.0001, for any items, payment methods and sales. The last units of  *)
(* an item bring what is left of its amount, even if that is less than     *)
(* nothing. What a line gives back is rounded up by half a step at most,   *)
(* refund by refund, and as a refund takes one unit at least, an amount    *)
(* well above the scale is not used up before the last unit (Near,         *)
(* AboveScale). Nothing is said of payables and refunds together.          *)

(* What q of Q units have given back of an amount: rounding has added half *)
(* a step per refund at most, and there were no more refunds than units.   *)
Near(given, amount, q, qty) == 2 * qty * given <= 2 * amount * q + qty * q

LEMMA RoundedBound ==
    ASSUME NEW a \in Nat, NEW b \in Nat \ {0}
    PROVE  /\ Rounded(a, b) = (2 * a + b) \div (2 * b)
           /\ Rounded(a, b) \in Nat /\ 2 * b * Rounded(a, b) <= 2 * a + b
<1> DEFINE x == 2 * a + b  y == 2 * b  r == x \div y
<1>1. x \in Nat /\ y \in Nat \ {0}
  OBVIOUS
<1>2. r \in Int /\ x = y * r + (x % y) /\ x % y \in 0..(y - 1)
  <2> HIDE DEF x, y
  <2> QED BY <1>1
<1>3. y * r <= x /\ y * r > x - y
  <2> HIDE DEF x, y, r
  <2>1. y * r \in Int
    BY <1>1, <1>2
  <2> QED BY <1>1, <1>2, <2>1
<1>4. r >= 0
  <2> SUFFICES ASSUME r <= -1 PROVE FALSE
    BY <1>2
  <2>1. y * r <= -y
    <3> HIDE DEF x, y, r
    <3> QED BY <1>1, <1>2
  <2> QED BY <1>1, <1>3, <2>1
<1> QED BY <1>2, <1>3, <1>4 DEF Rounded

LEMMA RoundedInt == ASSUME NEW a \in Int, NEW b \in Nat \ {0} PROVE Rounded(a, b) \in Int
<1>1. CASE a >= 0
  BY <1>1, RoundedBound
<1>2. CASE a < 0
  <2> DEFINE c == -a
  <2>1. c \in Nat /\ Rounded(a, b) = -((2 * c + b) \div (2 * b))
    BY <1>2 DEF Rounded
  <2> HIDE DEF c
  <2>2. Rounded(c, b) = (2 * c + b) \div (2 * b) /\ Rounded(c, b) \in Nat
    BY <2>1, RoundedBound
  <2> QED BY <2>1, <2>2
<1> QED BY <1>1, <1>2

LEMMA AboveIsNat ==
    ASSUME NEW amount \in Int, NEW qty \in Nat \ {0}, AboveScale(amount, qty)
    PROVE  amount \in Nat
<1>1. qty * (qty - 1) >= 0
  OBVIOUS
<1> DEFINE x == qty * (qty - 1)
<1>2. x \in Int /\ x >= 0 /\ (amount = 0 \/ 2 * amount > x)
  BY <1>1 DEF AboveScale
<1> HIDE DEF x
<1> QED BY <1>2

(* A share keeps what is given back near the proportion, ...               *)
LEMMA NearStays ==
    ASSUME NEW amount \in Nat, NEW qty \in Nat \ {0}, NEW given \in Int, NEW b \in Nat,
           NEW q \in Nat \ {0}, Near(given, amount, b, qty)
    PROVE  Near(given + Rounded(amount * q, qty), amount, b + q, qty)
<1> DEFINE r == Rounded(amount * q, qty)
<1>1. r \in Nat /\ 2 * qty * r <= 2 * (amount * q) + qty
  <2>1. amount * q \in Nat
    OBVIOUS
  <2> QED BY <2>1, RoundedBound
<1>2. qty <= qty * q
  OBVIOUS
<1> HIDE DEF r
<1>3. 2 * qty * (given + r) = 2 * qty * given + 2 * qty * r
  BY <1>1
<1>4. 2 * amount * (b + q) + qty * (b + q) = (2 * amount * b + qty * b) + (2 * (amount * q) + qty * q)
  OBVIOUS
<1>5. 2 * qty * given <= 2 * amount * b + qty * b
  BY DEF Near
<1>6. 2 * qty * (given + r) <= 2 * amount * (b + q) + qty * (b + q)
  <2> DEFINE A == 2 * qty * given  B == 2 * qty * r  C == 2 * amount * b + qty * b
             D == 2 * (amount * q)  E == qty * q
  <2>1. A \in Int /\ B \in Int /\ C \in Int /\ D \in Int /\ E \in Int
    BY <1>1
  <2>2. A <= C /\ B <= D + qty /\ qty <= E
    BY <1>1, <1>2, <1>5
  <2> HIDE DEF A, B, C, D, E
  <2>3. A + B <= C + (D + E)
    BY <2>1, <2>2
  <2> QED BY <1>3, <1>4, <2>3 DEF A, B, C, D, E
<1> QED BY <1>6 DEF Near, r

(* ... so that as long as a unit is left so is some of the amount.         *)
LEMMA NearLeaves ==
    ASSUME NEW amount \in Nat, NEW qty \in Nat \ {0}, NEW given \in Int, NEW b \in 0..(qty - 1),
           AboveScale(amount, qty), Near(given, amount, b, qty),
           amount = 0 => given = 0
    PROVE  given <= amount
<1> SUFFICES ASSUME given >= amount + 1, 2 * amount > qty * (qty - 1) PROVE FALSE
  BY DEF AboveScale
<1>1. 2 * qty * given >= 2 * qty * amount + 2 * qty
  <2>1. 2 * qty * given >= 2 * qty * (amount + 1)
    OBVIOUS
  <2>2. 2 * qty * (amount + 1) = 2 * qty * amount + 2 * qty
    OBVIOUS
  <2> QED BY <2>1, <2>2
<1>2. 2 * qty * amount - 2 * amount * b >= 2 * amount
  <2>1. 2 * qty * amount - 2 * amount * b = 2 * amount * (qty - b)
    OBVIOUS
  <2>2. 2 * amount * (qty - b) >= 2 * amount
    <3> DEFINE c == qty - b
    <3>1. c \in Nat \ {0}
      OBVIOUS
    <3> HIDE DEF c
    <3> QED BY <3>1 DEF c
  <2> QED BY <2>1, <2>2
<1>3. qty * b <= qty * (qty - 1)
  OBVIOUS
<1>4. 2 * qty * given <= 2 * amount * b + qty * b
  BY DEF Near
<1> DEFINE A == 2 * qty * given  B == 2 * qty * amount  C == 2 * amount * b  D == qty * b  E == qty * (qty - 1)
<1>5. A \in Int /\ B \in Int /\ C \in Int /\ D \in Int /\ E \in Int
  OBVIOUS
<1>6. A >= B + 2 * qty /\ B - C >= 2 * amount /\ D <= E /\ A <= C + D /\ 2 * amount > E
  BY <1>1, <1>2, <1>3, <1>4
<1> HIDE DEF A, B, C, D, E
<1> QED BY <1>5, <1>6

LEMMA RoundedNothing == ASSUME NEW b \in Nat \ {0} PROVE Rounded(0, b) = 0
<1>1. Rounded(0, b) \in Nat /\ 2 * b * Rounded(0, b) <= b
  BY RoundedBound
<1> DEFINE r == Rounded(0, b)
<1>2. r >= 1 => 2 * b * r >= 2 * b
  BY <1>1
<1> HIDE DEF r
<1> QED BY <1>1, <1>2 DEF r

(* What lines have given back of an amount: all of it with the last unit,  *)
(* and not more on the way if it is well above the scale.                  *)
GivenAbove(given, amount, q, qty) ==
    /\ Near(given, amount, q, qty)
    /\ amount = 0 => given = 0
    /\ given <= amount

Given(given, amount, q, qty) ==
    /\ q = qty => given = amount
    /\ AboveScale(amount, qty) => GivenAbove(given, amount, q, qty)

LEMMA GivenStays ==
    ASSUME NEW amount \in Int, NEW qty \in Nat \ {0}, NEW given \in Int, NEW b \in 0..qty,
           NEW q \in 1..(qty - b), Given(given, amount, b, qty),
           NEW more, more = IF q = qty - b THEN amount - given ELSE Rounded(amount * q, qty)
    PROVE  more \in Int /\ Given(given + more, amount, b + q, qty)
<1>1. CASE q = qty - b
  <2>1. more \in Int /\ given + more = amount /\ b + q = qty
    BY <1>1
  <2>2. Near(amount, amount, qty, qty)
    BY DEF Near
  <2> QED BY <2>1, <2>2 DEF Given, GivenAbove
<1>2. CASE q # qty - b
  <2>1. amount * q \in Int /\ more = Rounded(amount * q, qty)
    BY <1>2
  <2>2. more \in Int
    BY <2>1, RoundedInt
  <2>3. b + q \in 0..(qty - 1) /\ given + more \in Int
    BY <1>2, <2>2
  <2>4. ASSUME AboveScale(amount, qty)
        PROVE  GivenAbove(given + more, amount, b + q, qty)
    <3>1. /\ Near(given, amount, b, qty) /\ (amount = 0 => given = 0)
          /\ amount \in Nat
      BY <2>4, AboveIsNat DEF Given, GivenAbove
    <3>2. Near(given + more, amount, b + q, qty)
      BY <2>1, <3>1, NearStays
    <3>3. amount = 0 => given + more = 0
      <4>1. amount = 0 => amount * q = 0
        OBVIOUS
      <4> QED BY <2>1, <3>1, <4>1, RoundedNothing
    <3>4. given + more <= amount
      BY <2>3, <2>4, <3>1, <3>2, <3>3, NearLeaves
    <3> QED BY <3>2, <3>3, <3>4 DEF GivenAbove
  <2> QED BY <2>2, <2>3, <2>4 DEF Given
<1> QED BY <1>1, <1>2

-----------------------------------------------------------------------------
Money == SumFunction([i \in Items |-> back[i].total])
CreditBack == SumFunction([m \in Credit |-> allocations[m]])

LineOK(i, b) ==
    LET fact == sale.items[i] IN
    /\ b \in [qty : 0..fact.qty, total : Int, cost : Int]
    /\ Given(b.total, fact.total, b.qty, fact.qty)
    /\ IF fact.fifo = None THEN b.cost = fact.costPrice * b.qty
                           ELSE Given(b.cost, fact.fifo, b.qty, fact.qty)

RowsOK ==
    /\ sale \in Sales /\ refunds \in Nat
    /\ status \in {"COMPLETED", "PARTIALLY_REFUNDED", "REFUNDED"}
    /\ DOMAIN back = Items /\ \A i \in Items : LineOK(i, back[i])
    /\ allocations \in [Methods -> Nat]
    /\ \A m \in Methods : allocations[m] <= Effective(sale)[m]

Untouched ==
    /\ issued = 0 /\ allocations = [m \in Methods |-> 0]
    /\ \A i \in Items : back[i] = [qty |-> 0, total |-> 0, cost |-> 0]

Allocating ==
    /\ SumFunction(Effective(sale)) = Total(sale)
    /\ SumFunction(allocations) = Money
    /\ issued = CreditBack
    /\ (\E m \in Credit : allocations[m] > 0) => sale.customer

AllBack == \A i \in Items : back[i].qty = sale.items[i].qty

RefundInv ==
    /\ RowsOK
    /\ status = "COMPLETED" => Untouched
    /\ status = "PARTIALLY_REFUNDED" => Allocating
    /\ status = "REFUNDED" =>
        /\ AllBack
        /\ \/ Allocating
           \/ /\ allocations = [m \in Methods |-> 0]
              /\ issued = IF sale.customer THEN CreditPaid(sale) ELSE 0

LEMMA Constants ==
    /\ IsFiniteSet(Items) /\ IsFiniteSet(Methods) /\ IsFiniteSet(Credit)
    /\ Cash \in Methods /\ Credit \subseteq Methods \ {Cash}
<1>1. Len(Order) \in Nat /\ IsFiniteSet(1..Len(Order))
  BY SalesAssumption, FS_Interval
<1>2. IsFiniteSet(Methods)
  <2> DEFINE f == [p \in 1..Len(Order) |-> Order[p]]
  <2>1. f \in Surjection(1..Len(Order), Methods)
    BY DEF Surjection, Methods
  <2> HIDE DEF f
  <2> QED BY <1>1, <2>1, FS_Surjection
<1> QED BY <1>2, SalesAssumption, FS_Subset

LEMMA SaleFacts ==
    ASSUME NEW s \in Sales
    PROVE  /\ \A i \in Items : s.items[i] \in ItemFacts
           /\ s.paid \in [Methods -> Nat] /\ s.customer \in BOOLEAN
           /\ Total(s) \in Int /\ SumFunction(s.paid) \in Nat /\ Change(s) \in Nat
           /\ Effective(s) \in [Methods -> Nat]
           /\ \A m \in Methods : Effective(s)[m] <= s.paid[m]
           /\ \A m \in Credit : Effective(s)[m] = s.paid[m]
<1>1. /\ \A i \in Items : s.items[i] \in ItemFacts
      /\ s.paid \in [Methods -> Nat] /\ s.customer \in BOOLEAN
      /\ SumFunction(s.paid) >= Total(s)
  BY SalesAssumption
<1>2. Total(s) \in Int
  <2> DEFINE f == [i \in Items |-> s.items[i].total]
  <2>1. \A i \in Items : f[i] \in Int
    BY <1>1 DEF ItemFacts
  <2>2. SumFunctionOnSet(f, Items) \in Int
    <3> HIDE DEF f
    <3> QED BY <2>1, Constants, SumInt
  <2> QED BY <2>2 DEF Total, SumFunction
<1>3. SumFunction(s.paid) \in Nat
  <2>1. SumFunctionOnSet(s.paid, Methods) \in Nat
    BY <1>1, Constants, SumNat
  <2> QED BY <1>1, <2>1 DEF SumFunction
<1>4. Change(s) \in Nat
  BY <1>1, <1>2, <1>3 DEF Change
<1>5. \A m \in Methods : Effective(s)[m] \in Nat /\ Effective(s)[m] <= s.paid[m]
                         /\ (m # Cash => Effective(s)[m] = s.paid[m])
  BY <1>1, <1>4 DEF Effective
<1>6. Effective(s) \in [Methods -> Nat]
  BY <1>5 DEF Effective
<1> QED BY <1>1, <1>2, <1>3, <1>4, <1>5, <1>6, Constants

LEMMA RefundInitEstablishes == RefundsInit => RefundInv
<1> SUFFICES ASSUME RefundsInit PROVE RefundInv
  OBVIOUS
<1>1. sale \in Sales
  BY DEF RefundsInit
<1>2. \A i \in Items : LineOK(i, [qty |-> 0, total |-> 0, cost |-> 0])
  <2> SUFFICES ASSUME NEW i \in Items PROVE LineOK(i, [qty |-> 0, total |-> 0, cost |-> 0])
    OBVIOUS
  <2>1. sale.items[i] \in ItemFacts
    BY <1>1, SaleFacts
  <2>2. ASSUME NEW amount \in Int, NEW qty \in Nat \ {0} PROVE Given(0, amount, 0, qty)
    <3>1. Near(0, amount, 0, qty)
      BY DEF Near
    <3> QED BY <3>1, AboveIsNat DEF Given, GivenAbove
  <2> QED BY <2>1, <2>2 DEF LineOK, ItemFacts
<1>3. \A m \in Methods : 0 <= Effective(sale)[m]
  BY <1>1, SaleFacts
<1> QED BY <1>1, <1>2, <1>3 DEF RefundsInit, RefundInv, RowsOK, Untouched

(* The lines of a refund.                                                  *)
LEMMA LinesStay ==
    ASSUME RefundInv, NEW q \in Requests, Refund(q)
    PROVE  /\ DOMAIN back' = Items
           /\ \A i \in Items : LineOK(i, back'[i])
           /\ \A i \in Named(q) : LineTotal(i, q[i]) \in Int
           /\ \A i \in Items : back'[i].total = back[i].total + (IF i \in Named(q) THEN LineTotal(i, q[i]) ELSE 0)
           /\ Complete(q) => \A i \in Items : back'[i].qty = sale.items[i].qty
<1>1. /\ back' = [i \in Items |->
                  IF q[i] = 0 THEN back[i]
                  ELSE [qty   |-> back[i].qty + q[i],
                        total |-> back[i].total + LineTotal(i, q[i]),
                        cost  |-> back[i].cost + LineCost(i, q[i])]]
      /\ sale \in Sales
      /\ \A i \in Items : LineOK(i, back[i])
  BY DEF Refund, RefundInv, RowsOK
<1>2. \A i \in Items : q[i] \in Nat /\ q[i] <= Left(i) /\ sale.items[i] \in ItemFacts
                       /\ back[i] \in [qty : 0..sale.items[i].qty, total : Int, cost : Int]
  <2> DEFINE most == Max({sale.items[i].qty : i \in Items})
  <2>1. q \in [Items -> 0..most] /\ \A i \in Items : q[i] <= Left(i)
    BY DEF Requests
  <2> HIDE DEF most
  <2>2. \A i \in Items : q[i] \in Nat /\ q[i] <= Left(i)
    BY <2>1
  <2> QED BY <1>1, <2>2, SaleFacts DEF LineOK
<1>3. ASSUME NEW i \in Items, q[i] # 0
      PROVE  /\ LineTotal(i, q[i]) \in Int
             /\ LineOK(i, [qty   |-> back[i].qty + q[i],
                           total |-> back[i].total + LineTotal(i, q[i]),
                           cost  |-> back[i].cost + LineCost(i, q[i])])
  <2> DEFINE fact == sale.items[i]  b == back[i]  n == q[i]
  <2>1. /\ fact.qty \in Nat \ {0} /\ fact.total \in Int /\ fact.costPrice \in Nat
        /\ fact.fifo # None => fact.fifo \in Nat
        /\ b.qty \in 0..fact.qty /\ b.total \in Int /\ b.cost \in Int
    BY <1>2 DEF ItemFacts
  <2>2. n \in 1..(fact.qty - b.qty) /\ Left(i) = fact.qty - b.qty
    BY <1>2, <1>3, <2>1 DEF Left
  <2>3. /\ Given(b.total, fact.total, b.qty, fact.qty)
        /\ fact.fifo = None => b.cost = fact.costPrice * b.qty
        /\ fact.fifo # None => Given(b.cost, fact.fifo, b.qty, fact.qty)
    BY <1>1 DEF LineOK
  <2>4. /\ LineTotal(i, n) = IF n = fact.qty - b.qty THEN fact.total - b.total
                                                     ELSE Rounded(fact.total * n, fact.qty)
        /\ fact.fifo = None => LineCost(i, n) = fact.costPrice * n
        /\ fact.fifo # None => LineCost(i, n) = IF n = fact.qty - b.qty THEN fact.fifo - b.cost
                                                ELSE Rounded(fact.fifo * n, fact.qty)
    BY <2>2 DEF LineTotal, LineCost
  <2> DEFINE t == LineTotal(i, n)  c == LineCost(i, n)
  <2>5. t \in Int /\ Given(b.total + t, fact.total, b.qty + n, fact.qty)
    <3> HIDE DEF fact, b, n, t
    <3> QED BY <2>1, <2>2, <2>3, <2>4, GivenStays DEF t
  <2>6. fact.fifo # None => c \in Int /\ Given(b.cost + c, fact.fifo, b.qty + n, fact.qty)
    <3> HIDE DEF fact, b, n, c
    <3> SUFFICES ASSUME fact.fifo # None
                 PROVE  c \in Int /\ Given(b.cost + c, fact.fifo, b.qty + n, fact.qty)
      OBVIOUS
    <3>1. /\ fact.fifo \in Int /\ Given(b.cost, fact.fifo, b.qty, fact.qty)
          /\ c = IF n = fact.qty - b.qty THEN fact.fifo - b.cost
                                         ELSE Rounded(fact.fifo * n, fact.qty)
      BY <2>1, <2>3, <2>4 DEF c
    <3> QED BY <2>1, <2>2, <3>1, GivenStays
  <2>7. fact.fifo = None => c \in Int /\ b.cost + c = fact.costPrice * (b.qty + n)
    <3> HIDE DEF fact, b, n, c
    <3> SUFFICES ASSUME fact.fifo = None
                 PROVE  c \in Int /\ b.cost + c = fact.costPrice * (b.qty + n)
      OBVIOUS
    <3>1. c = fact.costPrice * n /\ b.cost = fact.costPrice * b.qty
      BY <2>3, <2>4 DEF c
    <3>2. n \in Nat /\ b.qty \in Nat
      BY <2>1, <2>2
    <3> QED BY <2>1, <3>1, <3>2
  <2>8. b.qty + n \in 0..fact.qty
    BY <2>1, <2>2
  <2>9. [qty |-> b.qty + n, total |-> b.total + t, cost |-> b.cost + c]
            \in [qty : 0..fact.qty, total : Int, cost : Int]
    <3> HIDE DEF fact, b, n, c, t
    <3> QED BY <2>1, <2>5, <2>6, <2>7, <2>8
  <2> HIDE DEF t, c
  <2>10. LineOK(i, [qty |-> b.qty + n, total |-> b.total + t, cost |-> b.cost + c])
    BY <2>5, <2>6, <2>7, <2>9 DEF LineOK
  <2> QED BY <2>5, <2>10 DEF t, c
<1>4. \A i \in Items : LineOK(i, back'[i])
  BY <1>1, <1>3
<1>5. \A i \in Named(q) : i \in Items /\ q[i] # 0 /\ LineTotal(i, q[i]) \in Int
  <2> SUFFICES ASSUME NEW i \in Named(q)
               PROVE  i \in Items /\ q[i] # 0 /\ LineTotal(i, q[i]) \in Int
    OBVIOUS
  <2>1. i \in Items /\ q[i] # 0
    BY <1>2 DEF Named
  <2> QED BY <1>3, <2>1
<1>6. \A i \in Items : back'[i].total = back[i].total + (IF i \in Named(q) THEN LineTotal(i, q[i]) ELSE 0)
  <2> SUFFICES ASSUME NEW i \in Items
               PROVE back'[i].total = back[i].total + (IF i \in Named(q) THEN LineTotal(i, q[i]) ELSE 0)
    OBVIOUS
  <2>1. i \in Named(q) <=> q[i] # 0
    BY <1>2 DEF Named
  <2> QED BY <1>1, <1>2, <2>1
<1>7. ASSUME Complete(q), NEW i \in Items PROVE back'[i].qty = sale.items[i].qty
  <2>1. q[i] = sale.items[i].qty - back[i].qty
    BY <1>7 DEF Complete, AllRemaining, Left
  <2>2. back'[i].qty = back[i].qty + q[i]
    BY <1>1, <1>2
  <2> QED BY <1>2, <2>1, <2>2 DEF ItemFacts
<1> QED BY <1>1, <1>4, <1>5, <1>6, <1>7

(* What the payment methods give back of a refund.                         *)
LEMMA SplitTyped ==
    ASSUME RowsOK, NEW total \in Nat, Total(sale) > 0
    PROVE  Split(total) \in [Methods -> Nat]
<1>1. /\ Effective(sale) \in [Methods -> Nat] /\ Total(sale) \in Nat \ {0}
      /\ Len(Order) \in Nat
  BY SaleFacts, SalesAssumption DEF RowsOK
<1>2. \A m \in Methods : Share(total)[m] \in Nat
  <2> SUFFICES ASSUME NEW m \in Methods PROVE Share(total)[m] \in Nat
    OBVIOUS
  <2> DEFINE x == total * Effective(sale)[m]  y == Total(sale)  r == x \div y
  <2>1. x \in Nat /\ y \in Nat \ {0}
    <3>1. Effective(sale)[m] \in Nat
      BY <1>1
    <3> QED BY <1>1, <3>1
  <2>2. r \in Nat
    <3> HIDE DEF x, y
    <3>1. r \in Int /\ x = y * r + (x % y) /\ x % y \in 0..(y - 1)
      BY <2>1
    <3>2. r <= -1 => y * r <= -y
      BY <2>1, <3>1
    <3> HIDE DEF r
    <3>3. y * r \in Int
      BY <2>1, <3>1
    <3> QED BY <2>1, <3>1, <3>2, <3>3
  <2> QED BY <2>2 DEF Share
<1>3. IsFiniteSet(Dealt(total))
  <2> DEFINE rest == total - SumFunction(Share(total))
  <2>1. SumFunction(Share(total)) \in Nat
    <3>1. SumFunctionOnSet(Share(total), Methods) \in Nat
      BY <1>2, Constants, SumNat
    <3> QED BY <3>1 DEF SumFunction, Share
  <2>2. rest \in Int
    BY <2>1
  <2> HIDE DEF rest
  <2>3. IsFiniteSet((1..rest) \X (1..Len(Order)))
    <3>1. IsFiniteSet(1..rest) /\ IsFiniteSet(1..Len(Order))
      BY <1>1, <2>2, FS_Interval
    <3> QED BY <3>1, FS_Product
  <2>4. Dealt(total) \subseteq (1..rest) \X (1..Len(Order))
    BY DEF Dealt, Slots, rest
  <2> QED BY <2>3, <2>4, FS_Subset
<1>4. \A m \in Methods : Cardinality({x \in Dealt(total) : Order[x[2]] = m}) \in Nat
  <2> SUFFICES ASSUME NEW m \in Methods
               PROVE  Cardinality({x \in Dealt(total) : Order[x[2]] = m}) \in Nat
    OBVIOUS
  <2>1. IsFiniteSet({x \in Dealt(total) : Order[x[2]] = m})
    BY <1>3, FS_Subset
  <2> QED BY <2>1, FS_CardinalityType
<1> QED BY <1>2, <1>4 DEF Split

LEMMA SumOf ==
    ASSUME NEW f, NEW S, DOMAIN f = S
    PROVE  SumFunction(f) = SumFunctionOnSet(f, S)
BY DEF SumFunction

(* The money the lines give back is the money of the refund.               *)
LEMMA MoneyGrows ==
    ASSUME RefundInv, NEW q \in Requests, Refund(q)
    PROVE  /\ Money \in Int /\ RefundTotal(q) \in Int
           /\ Money' = Money + RefundTotal(q)
<1> DEFINE old == [i \in Items |-> back[i].total]
           new == [i \in Items |-> back'[i].total]
           line == [i \in Named(q) |-> LineTotal(i, q[i])]
           more == [i \in Items |-> IF i \in Named(q) THEN LineTotal(i, q[i]) ELSE 0]
<1>1. Named(q) \in SUBSET Items /\ IsFiniteSet(Items)
  BY Constants DEF Named
<1>2. \A i \in Items : old[i] \in Int
  BY DEF RefundInv, RowsOK, LineOK
<1>3. \A i \in Named(q) : line[i] \in Int /\ more[i] = line[i]
  BY <1>1, LinesStay
<1>4. \A i \in Items \ Named(q) : more[i] = 0
  OBVIOUS
<1>5. \A i \in Items : old[i] \in Int /\ more[i] \in Int /\ new[i] = old[i] + more[i]
  BY <1>2, <1>3, LinesStay
<1>6. /\ SumFunction(old) = SumFunctionOnSet(old, Items)
      /\ SumFunction(new) = SumFunctionOnSet(new, Items)
      /\ SumFunction(line) = SumFunctionOnSet(line, Named(q))
  BY DEF SumFunction
<1>7. Money = SumFunction(old) /\ Money' = SumFunction(new) /\ RefundTotal(q) = SumFunction(line)
  BY DEF Money, RefundTotal
<1> HIDE DEF old, new, line, more
<1>8. SumFunctionOnSet(new, Items) = SumFunctionOnSet(old, Items) + SumFunctionOnSet(more, Items)
  BY <1>1, <1>5, SumPlus
<1>9. SumFunctionOnSet(more, Items) = SumFunctionOnSet(line, Named(q))
  BY <1>1, <1>3, <1>4, SumRestrict
<1>10. SumFunctionOnSet(old, Items) \in Int /\ SumFunctionOnSet(line, Named(q)) \in Int
  BY <1>1, <1>2, <1>3, SumInt, FS_Subset
<1> QED BY <1>6, <1>7, <1>8, <1>9, <1>10

LEMMA RefundPreserves ==
    ASSUME RefundInv, NEW q \in Requests, Refund(q)
    PROVE  RefundInv'
<1>1. /\ sale \in Sales /\ sale' = sale /\ refunds' \in Nat
      /\ status \in {"COMPLETED", "PARTIALLY_REFUNDED"}
      /\ allocations \in [Methods -> Nat]
      /\ \A m \in Methods : allocations[m] <= Effective(sale)[m]
      /\ Effective(sale) \in [Methods -> Nat]
  BY SaleFacts DEF Refund, Accepted, RefundInv, RowsOK
<1>2. /\ DOMAIN back' = Items
      /\ \A i \in Items : LineOK(i, back'[i])
      /\ Complete(q) => AllBack'
  BY <1>1, LinesStay DEF AllBack
<1>3. status' = IF Complete(q) THEN "REFUNDED" ELSE "PARTIALLY_REFUNDED"
  BY DEF Refund
<1>4. /\ SumFunction(allocations) = Money /\ issued = CreditBack
      /\ (\E m \in Credit : allocations[m] > 0) => sale.customer
  <2>1. CASE status = "PARTIALLY_REFUNDED"
    BY <2>1 DEF RefundInv, Allocating
  <2>2. CASE status = "COMPLETED"
    <3>1. Untouched
      BY <2>2 DEF RefundInv
    <3>2. \A m \in Methods : allocations[m] = 0
      BY <3>1 DEF Untouched
    <3>3. SumFunction(allocations) = 0
      BY <1>1, <3>2, Constants, SumNothing, SumOf
    <3>4. Money = 0
      <4> DEFINE f == [i \in Items |-> back[i].total]
      <4>1. \A i \in Items : f[i] = 0
        BY <3>1 DEF Untouched
      <4> HIDE DEF f
      <4>2. SumFunctionOnSet(f, Items) = 0
        BY <4>1, Constants, SumNothing
      <4> QED BY <4>2 DEF f, Money, SumFunction
    <3>5. CreditBack = 0
      <4> DEFINE f == [m \in Credit |-> allocations[m]]
      <4>1. \A m \in Credit : f[m] = 0
        BY <3>2, Constants
      <4> HIDE DEF f
      <4>2. SumFunctionOnSet(f, Credit) = 0
        BY <4>1, Constants, SumNothing
      <4> QED BY <4>2 DEF f, CreditBack, SumFunction
    <3>6. issued = 0 /\ \A m \in Credit : ~(allocations[m] > 0)
      BY <3>1, <3>2, Constants DEF Untouched
    <3> QED BY <3>3, <3>4, <3>5, <3>6
  <2> QED BY <1>1, <2>1, <2>2
<1>5. CASE SingleShot(q)
  <2>1. Untouched /\ allocations' = allocations /\ Complete(q)
        /\ issued' = issued + (IF sale.customer THEN CreditPaid(sale) ELSE 0)
    BY <1>5 DEF RefundInv, SingleShot, Refund
  <2>2. CreditPaid(sale) \in Nat
    <3> DEFINE f == [m \in Credit |-> sale.paid[m]]
    <3>1. \A m \in Credit : f[m] \in Nat
      BY <1>1, SaleFacts, Constants
    <3> HIDE DEF f
    <3>2. SumFunctionOnSet(f, Credit) \in Nat
      BY <3>1, Constants, SumNat
    <3> QED BY <3>2 DEF f, CreditPaid, SumFunction
  <2>3. issued' = IF sale.customer THEN CreditPaid(sale) ELSE 0
    BY <2>1, <2>2 DEF Untouched
  <2>4. RowsOK'
    BY <1>1, <1>2, <1>3, <2>1 DEF RowsOK, LineOK
  <2> QED BY <1>1, <1>2, <1>3, <2>1, <2>3, <2>4 DEF RefundInv, Untouched
<1>6. CASE ~SingleShot(q)
  <2> DEFINE total == RefundTotal(q)  split == Split(total)
  <2>1. /\ CanAllocate(total)
        /\ issued' = issued + Credited(split)
        /\ allocations' = [m \in Methods |-> allocations[m] + split[m]]
    BY <1>6 DEF Refund, Accepted
  <2>2. total \in Nat /\ Money \in Int /\ Money' = Money + total
    BY <2>1, MoneyGrows DEF CanAllocate
  <2> HIDE DEF total
  <2>3. split \in [Methods -> Nat]
    BY <2>1, <2>2, SplitTyped DEF RefundInv, CanAllocate
  <2>4. /\ SumFunction(Effective(sale)) = Total(sale)
        /\ SumFunction(split) = total
        /\ Fits(split)
        /\ (\E m \in Credit : split[m] > 0) => sale.customer
    BY <2>1 DEF CanAllocate
  <2> HIDE DEF split
  <2>5. allocations' \in [Methods -> Nat] /\ \A m \in Methods : allocations'[m] = allocations[m] + split[m]
    BY <1>1, <2>1, <2>3
  <2>6. \A m \in Methods : allocations'[m] <= Effective(sale)[m]
    BY <1>1, <2>3, <2>4, <2>5 DEF Fits
  <2>7. SumFunction(allocations') = SumFunction(allocations) + SumFunction(split)
    <3> DEFINE f == allocations  g == split  h == allocations'
    <3>1. DOMAIN f = Methods /\ DOMAIN g = Methods /\ DOMAIN h = Methods
          /\ \A m \in Methods : f[m] \in Int /\ g[m] \in Int /\ h[m] = f[m] + g[m]
      BY <1>1, <2>3, <2>5
    <3> HIDE DEF f, g, h
    <3>2. SumFunctionOnSet(h, Methods) = SumFunctionOnSet(f, Methods) + SumFunctionOnSet(g, Methods)
      BY <3>1, Constants, SumPlus
    <3>3. SumFunction(h) = SumFunction(f) + SumFunction(g)
      BY <3>1, <3>2 DEF SumFunction
    <3> QED BY <3>3 DEF f, g, h
  <2>8. issued' = CreditBack'
    <3> DEFINE f == [m \in Credit |-> allocations[m]]
               g == [m \in Credit |-> split[m]]
               h == [m \in Credit |-> allocations'[m]]
    <3>1. \A m \in Credit : f[m] \in Int /\ g[m] \in Int /\ h[m] = f[m] + g[m]
      BY <1>1, <2>3, <2>5, Constants
    <3>2. CreditBack = SumFunctionOnSet(f, Credit) /\ Credited(split) = SumFunctionOnSet(g, Credit)
          /\ CreditBack' = SumFunctionOnSet(h, Credit)
      BY DEF CreditBack, Credited, SumFunction
    <3> HIDE DEF f, g, h
    <3>3. SumFunctionOnSet(h, Credit) = SumFunctionOnSet(f, Credit) + SumFunctionOnSet(g, Credit)
      BY <3>1, Constants, SumPlus
    <3> QED BY <1>4, <2>1, <3>2, <3>3 DEF split
  <2>9. (\E m \in Credit : allocations'[m] > 0) => sale.customer
    <3> SUFFICES ASSUME NEW m \in Credit, allocations'[m] > 0 PROVE sale.customer
      OBVIOUS
    <3>1. m \in Methods /\ allocations[m] \in Nat /\ split[m] \in Nat
      BY <1>1, <2>3, Constants
    <3>2. allocations[m] > 0 \/ split[m] > 0
      BY <2>5, <3>1
    <3> QED BY <1>4, <2>4, <3>2
  <2>10. Allocating'
    BY <1>1, <1>4, <2>2, <2>4, <2>7, <2>8, <2>9 DEF Allocating, Effective, Total, Change
  <2>11. RowsOK'
    BY <1>1, <1>2, <1>3, <2>5, <2>6 DEF RowsOK, LineOK, Effective, Total, Change
  <2> QED BY <1>2, <1>3, <2>10, <2>11 DEF RefundInv
<1> QED BY <1>5, <1>6

(* What the lines of a sale have given back, what the methods have and     *)
(* what credit was issued stay in step with one another, in any sequence   *)
(* of partial refunds and a full one.                                      *)
THEOREM RefundInvariance == RefundsSpec => []RefundInv
<1>1. RefundInv /\ [RefundsNext]_refundsVars => RefundInv'
  <2> SUFFICES ASSUME RefundInv, [RefundsNext]_refundsVars PROVE RefundInv'
    OBVIOUS
  <2>1. CASE RefundsNext
    BY <2>1, RefundPreserves DEF RefundsNext
  <2>2. CASE UNCHANGED refundsVars
    BY <2>2 DEF refundsVars, RefundInv, RowsOK, LineOK, Untouched, Allocating, AllBack,
       Money, CreditBack, Effective, Total, Change, CreditPaid
  <2> QED BY <2>1, <2>2
<1> QED BY <1>1, RefundInitEstablishes, PTL DEF RefundsSpec

(* For any sale and any sequence of refunds: the lines of an item have     *)
(* given back exactly its price and its FIFO cost once its whole quantity  *)
(* is back; and before that no more than these, if they are well above the *)
(* scale (buildRefundLines, computeRefundFifoCost).                        *)
THEOREM ItemsConserved == RefundsSpec => []LinesConserved
<1>1. RefundInv => LinesConserved
  <2> SUFFICES ASSUME RefundInv, NEW i \in Items
               PROVE LET fact == sale.items[i]
                         cost == IF fact.fifo = None THEN fact.costPrice * fact.qty ELSE fact.fifo
                     IN  /\ back[i].qty = fact.qty => /\ back[i].total = fact.total
                                                      /\ back[i].cost = cost
                         /\ AboveScale(fact.total, fact.qty) => back[i].total <= fact.total
                         /\ fact.fifo = None \/ AboveScale(fact.fifo, fact.qty) =>
                                back[i].cost <= cost
    BY DEF LinesConserved
  <2> DEFINE fact == sale.items[i]
  <2>1. LineOK(i, back[i]) /\ fact \in ItemFacts
    BY SaleFacts DEF RefundInv, RowsOK
  <2>2. /\ AboveScale(fact.total, fact.qty) => back[i].total <= fact.total
        /\ back[i].qty = fact.qty => back[i].total = fact.total
    BY <2>1 DEF LineOK, Given, GivenAbove
  <2>3. CASE fact.fifo # None
    BY <2>1, <2>2, <2>3 DEF LineOK, Given, GivenAbove
  <2>4. CASE fact.fifo = None
    <3>1. back[i].cost = fact.costPrice * back[i].qty /\ back[i].qty \in 0..fact.qty
          /\ fact.costPrice \in Nat /\ fact.qty \in Nat
      BY <2>1, <2>4 DEF LineOK, ItemFacts
    <3>2. back[i].cost <= fact.costPrice * fact.qty
      <4> DEFINE c == fact.costPrice  b == back[i].qty  n == fact.qty
      <4>1. c \in Nat /\ n \in Nat /\ b \in Nat /\ b <= n
        BY <3>1
      <4> HIDE DEF c, b, n
      <4>2. c * b <= c * n
        BY <4>1
      <4> QED BY <3>1, <4>2 DEF c, b, n
    <3> QED BY <2>2, <2>4, <3>1, <3>2
  <2> QED BY <2>3, <2>4
<1> QED BY <1>1, RefundInvariance, PTL

(* A sale that is all back has given back its total.                       *)
LEMMA AllMoneyBack == ASSUME RowsOK, AllBack PROVE Money = Total(sale)
<1> DEFINE f == [i \in Items |-> back[i].total]
           g == [i \in Items |-> sale.items[i].total]
<1>1. \A i \in Items : f[i] = g[i]
  BY DEF RowsOK, AllBack, LineOK, Given
<1>2. Money = SumFunctionOnSet(f, Items) /\ Total(sale) = SumFunctionOnSet(g, Items)
  BY DEF Money, Total, SumFunction
<1> HIDE DEF f, g
<1> QED BY <1>1, <1>2, Constants, SumFrame

(* Nothing that adds up to the whole is short of it anywhere.              *)
LEMMA FullyAllocated ==
    ASSUME RowsOK, SumFunction(allocations) = SumFunction(Effective(sale))
    PROVE  allocations = Effective(sale)
<1> DEFINE e == Effective(sale)
           d == [m \in Methods |-> e[m] - allocations[m]]
<1>1. /\ e \in [Methods -> Nat] /\ allocations \in [Methods -> Nat]
      /\ \A m \in Methods : allocations[m] <= e[m]
  BY SaleFacts DEF RowsOK
<1>2. SumFunctionOnSet(allocations, Methods) = SumFunctionOnSet(e, Methods)
  BY <1>1 DEF SumFunction
<1> HIDE DEF e
<1>3. \A m \in Methods : d[m] \in Nat /\ e[m] = allocations[m] + d[m]
  BY <1>1
<1> HIDE DEF d
<1>4. SumFunctionOnSet(e, Methods) = SumFunctionOnSet(allocations, Methods) + SumFunctionOnSet(d, Methods)
  <2>1. \A m \in Methods : allocations[m] \in Int /\ d[m] \in Int /\ e[m] = allocations[m] + d[m]
    BY <1>1, <1>3
  <2> QED BY <2>1, Constants, SumPlus
<1>5. SumFunctionOnSet(d, Methods) \in Nat /\ SumFunctionOnSet(allocations, Methods) \in Nat
  BY <1>1, <1>3, Constants, SumNat
<1>6. \A m \in Methods : d[m] = 0
  BY <1>2, <1>3, <1>4, <1>5, Constants, SumZero
<1>7. ASSUME NEW m \in Methods PROVE allocations[m] = e[m]
  <2>1. allocations[m] \in Nat /\ e[m] = allocations[m] + d[m] /\ d[m] = 0
    BY <1>1, <1>3, <1>6
  <2> QED BY <2>1
<1> QED BY <1>1, <1>7 DEF e

(* For any sale: no payment method gives back more than it took, the       *)
(* allocations of a refund add up to its money, and when all is back every *)
(* method has given back what it took, although each share was rounded     *)
(* down (RefundPaymentAllocationService).                                  *)
THEOREM MethodsAreRestored == RefundsSpec => []MethodsRestored
<1>1. RefundInv => MethodsRestored
  <2> SUFFICES ASSUME RefundInv PROVE MethodsRestored
    OBVIOUS
  <2>1. \A m \in Methods : allocations[m] <= Effective(sale)[m]
    BY DEF RefundInv, RowsOK
  <2>2. status = "PARTIALLY_REFUNDED" => SumFunction(allocations) = Money
    BY DEF RefundInv, Allocating
  <2>3. ASSUME status = "REFUNDED"
        PROVE  /\ Money = Total(sale)
               /\ SumFunction(allocations) = 0 \/ allocations = Effective(sale)
    <3>1. Money = Total(sale)
      BY <2>3, AllMoneyBack DEF RefundInv
    <3>2. CASE Allocating
      BY <3>1, <3>2, FullyAllocated DEF RefundInv, Allocating
    <3>3. CASE allocations = [m \in Methods |-> 0]
      <4>1. DOMAIN allocations = Methods /\ \A m \in Methods : allocations[m] = 0
        BY <3>3
      <4>2. SumFunctionOnSet(allocations, Methods) = 0
        BY <4>1, Constants, SumNothing
      <4> QED BY <3>1, <4>1, <4>2 DEF SumFunction
    <3> QED BY <2>3, <3>2, <3>3 DEF RefundInv
  <2> QED BY <2>1, <2>2, <2>3 DEF MethodsRestored, Money
<1> QED BY <1>1, RefundInvariance, PTL

(* For any sale: the credit it was paid with is issued to its customer     *)
(* once, whole when all is back, by rows of partial refunds or by a full   *)
(* one.                                                                    *)
THEOREM CreditIsRestored == RefundsSpec => []CreditRestored
<1>1. RefundInv => CreditRestored
  <2> SUFFICES ASSUME RefundInv PROVE CreditRestored
    OBVIOUS
  <2> DEFINE paid == [m \in Credit |-> sale.paid[m]]
             given == [m \in Credit |-> allocations[m]]
  <2>1. \A m \in Credit : /\ paid[m] \in Nat /\ given[m] \in Nat /\ given[m] <= paid[m]
                          /\ paid[m] = Effective(sale)[m] /\ given[m] = allocations[m]
    <3>1. sale \in Sales /\ allocations \in [Methods -> Nat]
          /\ \A m \in Methods : allocations[m] <= Effective(sale)[m]
      BY DEF RefundInv, RowsOK
    <3> QED BY <3>1, SaleFacts, Constants
  <2>2. /\ CreditPaid(sale) = SumFunctionOnSet(paid, Credit)
        /\ CreditBack = SumFunctionOnSet(given, Credit)
    BY DEF CreditPaid, CreditBack, SumFunction
  <2> HIDE DEF paid, given
  <2>3. CreditPaid(sale) \in Nat /\ CreditBack \in Nat /\ CreditBack <= CreditPaid(sale)
    <3>1. \A m \in Credit : given[m] \in Int /\ paid[m] \in Int /\ given[m] <= paid[m]
      BY <2>1
    <3> QED BY <2>1, <2>2, <3>1, Constants, SumNat, SumMonotone
  <2>4. CASE Allocating
    <3>1. status = "REFUNDED" => CreditBack = CreditPaid(sale)
      <4> SUFFICES ASSUME status = "REFUNDED" PROVE CreditBack = CreditPaid(sale)
        OBVIOUS
      <4>1. allocations = Effective(sale)
        BY <2>4, AllMoneyBack, FullyAllocated DEF RefundInv, Allocating
      <4>2. \A m \in Credit : given[m] = paid[m]
        BY <2>1, <4>1
      <4> QED BY <2>2, <4>2, Constants, SumFrame
    <3> QED BY <2>3, <2>4, <3>1 DEF CreditRestored, Allocating
  <2>5. CASE status = "COMPLETED"
    BY <2>3, <2>5 DEF RefundInv, Untouched, CreditRestored
  <2>6. CASE status = "REFUNDED" /\ issued = IF sale.customer THEN CreditPaid(sale) ELSE 0
    BY <2>3, <2>6 DEF CreditRestored
  <2> QED BY <2>4, <2>5, <2>6 DEF RefundInv, RowsOK
<1> QED BY <1>1, RefundInvariance, PTL
=============================================================================

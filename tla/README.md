# A TLA+ model of StockFlow

StockFlow is a point-of-sale and ERP system: a NestJS backend on PostgreSQL
(`backend/`) and a Flutter application (`mobile/`) that keeps selling while the
device is offline. This directory holds TLA+ modules of the parts whose
correctness depends on the order in which things happen, the configurations
that TLC checks on small instances, and proofs that TLAPS checks for every
instance. Paths below are relative to the repository.

## 1. Inventory

### The parts and their state

| part | state | operations | talks to |
|---|---|---|---|
| idempotency layer, `backend/src/infrastructure/idempotency` | `IdempotencyRecord` rows (unique per company and key, 24 h life) | `reserve`, `complete`, `cleanupExpired`, `runWithIdempotency` | the transaction of every keyed mutation |
| outbox queue, `mobile/lib/core/outbox/outbox_controller.dart`, `outbox_storage.dart`, `outbox_operation.dart` | the list of operations in memory and in the preferences store, the auth epoch | `hydrate`, `enqueue`, `markSending`, `markRetryableFailure`, ..., `cleanupForLogout` | worker, scheduler, dialogs, sign-out |
| sync worker, `outbox_sync_service.dart`, `outbox_operation_spec.dart` | one pass in flight | `syncAll` | queue, API client, authentication |
| mutation queue, `outbox_mutation_queue.dart` | none of its own | `mutate`, the fallback of an uncertain online call | queue, API client |
| retry scheduler, `outbox_scheduler.dart` | one timer, the last fired fingerprint | `notifyChanged`, `notifyScopeChanged` | queue, connectivity, worker |
| session, `mobile/lib/core/auth` and `core/api/api_client.dart` | the signed-in user, the stored tokens, one refresh in flight | `login`, `logout`, the auth interceptor, the token refresh | backend authentication, outbox |
| cash drawer, `backend/src/modules/sales`, `sales-refund` | `CashShift` (row version), `Sale`, `SalesRefund`, refund allocations | open, close, cash in and out, complete, refund | ledger, stock, idempotency |
| stock, `backend/src/modules/inventory` | `Stock` (row version), FIFO layers, movements, inventory counts | adjust, transfer, reserve and release, sell and take back, receive, return, count, reconcile | sales, purchasing, ledger |
| ledger, `backend/src/modules/finance` | journal entries, account balances per period, periods, fiscal years, financial transactions | post, reverse, draft and post by hand, close a period, close a year, open a month when it is first needed | every module that moves money |
| purchasing, `backend/src/modules/purchasing` | orders and their items (row versions), receipts, returns | order statuses, receive, return, undo a return | stock, ledger, payables |
| payables, `purchasing/services/purchase-invoice.service.ts`, `backend/src/modules/suppliers` | invoices (row version), payments, allocations | approve, cancel, pay, allocate, void | purchasing, ledger |
| billing, `backend/src/modules/billing` | subscriptions and invoices (row versions), payment transactions, processed webhooks, job locks in Redis | cron jobs, webhook handlers, changes people ask for | payment provider, Redis |
| authentication, `backend/src/modules/auth` | refresh tokens (hashed, revocable) | `login`, `refresh`, `logout`, password reset | every request |
| the rest | rows | create, read, update, delete; reports; AI calls | |

`PROJECT.json` lists every component, modelled or not, and every hazard at the
line where it bites.

### What is hard about it

* The application writes its queue as one list in a store that may reject a
  write without an exception, works on snapshots across `await`s, and lets
  users sign in and out in the middle of a pass.
* Requests and answers get lost and arrive late; the key that makes a repeat
  harmless lives for 24 hours only, after which a unique business identity
  (`saleNumber`, `clientOperationId`, `receiptNumber`) has to do.
* On the backend several requests under one key meet on a unique index, and a
  record may expire, be cleaned up or be replaced between two statements of
  a third one.
* Requests of one cashier (and of others refunding the same sales) read shift
  and sale rows, compute, and write back under a row version; some of what they
  read (refund facts, allocations) has no version of its own.
* A refund is split over payment methods in steps of 0.0001, refund by refund,
  and must come out even whatever the order.
* Stock rows are guarded in two ways, by the version that was read or by a
  condition on the quantity at the time of the update; the cost layers of a
  product are shared by all warehouses and locked after the row.
* A posting checks its period without locking it; the close of a period or of
  the year may commit in between. Snapshots of balances are updated line by line.
* Orders, receipts, returns and invoices check each other's rows before either
  has committed; some statuses are written whatever the row has become.
* The lock of a billing job runs out by itself; webhooks come twice, at once,
  late and out of order, and the store that remembers them may not answer.
* The scheduler decides from a snapshot whether firing again could change
  anything; deciding wrongly means that a sale stays on the device.

### What makes each part correct

* Idempotency: one execution per record life; nobody sees half of one; every
  request is answered.
* Queue and worker: a stored entry is never lost; none is left in SENDING; one
  is sent only for its owner.
* Delivery: what the backend cannot recognise is never repeated unattended; an
  entry dropped on a success has been applied. (That a sale or a keyed operation
  takes effect once is the doing of the backend's records and unique indexes:
  Idempotency shows the first, the second are assumed. That a 409 of a unique
  index means that the entry has been applied is not so, see section 3.)
* Cash drawer: every request takes effect at its commit, on the books as they
  then are; totals agree with sales and journal entries; nobody deadlocks.
* Refunds: money, cost and credit come back exactly, by the way they came.
* Stock: never negative; every unit in stock stands in a cost layer.
* Ledger: balances are the sum of the entries; nothing is reversed twice; a
  closed year stays as it was closed.
* Purchasing: what an order says was received is what receipts brought; what is
  put back had been sent.
* Payables: no invoice is paid beyond its total, no payment spent twice.
* Billing: one invoice per period, one payment per invoice, no status out of
  order.
* Scheduler: whenever something waits, something will wake it up.

## 2. Modules

    KeyedStore          what the idempotency layer promises
       ^ implemented by (INSTANCE ... WITH)
    Idempotency         the PostgreSQL protocol           OfflineDeliveryProofs
    Outbox              queue, worker, sign-in/out
       ^ EXTENDS, implemented by
    OfflineDelivery     Outbox + credentials + network    OfflineDeliveryProofs
                        + backend                         (of both)
    RetryScheduler      scheduler over an abstract queue  BillingProofs
    DrawerBooks         what a cash drawer promises
       ^ EXTENDS, implemented by
    CashDrawer          its transactions, statement       CashDrawerProofs
                        by statement                      (of both)
    RefundAllocation    the refunds of one sale to the    PayablesProofs
                        last 0.0001

    Stock               rows and cost layers, one product StockProofs
    Ledger              one fiscal year                   LedgerProofs
    Purchasing          one order, its receipts, returns  PurchasingProofs
    Payables            invoices and payments, one order  PayablesProofs
    Billing             one subscription                  BillingProofs

    Null                the constant None, for absent values
    SumTheorems         lemmas about sums over finite sets, for the proofs

The five modules of the second group meet at their edges: what a receipt or a
return does to stock is in Stock and what it does to the order in Purchasing;
the entries that any of them posts are requests of Ledger; Payables takes the
order for its total and its status.

**KeyedStore** has one record and one effect counter per key and two actions:
the first request of a record life takes effect, and the life ends.

**Idempotency**. One action per SQL statement of `reserve`, one each for the
business mutation, `complete`, the commit, and any failure (`Rollback`).
`row` is what is committed, `draft` and `doomed` are the uncommitted insert and
delete that a second transaction waits for on the unique index. `now` is taken
once per request and handed to the recursive calls, which is why a request
remembers in `old` the record that was expired when it began; a record that
runs out later is not expired for it. `seen` is the id that `deleteMany` names.
A record carries its identity because a replaced record is another row:
PostgreSQL re-evaluates the delete on the current row after it has waited.

**Outbox**. `mem` and `disk` are the two copies of the queue; `Save` is the
tail of every mutation and may leave the disk as it was. `burst` is the running
`syncAll`: the user and epoch it captured (`who`, `stale`), what is left of its
snapshot, the entry it is at, and the await it is in: "gate" is the await of
`markSending`, "post" the await of the request. Each await is a step boundary,
each piece of code between two awaits one action. Three kinds of operations are
told apart: `Sales` (no key, a unique sale number), `Keyed` (a key and a
durable identity) and `Legacy` (stored by an older build without one; blocked
unless the user presses *Send anyway*). `owed` is a history variable: entries
that reached the store and have not been let go.

**OfflineDelivery** extends Outbox. `wire[o]` is the request the client waits
for, with the user whose token it carries; `late[o]` are requests it no longer
waits for and that may still arrive. The backend is one step per request:
replay of a live record, a 409, application, or refusal; Idempotency shows why
one step is enough. A known identity answers with a 409 that says "unique",
except that of a sale, whose message (`SalesRepository.create`) does not have
the word; and the exception filter makes a 409 that says "unique" of any other
unique index as well, so that an operation that has not been applied may get it
too (`Refuse`). `record` and `count` are kept per
company, since records and unique indexes are. `refreshing` is the single
token refresh of `_RefreshTokenQueue`.

**RetryScheduler** reduces the queue to status and attempts and models the
scheduler in full: the timer, the fingerprint of the last burst fired, the
refusal of a second burst, the separate passes the user and the application ask
for, and the microtask that reports a change of user. `Skipped` are the entries
that a pass visits and never sends.

**DrawerBooks** is the drawer of one cashier at one warehouse with its sales,
each request one step: `shift[h]` is a `CashShift` row, `sale[s]` status, link
and deletion of a `Sale`, `back` and `allocated` the sums over the `SalesRefund`
and CASH `RefundPaymentAllocation` rows, `posted` the journal entries of cash
movements. A unit of a sale is one unit of cash.

**CashDrawer** shows the same books under transactions: `tx[t]` is the statement
a request is at, the rows it read with their versions and the rows it wrote and
has not committed. The order of statements is that of the code: `closeShift`
reads the shift, sums allocations, updates; a completion inserts the receipt,
finds the drawer, updates shift and sale; a refund reads the sale, adds up the
facts, takes a number, updates the sale and, when it takes back a whole sale at
once, the shift. `Blockers(t)` are the transactions whose end the next
statement of `t` waits for: writers of the same row, of the same unique index
entry, holders of the number counter. An update that finds another version is
the `ConflictException` that rolls back. `Fail` is any other failure.

**RefundAllocation** is the arithmetic that the drawer leaves out: per item the
rounded share of price and FIFO cost, with the exact rest for the last unit;
per payment method the share rounded down, then single steps of 0.0001 dealt in
the fixed order as long as a bucket has room (a slot `<<cycle, place>>` is one
such step); the checks that refuse; the customer credit issued. Money is counted
in steps of 0.0001. One refund is one step, which CashDrawer justifies.
`SalesAssumption` asks of a sale what `SalesService.create` checks, payments that
cover the total; discounts have no limit, so that an item or the sale may have a
negative total. Nothing keeps the rest for the last unit from being negative
either: an amount that is not well above the scale (`AboveScale`: half as many
steps per unit as there are units, for a thousand units five hundredths of the
currency) may be used up by rounding before the last unit. The handlers of the
refund's event, which might refuse such lines, are not modelled.

**Stock**. `stock[w]` is the row of the product in a warehouse, `layers` the
units left in its IN layers. A transaction `tx[t]` reads the row, writes it,
reads the layers, takes from them or adds to them, and commits; `rows`, `units`
and `took` are what it has written and not committed. `MayWrite` is the WHERE
clause of the update: the version that was read, or for a sale or a return the
quantity that stands when the update runs. A layer is consumed by compare and
set: `takes` counts how often, and a consumer that has waited finds another
count. An inventory count writes the quantity it counted, and adjusts the
layers by the difference to the quantity it expected: where the stock has moved
in between the two part, which the history variable `drifted` records.

**Ledger**. An entry has lines `<<account, amount>>`, debits counted up. `balance` are the snapshots, `calendar` and `open` the periods. A posting
reads its period (opening the month if there is none), takes the counter of
entry numbers, inserts, and adds its lines to the snapshots one by one (`todo`).
`FinancialTransactionsService` reads the amount of a draft for its entry and
writes the draft by its version. The close of the year reads the open periods
(`knows`), shuts them, aggregates the income accounts (`saw`), posts the closing
entry and sets `closed`. `settled`, `covered` and `under` are histories of what
the close knew of.

**Purchasing**. `order`, `item`, `receipt` and `return` are the rows; `shipped`
and `restored` count what a return has taken out of stock and what undoing it
has put back. A receipt reads order and items, inserts itself, writes every item
by the version it has read, and then the order, whose status follows from what
it sees of the items. A return is completed by a condition on its status, and
so is the undoing of the completion; the other statuses are written without one.

**Payables**. Rows of invoices, payments and allocations with the locks that
each request takes (`rows`, `Wants`): an approval locks order and invoice, a
payment on an invoice or an allocation locks the invoice and then the payment,
a void the payment and then its invoice. Statuses set by hand are written
without a version: `overwritten` marks an invoice whose status replaced one
that the writer had not seen.

**Billing**. `sub` is the CompanySubscription, `invoice[i]` an Invoice with
`succeeded[i]` payments, `run[r]` a run of a job, a delivery of a webhook or a
request, with the await it is at and the row it has read (`saw`). Each await is
a step. The endpoint that sets a status takes any that some status may become. `Commit` and `CommitInvoice` are the updates by row version; no
transaction writes two of these rows before its last statement, so update and
commit are one step. A webhook that is refused asks whether its effect is there
already (`Converge`). `Expire` ends the life of a job's lock at any moment,
which also stands for the fallbacks of `acquireLock` without Redis.

Simplifications, by what the properties can tell apart: a user stands for the
pair (company, user) that scopes an entry; a backoff deadline is a flag which
time clears; connectivity is the choice between the actions that need it and
those that do not, except in RetryScheduler; the epoch counter is the flag
`stale`; the order of a burst is free; the token is read in the step of the last
gate. In RetryScheduler the pairs (id, attempts) stand for the fingerprint,
which in the code also has the deadline; a passed deadline that comes back with
the same attempts is a state the code can reach only by *Retry*, and the history
`recurred` marks it.

## 3. Runs

| run | instance | shows |
|---|---|---|
| `idempotency` | 3 requests (2 with one payload, 1 with another) on 1 key, 4 arrivals, 2 expiries | one commit per record life, mutual exclusion, the protocol implements KeyedStore, every request is answered |
| `outbox` | 2 users, 1 keyed operation, 1 legacy entry, 2 attempts, capacity 1 | nothing is lost, no entry is stranded in SENDING or sent for anybody but its owner |
| `delivery` | 2 users of 1 company, one operation of each kind, 1 late copy, 2 presses of Send anyway | what has no durable identity is never repeated unattended |
| `scheduler` | 2 sendable entries and 1 skipped, 2 attempts | the timer is armed when it must be; every PENDING entry is sent |
| `drawer` | 3 transactions at a time, 5 requests of any kind, 2 shifts, 2 sales of 2 units | no lost update, no sale refunded twice, no deadlock, each commit is one step of DrawerBooks, closed shifts stay as they are |
| `refunds` | 2 items of up to 4 units, 3 methods, every way to pay, with change and without, with and without customer; amounts below the scale and discounts above the price among them | price, cost, buckets and credit come out exactly |
| `stock` | 2 warehouses of up to 2 units, 2 transactions, 3 requests of any kind, 1 count | nothing negative; every unit valued; reservations and reconciliations are right when they commit; only two transfers can deadlock |
| `ledger` | 2 months, 3 entries, 2 financial transactions, 2 transactions, 5 requests | balances agree with entries; one reversal; the closing entry zeroes what it covers; a closed year admits only what was under way; who can deadlock |
| `purchasing` | an order of 2 items of up to 2 units, 2 receipts, 1 return, 2 transactions, 4 requests | received quantities are those of the receipts; complete orders say so; a cancelled order has received nothing; nothing is put back that was not sent |
| `payables` | 2 invoices, 2 payments, amounts 1 and 2, 2 transactions, 4 requests | paid amounts, allocations and totals agree; approvals stay within the order; entries are posted once |
| `billing` | 2 invoices, 1 event, 2 runs at a time, 4 in all, 2 retries | one invoice per period, one payment per invoice, one record per refund, statuses in order, and replaced only by who is there to replace them |
| `resumed_cancelled` | as `billing` | violation: a subscription cancelled while the job runs is activated again |

The run of kind *violation* checks a statement of a comment of the code against
what the code does; it is quoted with the finding in `PROJECT.json`.
`resumeAfterPayment` collects the subscriptions that are past due and asks for
ACTIVE one after the other. `transitionStatus` reads each anew, which is why
neither its guard (CANCELLED may become ACTIVE) nor its version refuses one
that was cancelled after it had been collected.

Invariants that are defined and not named in a run hold on the same instances:
the type invariants of the first group of modules; `NeverInFlight` (the 409
"already being processed" never occurs) and `SuccessWasApplied`, both proved;
`NearProportion`, `OneMethodRefundable` and `OnlyVoidsDeadlock`. The runs keep to those that say most.

### Statements that TLC refutes

The modules also define statements that look as if they should hold, most of
them made by a comment of the code, and do not. They are kept because they say
where the properties above end; a configuration that names one of them shows
the behaviour. No run of `PROJECT.json` checks them.

| statement | what happens |
|---|---|
| `Outbox.ParkedUnderOriginator` | a call answered after a change of user is parked as the next user's |
| `Outbox.CleanupSparesSignedIn` | sign-out clears the tokens and then cleans the queue of its user; "nothing new can therefore be enqueued or dispatched while cleanup runs" (`auth_state.dart`, `logout`), but a sign-in may come in between, and the clean-up lets go of what the next user has just queued |
| `OfflineDelivery.ConfirmedWasApplied` | any violation of a unique index becomes a 409 whose message says "unique" (`global-exception.filter.ts:64`, `226-243`), and `_classify` confirms it as "already applied" (`outbox_sync_service.dart:348-354`): an adjustment that loses a race to create a stock row (`@@unique([productId, warehouseId])`, rethrown by `stock.service.ts:33-38`) is dropped as delivered although it was rolled back |
| `OfflineDelivery.AppliedSaleNotGivenUp` | the converse: the 409 of a duplicate sale number says "Sale number already exists" (`sales.repository.ts:57`), without the word the same comment of `_classify` relies on; a sale has no key, so a sale applied and sent again becomes FAILED_PERMANENT |
| `OfflineDelivery.CredentialsFixed` (2 companies) | a dispatched request is repeated under another user's token |
| `RetryScheduler.RetriesPastBlocked`, `RetriesAfterManualPass` | an entry that cannot be sent stops the timer of the others; a burst refused during a manual pass is not repeated |
| `CashDrawer.CloseNetsRefunds` | `closeShift` sums up the allocations and then updates the shift under its version; a partial refund does not touch the shift, and one that commits in between is missing from `expectedClosing` for good. DrawerBooks therefore promises only that a close nets no more than what was allocated |
| `RefundAllocation.RestRefundable` | a sale of three units for 10.00, paid half in cash and half by card and refunded unit by unit: 3.3333 is split 1.6667 and 1.6666 twice, the cash bucket is left with 1.6666, half of the last 3.3334 is 1.6667, and the refund is refused although exactly this money is left. Below the scale what is left may be nothing, and a refund of nothing is refused: "the refund service never produces non-positive totals" (`refund-payment-allocation.service.ts:118-119`) |
| `RefundAllocation.NothingGivenTwice` | four units sold for 0.0002 and refunded one by one give back 0.0001 three times, and the line of the last is -0.0001; in the end it is even, before that too much is back |
| `Stock.SalesLeaveReserved` | the update of a sale compares the quantity with the reservations it has read; one made in between is sold from under it |
| `Ledger.OnlyOpenAccepts` | a posting that found its period open commits after the close |
| `Ledger.NoneLeftOpen` | a month is opened for a posting while the year is being closed, or afterwards, and stays open in the closed year |
| `Ledger.ReversedOnce` | reversing a financial transaction makes a second transaction with the opposite entry and leaves the first entry POSTED, so that it can be reversed again through the journal |
| `Purchasing.CancelledIsFinal` | a receipt that began before a cancellation reads the order's version again after it, and sets a received status over CANCELLED |
| `Purchasing.ReturnedWithinReceived` | the status of a return is written without a condition: an approval read before a completion sets the return back to APPROVED, and it is completed again |
| `Payables.NoInversion` | a void locks the payment and then its invoice, all others the invoice first (`OnlyVoidsDeadlock`, which holds, says that nobody else can deadlock) |
| `Payables.AllocatesToLive`, `CancelledUninvoiced` | a status set by hand between a check and the write it allows |
| `Billing.InvoicedWhenDue` | a run that waited until the period had been invoiced makes the invoice of the next one before it is due |
| `Billing.SuspendedInTheEnd` | the process dies between the count that reaches the limit and the suspension; the job does not select the subscription again |

Bounds and why they are enough. Three requests on a key are the fewest that
make a waiting, a reading and a replacing transaction meet; two expiries let a
record be replaced while another request still holds the id of the first. Two
users are the fewest that can be confused; two attempts reach both outcomes of
the retry budget; capacity 1 makes the limit bite. In `delivery` only one
operation is live at a time (`OneOperation`): operations share nothing there but
the queue and the worker, which `outbox` checks with two. `MaxLate` bounds the
copies of a request on their way, one per user of the token; `MaxAccepts`
bounds the presses of *Send anyway*. Users are symmetric where nothing names
one. In `drawer` three transactions are the fewest in which two act on one row while a third depends on both; five requests
are enough for open, complete, a partial refund and a close with one more beside
them; two units tell a partial refund from the final one. The prices of
`refunds` divide evenly and unevenly, are smaller than one step per unit and
below zero, and the largest number of refunds of a
sale, one per unit, is reached.
In the runs of the second group of modules two transactions act at a time, which
is what every lost update, every write over a later one and every circle of two
needs, and a third or fourth request lets one of them begin after another has
ended. `stock` has two units per row, so that a request can take all, some or
too many, and two warehouses because they share layers; `ledger` needs three
entries for one posted, its reversal and the closing entry; `purchasing` two
items and two receipts for two halves of an order that arrive together;
`payables` two payments and two invoices, to allocate one over the other; the
one event of `billing` is delivered any number of times and is of any type, and
`MaxRetries` is 3 in the code and 2 in the instance. Transactions, and all
values that no definition names, are symmetric. `MaxRequests` bounds the requests of each run.
Runs set `CHECK_DEADLOCK FALSE`: an application that nobody uses stops, and
the bounded runs end when their budgets are spent.

Fairness. Safety runs use none. `Answered` needs weak fairness of each request's
next statement: PostgreSQL and the event loop run an open transaction on, and
its own timeouts turn a hanging one into `Rollback`; nothing is assumed of
arrivals, failures or expiry. `RetriesHappen` needs time to pass, an armed timer
to fire, microtasks to run, and the worker to move (a request is answered or
times out); it is stated for a device that stays online with a user signed in,
and outside three situations that its hypotheses name: an entry that can never
be sent is in the queue, an entry becomes due during somebody else's pass, and
*Retry* brings the queue back to the fingerprint fired last. The first two are
`RetriesPastBlocked` and `RetriesAfterManualPass` above.

Each property of a passing run has a mutant in `PROJECT.json`: a plausible
mistake in one definition (its operator `Mutant...` stands before that
definition) with which TLC finds the property violated.

## 4. Proofs

`OfflineDeliveryProofs.tla` proves for any users, operations, retry budget and
capacity, from `OutboxAssumption`: `TypeOK`, `NoLoss`, `SendingOwned` and
`DispatchedByOwner` of the queue and its worker. `NoLoss` alone is not
inductive: the proof needs that an empty memory belongs to a queue not loaded
yet (`ColdQueue`), that what a running burst still has in hand belongs to its
own user (`BurstOwner`), that the worker is at an operation whenever it is past
MarkSending (`AtOperation`), and that an operation still being asked online has
no entry (`NotYetQueued`). `DispatchedByOwner` is an action property and follows
from the invariant at the last gate. It then proves that every step of
OfflineDelivery is a step of Outbox or a stutter (`DeliveryImplementsOutbox`),
so that the queue keeps all of this with the network and the backend behind it,
and from `DeliveryAssumption` and `NoneAssumption` two properties of the whole:
`NoUnattendedRepeat` and `SuccessWasApplied`. Their invariant `DInv` keeps books
of requests. For an operation without identity nothing at the backend helps, and
`PaidFor` counts at the client: effects, requests that may still take effect,
and presses of *Send anyway* that have not become a request are together no more
than the presses accepted. `AppliedBehind` says that a stored record, and an
answer of success, has an effect behind it in the company of the request's
token, and that no sale is answered with "unique". Requests under way are finitely many
(`LateFinite`), which the count needs and the induction carries.

The third part of `OfflineDeliveryProofs.tla` is about Idempotency. It proves
for any finite or infinite set of requests, keys and payloads, from
`ReqsAssumption` (the functions `KeyOf` and `PayloadOf` have their types and
`None` is no request, payload, answer, record or draft): `ReserveTypeOK`,
`OneEffectPerLife`, `OneExecution`, `NeverInFlight`, and that the protocol
implements `KeyedStore` step by step. The inductive invariant `ReserveInv` adds
to these what the unique index does: a draft belongs to the request that is
executing on its key (`DraftOwned`), only a record past its life is being
deleted (`DoomedExpired`), a draft beside a committed record means that its
writer is the one deleting it (`Replacing`), the ids a request remembers are
those of records that had expired (`Remembered`), and a committed record is
complete (`StoredDone`). `OneExecution` is not needed for the induction: it
follows, because two requests cannot own one draft.

`CashDrawerProofs.tla` has two parts. The first proves for any shifts and units
and finitely many sales, from `BooksAssumption`: `BooksTypeOK`,
`DrawerReconciles`, `RefundsAgree` and `ClosedShiftFinal` of DrawerBooks. Its
invariant adds that a sale not completed is in no shift and untouched by refunds
(`Untaken`), so that completing it adds exactly one to the sales of the shift,
and that links and entries belong to shifts that exist (`LinksExist`), so that a
new shift starts empty. The second part proves, from `DrawerAssumption` and
`NoneAssumption` besides, for any number of transactions, that CashDrawer
implements these books (`ImplementsBooks`), so that the same properties hold of
it, and that no transactions wait for each other in a circle (`NoWaitCycle`).
What makes the refinement go through is what every transaction knows of the rows
it has read (`Knows`): the version it has seen is at most the current one, and
if it is the current one then the row is as read; what it has written nobody
else has moved since; what a closing nets is at most what the refunds have
allocated. `Apart` says that no row has two uncommitted writers. The
transactions that hold a row and wait are completions and refunds; a circle
would need a refund that waits for a shift whose holder waits for the sale, and
that holder would be a completion, of a sale without a receipt (`Receipted`)
while a refund works on a sale that has one.

`PurchasingProofs.tla` proves for any numbers of items, receipts, returns and
transactions, from `PurchasingAssumption` and `NoneAssumption`:
`ReceivedCounted`, `FullyReceived`, `CancelledUnreceived` and
`RestoredWasShipped`. The invariant has what the committed rows say of each
other (`DataInv`: among others, an order not sent yet has no receipts), that no
row has two uncommitted writers (`RowsApart`), and what each transaction knows
(`AllGood`). A receipt takes the lock of each of its item rows before it adds to
it, so what it is about to commit is the received quantity as it stands, plus
its own; and the status it computes is guarded by the version of the order,
which every other receipt moves.

`PayablesProofs.tla` proves for any finite sets of invoices and payments and any
number of transactions, from `PayablesAssumption` and `NoneAssumption`:
`PaidIsPayments`, `CoverWithinTotal`, `AllocatedWithinPayment`, `JournalOnce`
and the action property `ApprovedWithinOrder`. These relate a column of one row
to a sum over the rows of another table. The invariant says of a transaction
that holds an invoice or a payment that the sum it has read under the lock is
still the sum (`PayKnows`, `AllocateKnows`, `VoidKnows`), and of the others only
what a committed version allows (`Still`). An approval sums under the lock on
the order, which every approval takes: until it commits, the approved invoices
and its own stay within the order's total (`ApproveKnows`).

`LedgerProofs.tla` proves for any finite sets of entries and periods, any
financial transactions and any number of transactions, from `LedgerAssumption`
and `NoneAssumption`: `BalancesAgree`, `OneReversal`, `FTsInLedger`,
`CloseZeroes`, `OnlyLatecomersDeadlock` and the action property
`ClosedYearFinal`. The invariant has what the committed rows say of each other
(`DataInv`), that no row has two holders (`Apart`), and what each transaction
knows (`Knows`): what it holds is still as it found it (an entry to be reversed
is POSTED, a year to be closed is open), and a financial transaction is as it
was read while its version stands. `KnowsStays` carries this over the commits of
the others. A commit changes the weight of one entry in one account and period
(`TotalChanges`), by just what the same commit adds to the snapshots, so that
the two keep agreeing. The close computes its lines from snapshots but is judged
by entries: the snapshots of the periods it knows sum to what their entries come
to (`NetIsEntries`), and a posted entry never changes its lines, so that the
closing lines and the entries it saw come to zero until it commits
(`CloseKnown`). `ClosedYearFinal` needs that a transaction that has found its
period open is counted in `under` when the year closes (`PeriodsKnown`).
`OnlyLatecomersDeadlock` is an argument on the order of rows: who waits for a
claimed row, a month or the counter of a period waits for somebody who has it
and waits for none of these before it (`WaitingAt`). Posting a draft takes
snapshots without the counter, and undoing a return claims an entry after them:
these two come late.

`SumTheorems.tla` has the lemmas on `SumFunction` of the community module
Functions that PayablesProofs, LedgerProofs, PurchasingProofs and StockProofs
cite (a sum exists and is an integer; adding a point; changing one point; the
sum of two; monotony; zero sums; sums sorted by class). `SumFunction` is a
recursive function on sets and the induction theorems cannot be used, so each
lemma takes a smallest set for which it fails, which exists because proper
inclusion between the subsets of a finite set is well-founded
(`FS_StrictSubsetOrderingWellFounded`).

`BillingProofs.tla` proves for any invoices, events and runs, from
`BillingAssumption`, that of the properties of `billing` none depends on the
locks of the jobs: `OneInvoicePerPeriod`, `RecordedOnce` and `StatusMoves`. It
is the argument of optimistic locking. Versions never go down, and while a row
has the version a run has read it is as it was in what the run decided from
(`Later`); so the invariant says of every run that is about to write
(`KnowsSubscription`, `KnowsInvoice`): the version it has read is at most the
current one, and if it is the current one then the status it will write may
follow the present one and the present one is what the run is there to replace
(`Replaces`: the table of transitions alone would let a late end of a trial turn
a paid activation into FREE), the period it will invoice has no standing invoice, and
the invoice it will pay or void is PENDING. `RunStays` carries this over the
steps of all others, because whoever makes an invoice moves the version of the
subscription in the same transaction. Periods are unbounded: `MaxRequests` plays
no part in the proof.

The second part of `BillingProofs.tla` is about RetryScheduler: `TimerArmed` for
any entries and any retry budget, from `SchedulerAssumption`. A change of the
queue and a change of the connection evaluate the timer in the same turn
(`Rearm`), and no turn cancels it without setting the next. Time alone changes
the queue without evaluating anything, but a backoff that ends leaves an entry
due, and then no timer is asked for. What is due and what waits must have its
type in all of this (`SchedulerTypeOK`), for which an entry that can still be
sent needs attempts left (`BudgetLeft`).

The second part of `PayablesProofs.tla` is about RefundAllocation:
`LinesConserved`, `MethodsRestored` and `CreditRestored` for any finite set of
items, any units and payment methods and any sale whose payments cover its total
(`SalesAssumption`), whatever the prices and discounts. That an item that is all
back has given back its price and cost needs no more than the exact rest for the
last unit. That it has not given back more before holds of an amount of
`AboveScale`, in price and in FIFO cost, and is stated of these only: per refund
rounding adds half a step at most and there are no more refunds than units, so
that after b of n units of a line no more has been given back than the
proportion b/n and b half steps (`Near`), which is no more than the amount as
long as a unit is left (`NearLeaves`). That no method gets more than its payment and that
the parts of a refund are its money rests on the checks with which
`createForRefund` refuses, not on the rounding. What all methods have got is the
money of the refunds (`Allocating`), so that when the last unit is back every
bucket is exactly empty, store credit among them (`FullyAllocated`).

`StockProofs.tla` proves the five properties of the run `stock` for any finite
set of warehouses, any counts, quantities and request lines and any number of
transactions, from `StockAssumption`: `TypeOK` (with it, that no quantity,
reservation or layer is ever negative), `UnitsValued`, `OnlyTransfersDeadlock`
and the action properties `ReserveWithinStock` and `ReconcileWithinStock`. The
invariant says of a transaction that nobody else has the rows it has written
(`HoldsRows`, `Apart`), that the version it writes is above the committed one,
so that what it has read can be old but not wrong for its version (`RowsKnown`),
that what it is about to commit differs from the committed rows by just what it
takes from or adds to layers, also when it wrote by the condition on the
quantity and not by a version (`MovedEvenly`), and that the layers hold at least
what it has read of them while nobody has taken from them since (`LayersKnown`).
`CommitValued` then is one sum: a commit changes the total of the rows by what
it changes in the layers. `KnowsStays` carries the knowledge of the others over
that commit. `OnlyTransfersDeadlock` follows because a transaction other than a
transfer that holds a row waits at most for layers, and who has taken layers
waits for nobody (`HolderWaits`).

Three of the files hold the proofs of two components that have nothing to do
with each other in the code (Idempotency, RetryScheduler and RefundAllocation
are guests). Their definitions have different names, a theorem about one speaks
only of the specification it names, and the assumptions on the constants of each
are evaluated by TLC in the runs of that component.

All of these modules state one lemma per action and combine them with temporal
logic in the last step. TLC checked the invariants before they were proved. The
`NoneAssumption` of a module says that the value `None`, which stands for an
absent row, is not one of the rows: in TLC a model value, in the code `null`.

Every safety property that a run checks is proved. Model-checked only are
liveness (`Answered`, `RetriesHappen` and its two relatives), which the prover
does not treat, and `NearProportion`, `OneMethodRefundable` and
`OnlyVoidsDeadlock`, which no run names. The violation and the refuted
statements of section 3 are shown by TLC's counterexamples.

## 5. Not modelled

* Thrown (not rejected) writes of the preferences store; a corrupted list.
* A second sign-out while one is in progress, and the full wipe of an anonymous
  sign-out.
* The completion chained on a created sale: the function that should start it
  expects a map, the client hands it the response object, and it returns.
* Beside the drawer: the locks and effects in ledger, stock and credit ledger of
  a completion or refund, amounts and change in the shift, journal entries of a
  closing difference, the idempotency reservation around each request (it is
  Idempotency). `NoWaitCycle` is about the rows named in CashDrawer only.
* The creation of a sale: sales start as drafts, or completed in
  RefundAllocation.
* Stock: movements (append-only rows), variants, barcodes, batches, units of
  measure, warehouses as data. A product is one product: transactions about
  several take their rows in the order of their items, and circles between
  products are not looked for.
* Ledger: the chart of accounts, registers and bank accounts, edits of
  descriptions and notes. An event is delivered to its handlers once, inside
  the publisher's transaction, so that the gate against a second entry for one
  source document (`alreadyPosted`) is left out. The upsert of an existing month is
  taken not to lock it.
* Purchasing and payables: soft deletes of draft orders and returns, prices, taxes and
  discounts; statements and analytics of suppliers are queries.
* Billing: nothing sets `pastDueAt` and `suspendedAt`, so the two jobs that select
  by them find nothing; `generateInvoice` has no caller; creation of
  subscriptions, usage counters, job records, prices and the check of
  signatures. Only a payment writes `providerInvoiceId`, as in the code, so that
  an `invoice.paid` webhook finds no pending invoice.
* The rotation of refresh tokens on the backend: `AuthService.refresh` verifies a
  token before the transaction that replaces it. OfflineDelivery takes the
  service as giving one new pair per refresh.
* Modules whose operations are single-row create, read, update and delete, read-only
  reports, and calls to outside services: they make up most of the lines of
  the repository, and there is nothing in them for an interleaving to break.
* Everything listed `not_modelled` in `PROJECT.json`.

## 6. Plan

Built so far: idempotency, outbox, delivery, scheduler, cash drawer, refunds,
stock, ledger, purchasing, payables, billing. Next, in this order:

1. **Completion**: a sale with its stock, its entries and its credit in one
   transaction over CashDrawer, Stock and Ledger, for the order in which they
   lock.
2. **AuthSession**: refresh rotation on the backend with the mobile client of
   `OfflineDelivery`.

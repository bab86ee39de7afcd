------------------------------ MODULE CashDrawer ------------------------------
(***************************************************************************)
(* A cash drawer under concurrent requests: CashShiftService (open, close, *)
(* cash in and out), SalesService (complete, change status, edit, delete)  *)
(* and SalesRefundService (refund), one SQL statement per step, in         *)
(* PostgreSQL transactions under READ COMMITTED.  A statement sees what is *)
(* committed when it runs; what a transaction writes stays its own, and    *)
(* the row locked, until it commits.  Shift and sale rows are written only *)
(* by an update that compares the rowVersion read before (updateMany); it  *)
(* waits for another writer of the row and fails if that one commits.      *)
(* Two more things make a transaction wait: the unique indexes (one OPEN   *)
(* shift per drawer, one receipt per sale) and the counter of refund       *)
(* numbers.  The state and the amounts are those of DrawerBooks.tla.       *)
(* Operators named Mutant.. are plausible bugs of the definition that      *)
(* follows them.                                                           *)
(***************************************************************************)
EXTENDS DrawerBooks

CONSTANTS
    Txns,          \* transactions that can run at the same time
    MaxRequests    \* bound on the number of requests

ASSUME DrawerAssumption ==
    /\ MaxRequests \in Nat
    /\ None \notin Txns

VARIABLES
    shiftVersion,   \* CashShift.rowVersion
    saleVersion,    \* Sale.rowVersion
    receipts,       \* sales with a committed Receipt row
    tx,             \* tx[t]: the transaction of t, or None
    requests        \* requests begun

state == <<shift, sale, back, allocated, posted, shiftVersion, saleVersion, receipts>>
drawerVars == <<state, tx, requests>>

(* A transaction: its request (kind, sale, quantity), the statement it is  *)
(* at, the rows it has read (with their versions) and those it has         *)
(* written.                                                                *)
Transaction(kind, at) ==
    [sale |-> None, kind |-> kind, at |-> at, qty |-> 0,
     sawSale |-> None, sawShift |-> None, prior |-> 0, netted |-> None,
     newSale |-> None, newShift |-> None]

(* No row read or written is mistaken for none.                            *)
ASSUME NoneAssumption ==
    /\ None \notin [id : Shifts, row : Row, version : Nat]
    /\ None \notin [id : Shifts, row : Row]
    /\ None \notin [status : Statuses, link : Shifts \cup {None}, deleted : BOOLEAN]

DrawerInit ==
    /\ Init
    /\ shiftVersion = [h \in Shifts |-> 0]
    /\ saleVersion = [s \in SaleIds |-> 0]
    /\ receipts = {}
    /\ tx = [t \in Txns |-> None]
    /\ requests = 0

Running == {t \in Txns : tx[t] # None}

At(t, at) == t \in Running /\ tx[t].at = at

-----------------------------------------------------------------------------
(* Waiting.                                                                *)

WroteShift(u) == tx[u].newShift # None
WroteSale(u, s) == tx[u].newSale # None /\ tx[u].sale = s
WroteReceipt(u, s) ==
    /\ tx[u].kind = "complete" /\ tx[u].sale = s
    /\ tx[u].at \in {"drawer", "shift", "sale", "commit"}
Numbered(u) ==
    /\ tx[u].kind = "refund"
    /\ tx[u].at \in {"sale", "linked", "shift", "commit"}

(* Those whose end the next statement of t waits for.  Whoever has written *)
(* a shift may leave the drawer with an OPEN one.                          *)
Blockers(t) ==
    {u \in Running \ {t} :
        \/ tx[t].at = "insert" /\ WroteShift(u)
        \/ tx[t].at = "shift" /\ WroteShift(u) /\ tx[u].newShift.id = tx[t].sawShift.id
        \/ tx[t].at = "sale" /\ WroteSale(u, tx[t].sale)
        \/ tx[t].at = "receipt" /\ WroteReceipt(u, tx[t].sale)
        \/ tx[t].at = "number" /\ Numbered(u)}

Runs(t, at) == At(t, at) /\ Blockers(t) = {}

Begin(t, transaction) ==
    /\ tx[t] = None /\ requests < MaxRequests
    /\ requests' = requests + 1
    /\ tx' = [tx EXCEPT ![t] = transaction]
    /\ UNCHANGED state

Continue(t, transaction) ==
    /\ tx' = [tx EXCEPT ![t] = transaction]
    /\ UNCHANGED <<state, requests>>

(* An exception in the callback of $transaction, or the loss of the        *)
(* process: nothing that was written remains.                              *)
Rollback(t) ==
    /\ tx' = [tx EXCEPT ![t] = None]
    /\ UNCHANGED <<state, requests>>

-----------------------------------------------------------------------------
(* Reading.                                                                *)

ReadShift(h) == [id |-> h, row |-> shift[h], version |-> shiftVersion[h]]
ReadSale(s) == [row |-> sale[s], version |-> saleVersion[s]]

(* openShift: no open shift is found.                                      *)
BeginOpen(t) ==
    /\ OpenShifts = {}
    /\ Begin(t, Transaction("open", "insert"))

(* closeShift, cashIn, cashOut: the open shift is found.                   *)
BeginOnShift(t, kind) ==
    \E h \in OpenShifts :
        Begin(t, [Transaction(kind, IF kind = "close" THEN "sum" ELSE "shift")
                    EXCEPT !.sawShift = ReadShift(h)])

(* What each request on a sale demands of the status it reads.             *)
From == [complete |-> {"DRAFT", "PENDING"}, cancel |-> {"DRAFT", "PENDING"},
         hold |-> {"DRAFT"}, edit |-> {"DRAFT"}, delete |-> {"DRAFT"},
         refund |-> {"COMPLETED", "PARTIALLY_REFUNDED"}]

FirstStatement(kind) ==
    IF kind = "complete" THEN "receipt" ELSE IF kind = "refund" THEN "facts" ELSE "sale"

(* transitionStatus, update, softDelete, createRefund: findById.           *)
BeginOnSale(t, kind, s) ==
    /\ ~sale[s].deleted
    /\ sale[s].status \in From[kind]
    /\ Begin(t, [Transaction(kind, FirstStatement(kind))
                   EXCEPT !.sale = s, !.sawSale = ReadSale(s)])

(* closeShift sums up the allocations of the sales linked to the shift.    *)
SumAllocations(t) ==
    /\ At(t, "sum")
    /\ Continue(t, [tx[t] EXCEPT
         !.netted = [s \in SaleIds |->
                       IF sale[s].link = tx[t].sawShift.id THEN allocated[s] ELSE 0],
         !.at = "shift"])

(* completeSale looks for the open shift of the cashier.                   *)
FindDrawer(t) ==
    /\ At(t, "drawer")
    /\ IF OpenShifts = {} THEN Continue(t, [tx[t] EXCEPT !.at = "sale"])
       ELSE \E h \in OpenShifts :
              Continue(t, [tx[t] EXCEPT !.sawShift = ReadShift(h), !.at = "shift"])

(* createRefund adds up what has been refunded and checks the quantities   *)
(* requested against the rest.                                             *)
ReadFacts(t) ==
    /\ At(t, "facts")
    /\ \E n \in 1..Units :
          IF back[tx[t].sale] + n <= Units
          THEN Continue(t, [tx[t] EXCEPT !.prior = back[tx[t].sale], !.qty = n,
                                         !.at = "number"])
          ELSE Rollback(t)

(* A refund of everything left makes the sale REFUNDED; when the sale was  *)
(* COMPLETED before, it is the single-shot refund without allocations.     *)
WholeSale(x) == x.prior + x.qty >= Units
SingleShot(x) == x.sawSale.row.status = "COMPLETED" /\ WholeSale(x)

MutantFindLinkedShift(t) ==
    /\ At(t, "linked")
    /\ LET h == tx[t].sawSale.row.link
       IN  IF h # None
           THEN Continue(t, [tx[t] EXCEPT !.sawShift = ReadShift(h), !.at = "shift"])
           ELSE Continue(t, [tx[t] EXCEPT !.at = "commit"])

(* applyLegacyFullRefundSideEffects: the linked shift, if still open.      *)
FindLinkedShift(t) ==
    /\ At(t, "linked")
    /\ LET h == tx[t].sawSale.row.link
       IN  IF h # None /\ shift[h].status = "OPEN"
           THEN Continue(t, [tx[t] EXCEPT !.sawShift = ReadShift(h), !.at = "shift"])
           ELSE Continue(t, [tx[t] EXCEPT !.at = "commit"])

-----------------------------------------------------------------------------
(* Writing.                                                                *)

MutantInsertShift(t) ==
    /\ At(t, "insert")
    /\ \E h \in Shifts :
          /\ shift[h] = None
          /\ \A u \in Running : WroteShift(u) => tx[u].newShift.id # h
          /\ Continue(t, [tx[t] EXCEPT !.newShift = [id |-> h, row |-> NewShift],
                                       !.at = "commit"])

(* The unique index on OPEN shifts.                                        *)
InsertShift(t) ==
    /\ Runs(t, "insert")
    /\ IF OpenShifts # {} THEN Rollback(t)
       ELSE \E h \in Shifts :
              /\ shift[h] = None
              /\ Continue(t, [tx[t] EXCEPT !.newShift = [id |-> h, row |-> NewShift],
                                           !.at = "commit"])

MutantInsertReceipt(t) ==
    /\ At(t, "receipt")
    /\ Continue(t, [tx[t] EXCEPT !.at = "drawer"])

(* The unique index on receipt numbers, which are made of sale numbers.    *)
InsertReceipt(t) ==
    /\ Runs(t, "receipt")
    /\ IF tx[t].sale \in receipts THEN Rollback(t)
       ELSE Continue(t, [tx[t] EXCEPT !.at = "drawer"])

(* The counter of refund numbers is one row, locked to the end.            *)
TakeNumber(t) ==
    /\ Runs(t, "number")
    /\ Continue(t, [tx[t] EXCEPT !.at = "sale"])

ShiftRow(x) ==
    CASE x.kind = "close"    -> [x.sawShift.row EXCEPT !.status = "CLOSED",
                                                       !.netted = x.netted]
      [] x.kind = "cashIn"   -> [x.sawShift.row EXCEPT !.in = @ + 1]
      [] x.kind = "cashOut"  -> [x.sawShift.row EXCEPT !.out = @ + 1]
      [] x.kind = "complete" -> [x.sawShift.row EXCEPT !.sales = @ + 1]
      [] x.kind = "refund"   -> [x.sawShift.row EXCEPT !.sales = @ - 1]

MutantShiftUnchanged(x) == TRUE

ShiftUnchanged(x) == shiftVersion[x.sawShift.id] = x.sawShift.version

(* CashShiftRepository.update: the version read must still be there.       *)
UpdateShift(t) ==
    /\ Runs(t, "shift")
    /\ LET x == tx[t]
       IN  IF ShiftUnchanged(x)
           THEN Continue(t, [x EXCEPT !.newShift = [id |-> x.sawShift.id, row |-> ShiftRow(x)],
                                      !.at = IF x.kind = "complete" THEN "sale" ELSE "commit"])
           ELSE Rollback(t)

SaleRow(x) ==
    CASE x.kind = "complete" -> [x.sawSale.row EXCEPT !.status = "COMPLETED",
           !.link = IF x.sawShift = None THEN None ELSE x.sawShift.id]
      [] x.kind = "cancel"   -> [x.sawSale.row EXCEPT !.status = "CANCELLED"]
      [] x.kind = "hold"     -> [x.sawSale.row EXCEPT !.status = "PENDING"]
      [] x.kind = "edit"     -> x.sawSale.row
      [] x.kind = "delete"   -> [x.sawSale.row EXCEPT !.deleted = TRUE]
      [] x.kind = "refund"   -> [x.sawSale.row EXCEPT !.status =
           IF WholeSale(x) THEN "REFUNDED" ELSE "PARTIALLY_REFUNDED"]

SaleUnchanged(x) == saleVersion[x.sale] = x.sawSale.version

(* SalesRepository.update and softDelete.                                  *)
UpdateSale(t) ==
    /\ Runs(t, "sale")
    /\ LET x == tx[t]
       IN  IF SaleUnchanged(x)
           THEN Continue(t, [x EXCEPT !.newSale = SaleRow(x),
                  !.at = IF x.kind = "refund" /\ SingleShot(x) THEN "linked" ELSE "commit"])
           ELSE Rollback(t)

-----------------------------------------------------------------------------
Allocates(x) == x.kind = "refund" /\ ~SingleShot(x)

(* COMMIT: everything the transaction has written, the facts and journal   *)
(* entries included, becomes visible at once.                              *)
Commit(t) ==
    /\ At(t, "commit")
    /\ LET x == tx[t]
           h == x.newShift.id
       IN  /\ IF x.newShift = None THEN UNCHANGED <<shift, shiftVersion>>
              ELSE /\ shift' = [shift EXCEPT ![h] = x.newShift.row]
                   /\ shiftVersion' = [shiftVersion EXCEPT ![h] =
                                         IF x.kind = "open" THEN 0 ELSE @ + 1]
           /\ IF x.newSale = None THEN UNCHANGED <<sale, saleVersion>>
              ELSE /\ sale' = [sale EXCEPT ![x.sale] = x.newSale]
                   /\ saleVersion' = [saleVersion EXCEPT ![x.sale] = @ + 1]
           /\ IF x.kind = "refund" THEN back' = [back EXCEPT ![x.sale] = @ + x.qty]
                                   ELSE UNCHANGED back
           /\ IF Allocates(x) THEN allocated' = [allocated EXCEPT ![x.sale] = @ + x.qty]
                              ELSE UNCHANGED allocated
           /\ IF x.kind = "complete" THEN receipts' = receipts \cup {x.sale}
                                     ELSE UNCHANGED receipts
           /\ posted' = CASE x.kind = "cashIn"  -> [posted EXCEPT ![h].in = @ + 1]
                          [] x.kind = "cashOut" -> [posted EXCEPT ![h].out = @ + 1]
                          [] OTHER              -> posted
    /\ tx' = [tx EXCEPT ![t] = None]
    /\ UNCHANGED requests

Fail(t) == t \in Running /\ Rollback(t)

Step(t) ==
    \/ SumAllocations(t) \/ FindDrawer(t) \/ ReadFacts(t) \/ FindLinkedShift(t)
    \/ InsertShift(t) \/ InsertReceipt(t) \/ TakeNumber(t)
    \/ UpdateShift(t) \/ UpdateSale(t) \/ Commit(t)

DrawerNext ==
    \E t \in Txns :
        \/ BeginOpen(t)
        \/ \E kind \in {"close", "cashIn", "cashOut"} : BeginOnShift(t, kind)
        \/ \E kind \in DOMAIN From, s \in SaleIds : BeginOnSale(t, kind, s)
        \/ Step(t)
        \/ Fail(t)

DrawerSpec == DrawerInit /\ [][DrawerNext]_drawerVars

-----------------------------------------------------------------------------
TypeOK ==
    /\ BooksTypeOK
    /\ \A h \in Shifts : shift[h] # None => shift[h].sales \in 0..Cardinality(SaleIds)
    /\ shiftVersion \in [Shifts -> Nat] /\ saleVersion \in [SaleIds -> Nat]
    /\ receipts \subseteq SaleIds
    /\ requests \in 0..MaxRequests
    /\ \A t \in Running : tx[t].sale \in SaleIds \cup {None} /\ tx[t].qty \in 0..Units

(* The concurrent transactions do what DrawerBooks promises: each takes    *)
(* effect at once, at its commit, on the books as they then are.           *)
ImplementsBooks == Spec

(* No set of transactions waits for itself: PostgreSQL never has to break  *)
(* a deadlock between requests on one drawer.                              *)
NoWaitCycle ==
    ~ \E waiting \in (SUBSET Running) \ {{}} :
         \A t \in waiting : Blockers(t) \cap waiting # {}

(* closeShift nets the cash of partial refunds of its sales, exactly once  *)
(* (cash-shift.service.ts:168-172): at the moment a shift closes, every    *)
(* allocation made until then is netted.                                   *)
CloseNetsRefunds ==
    [][\A h \in Shifts, s \in SaleIds :
          /\ shift[h] # None /\ shift[h].status = "OPEN" /\ shift'[h].status = "CLOSED"
          /\ sale[s].link = h
          => shift'[h].netted[s] = allocated[s]]_drawerVars
=============================================================================

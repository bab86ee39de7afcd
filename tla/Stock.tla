------------------------------- MODULE Stock -------------------------------
(***************************************************************************)
(* The stock of one product: a Stock row per warehouse and the pool of IN  *)
(* cost layers that values the units of all warehouses together.           *)
(* Stock is moved by StockService (adjust, transfer), ReservationService,  *)
(* InventoryCountService, StockReconciliationService, by the handlers of   *)
(* sale.completed, sale.refunded, sale.partially_refunded and              *)
(* purchase.received, and by PurchaseReturnService, each in one PostgreSQL *)
(* transaction under READ COMMITTED, a statement at a time.  A row is      *)
(* written by one of two guards: the rowVersion read before (compare and   *)
(* set), or, where units leave with a sale or a purchase return, a         *)
(* condition on the quantity that stands when the update runs.             *)
(* A missing Stock row is a row of nothing (inserting it twice fails as a  *)
(* stale version does); availableQuantity is left out, no guard reads it;  *)
(* of the layers only the units left in them count, and a consumer always  *)
(* meets another one at the oldest layer.                                  *)
(* Operators named Mutant.. are plausible bugs of the definition that      *)
(* follows them.                                                           *)
(***************************************************************************)
EXTENDS Integers, Sequences, FiniteSetsExt, Null

CONSTANTS
    Warehouses,
    Counts,        \* inventory counts that can be drawn up
    Txns,          \* transactions that can run at the same time
    Units,         \* the largest quantity of a request, and of a row at first
    MaxRequests    \* bound on the number of requests

ASSUME StockAssumption ==
    /\ IsFiniteSet(Warehouses)
    /\ Units \in Nat \ {0}
    /\ MaxRequests \in Nat
    /\ None \notin Warehouses \cup Counts \cup Txns
    /\ None \notin [at : Warehouses, expected : Nat, actual : Nat, status : {"DRAFT", "COMPLETED"}]

VARIABLES
    stock,     \* stock[w]: the committed Stock row of warehouse w
    layers,    \* units left in the IN layers, and how often some were taken
    count,     \* count[c]: an InventoryCount of one item, or None
    drifted,   \* history: stock and layers were told to part (see Commit)
    tx,        \* tx[t]: the transaction of t, or None
    requests   \* requests begun

vars == <<stock, layers, count, drifted, tx, requests>>

Total == SumFunction([w \in Warehouses |-> stock[w].quantity])

(* A transaction: the rows it read and those it has written, its lines     *)
(* still to do (quantities to add to the row), what it did to the layers.  *)
Transaction(kind, w, lines) ==
    [count |-> None, kind |-> kind, lines |-> lines, at |-> "read", from |-> w, to |-> None,
     saw |-> None, sawTo |-> None, sawLayers |-> None,
     rows |-> <<>>, units |-> 0, took |-> FALSE, parts |-> FALSE]

(* The rows at first: what was sold and received before.  Layers may fall  *)
(* short of stock that is older than they are.                             *)
Init ==
    /\ stock \in [Warehouses -> [quantity : 0..Units, reserved : {0}, version : {0}]]
    /\ \E n \in {Total, 0} : layers = [units |-> n, takes |-> 0]
    /\ count = [c \in Counts |-> None]
    /\ drifted = (layers.units # Total)
    /\ tx = [t \in Txns |-> None]
    /\ requests = 0

Running == {t \in Txns : tx[t] # None}
At(t, at) == t \in Running /\ tx[t].at = at

-----------------------------------------------------------------------------
(* What a transaction sees and what makes it wait.                         *)

Row(t, w) == IF w \in DOMAIN tx[t].rows THEN tx[t].rows[w] ELSE stock[w]

LayersSeen(t) == [units |-> layers.units + tx[t].units, takes |-> layers.takes]

(* Rows that t holds: those written, and those locked FOR UPDATE.          *)
Holds(t) ==
    DOMAIN tx[t].rows \cup (IF tx[t].kind = "reconcile" /\ tx[t].at # "read" THEN Warehouses ELSE {})

HeldByOther(t, w) == \E u \in Running \ {t} : w \in Holds(u)

LayersHeldByOther(t) == \E u \in Running \ {t} : tx[u].took

Wants(t) ==
    CASE tx[t].at = "write" -> {tx[t].from}
      [] tx[t].at = "writeTo" -> {tx[t].to}
      [] tx[t].at = "read" /\ tx[t].kind = "reconcile" -> Warehouses
      [] OTHER -> {}

Claimed(c) == {t \in Running : tx[t].count = c /\ tx[t].kind = "count" /\ tx[t].at # "claim"}

WaitsFor(t, u) ==
    /\ t # u
    /\ \/ Wants(t) \cap Holds(u) # {}
       \/ tx[t].at = "take" /\ tx[t].sawLayers.units > 0 /\ tx[u].took
       \/ tx[t].at = "claim" /\ u \in Claimed(tx[t].count)

-----------------------------------------------------------------------------
(* Requests.                                                               *)

Begin(t, transaction) ==
    /\ tx[t] = None
    /\ requests < MaxRequests
    /\ requests' = requests + 1
    /\ tx' = [tx EXCEPT ![t] = transaction]
    /\ UNCHANGED <<stock, layers, count, drifted>>

Adjust(t) ==
    \E w \in Warehouses, n \in (-Units..Units) \ {0} : Begin(t, Transaction("adjust", w, <<n>>))

Transfer(t) ==
    \E w, v \in Warehouses, n \in 1..Units :
        w # v /\ Begin(t, [Transaction("transfer", w, <<-n>>) EXCEPT !.to = v])

Reserve(t) ==
    \E w \in Warehouses, n \in 1..Units : Begin(t, Transaction("reserve", w, <<n>>))

Release(t) ==
    \E w \in Warehouses, n \in 1..Units : Begin(t, Transaction("release", w, <<n>>))

(* A sale or its refund may name the product in two items.                 *)
SaleCompleted(t) ==
    \E w \in Warehouses, lines \in {<<-1>>, <<-Units>>, <<-1, -1>>} :
        Begin(t, Transaction("sale", w, lines))

(* A sale without OUT layers is older than they are: nothing is restored.  *)
SaleRefunded(t) ==
    \E w \in Warehouses, kind \in {"refund", "legacyRefund"} :
        Begin(t, Transaction(kind, w, <<1, 1>>))

SalePartiallyRefunded(t) ==
    \E w \in Warehouses : Begin(t, Transaction("refund", w, <<1>>))

PurchaseReceived(t) ==
    \E w \in Warehouses : Begin(t, Transaction("receipt", w, <<Units>>))

CompleteReturn(t) ==
    \E w \in Warehouses, n \in 1..Units : Begin(t, Transaction("return", w, <<-n>>))

CancelReturn(t) ==
    \E w \in Warehouses : Begin(t, Transaction("undo", w, <<1>>))

(* The client sends the quantity it was shown as the expected one.         *)
CreateCount(c) ==
    /\ count[c] = None
    /\ requests < MaxRequests
    /\ requests' = requests + 1
    /\ \E w \in Warehouses, n \in 0..Units :
        count' = [count EXCEPT ![c] =
            [at |-> w, expected |-> stock[w].quantity, actual |-> n, status |-> "DRAFT"]]
    /\ UNCHANGED <<stock, layers, drifted, tx>>

CompleteCount(t) ==
    \E c \in Counts :
        /\ count[c] # None
        /\ count[c].status = "DRAFT"
        /\ LET n == count[c].actual - count[c].expected IN
            Begin(t, [Transaction("count", count[c].at, IF n = 0 THEN <<>> ELSE <<n>>)
                      EXCEPT !.count = c, !.at = "claim"])

Reconcile(t) == \E w \in Warehouses : Begin(t, Transaction("reconcile", w, <<>>))

Request(t) ==
    \/ Adjust(t) \/ Transfer(t) \/ Reserve(t) \/ Release(t)
    \/ SaleCompleted(t) \/ SaleRefunded(t) \/ SalePartiallyRefunded(t)
    \/ PurchaseReceived(t) \/ CompleteReturn(t) \/ CancelReturn(t)
    \/ CompleteCount(t) \/ Reconcile(t)

-----------------------------------------------------------------------------
(* Statements.                                                             *)

Stay == UNCHANGED <<stock, layers, count, drifted, requests>>

Abort(t) == tx' = [tx EXCEPT ![t] = None] /\ Stay

Becomes(t, new) == tx' = [tx EXCEPT ![t] = new] /\ Stay

(* The count row is written by its version: one completion wins.           *)
ClaimCount(t) ==
    /\ At(t, "claim")
    /\ Claimed(tx[t].count) = {}
    /\ IF count[tx[t].count].status = "DRAFT"
       THEN Becomes(t, [tx[t] EXCEPT !.at = IF tx[t].lines = <<>> THEN "commit" ELSE "read"])
       ELSE Abort(t)

Outgoing == {"sale", "return"}

With(rows, w, row) == [v \in DOMAIN rows \cup {w} |-> IF v = w THEN row ELSE rows[v]]

(* The checks on the row that was read.                                    *)
Admits(t, row) ==
    LET n == Head(tx[t].lines) IN
    CASE tx[t].kind \in Outgoing -> row.quantity - row.reserved >= -n
      [] tx[t].kind \in {"adjust", "transfer"} -> row.quantity + n >= 0
      [] tx[t].kind = "reserve" -> row.quantity - row.reserved >= n
      [] OTHER -> TRUE

ReadRows(t) ==
    /\ At(t, "read")
    /\ tx[t].kind # "reconcile"
    /\ IF Admits(t, Row(t, tx[t].from))
       THEN Becomes(t, [tx[t] EXCEPT
                !.at = "write",
                !.saw = Row(t, tx[t].from),
                !.sawTo = IF tx[t].to = None THEN None ELSE stock[tx[t].to]])
       ELSE Abort(t)

(* Every row of the product is locked, then one row is read again.         *)
MutantLockRows(t) ==
    /\ At(t, "read")
    /\ tx[t].kind = "reconcile"
    /\ Becomes(t, [tx[t] EXCEPT !.at = "aggregate", !.saw = stock[tx[t].from]])

MutantLockRowsSingly(t) ==
    /\ At(t, "read")
    /\ tx[t].kind = "reconcile"
    /\ LET w == tx[t].from IN
        IF w \in Holds(t)
        THEN /\ \A v \in Warehouses : ~HeldByOther(t, v)
             /\ Becomes(t, [tx[t] EXCEPT !.at = "aggregate", !.saw = stock[w]])
        ELSE /\ ~HeldByOther(t, w)
             /\ Becomes(t, [tx[t] EXCEPT !.rows = With(@, w, stock[w])])

LockRows(t) ==
    /\ At(t, "read")
    /\ tx[t].kind = "reconcile"
    /\ \A w \in Warehouses : ~HeldByOther(t, w)
    /\ Becomes(t, [tx[t] EXCEPT !.at = "aggregate", !.saw = stock[tx[t].from]])

(* The synthetic layer for the units that no layer stands for.             *)
FillLayers(t) ==
    /\ At(t, "aggregate")
    /\ LET delta == tx[t].saw.quantity - layers.units IN
        IF delta > 0
        THEN \/ Becomes(t, [tx[t] EXCEPT !.at = "commit", !.units = delta])
             \/ Abort(t)    \* no cost price, or filled before
        ELSE Abort(t)

Left(t) == Min({Head(tx[t].lines), tx[t].saw.reserved})

(* The row as the transaction leaves it.                                   *)
Written(t, row) ==
    LET n == Head(tx[t].lines) IN
    CASE tx[t].kind = "reserve" -> [row EXCEPT !.reserved = tx[t].saw.reserved + n]
      [] tx[t].kind = "release" -> [row EXCEPT !.reserved = tx[t].saw.reserved - Left(t)]
      [] tx[t].kind = "count" -> [row EXCEPT !.quantity = count[tx[t].count].actual]
      [] OTHER -> [row EXCEPT !.quantity = @ + n]

(* The condition of the update: the version that was read, or what the row *)
(* holds now.                                                              *)
MutantMayWriteVersion(t, row) ==
    CASE tx[t].kind \in Outgoing -> row.quantity >= tx[t].saw.reserved - Head(tx[t].lines)
      [] OTHER -> TRUE

MutantMayWriteQuantity(t, row) ==
    CASE tx[t].kind \in Outgoing \cup {"undo"} -> TRUE
      [] OTHER -> row.version = tx[t].saw.version

MayWrite(t, row) ==
    CASE tx[t].kind \in Outgoing -> row.quantity >= tx[t].saw.reserved - Head(tx[t].lines)
      [] tx[t].kind = "undo" -> TRUE
      [] OTHER -> row.version = tx[t].saw.version

AfterWrite(t) ==
    CASE tx[t].kind = "transfer" -> "writeTo"
      [] tx[t].kind \in {"reserve", "release"} -> "commit"
      [] OTHER -> IF Head(tx[t].lines) < 0 THEN "readLayers" ELSE "add"

WriteRow(t) ==
    /\ At(t, "write")
    /\ ~HeldByOther(t, tx[t].from)
    /\ LET w == tx[t].from
           row == Row(t, w) IN
        IF MayWrite(t, row)
        THEN Becomes(t, [tx[t] EXCEPT
                !.at = AfterWrite(t),
                !.rows = With(@, w, [Written(t, row) EXCEPT !.version = row.version + 1]),
                !.parts = \/ @
                          \/ tx[t].kind = "legacyRefund"
                          \/ tx[t].kind = "count" /\ row.quantity # count[tx[t].count].expected])
        ELSE Abort(t)

WriteDestination(t) ==
    /\ At(t, "writeTo")
    /\ ~HeldByOther(t, tx[t].to)
    /\ LET w == tx[t].to IN
        IF stock[w].version = tx[t].sawTo.version
        THEN Becomes(t, [tx[t] EXCEPT
                !.at = "commit",
                !.rows = With(@, w, [stock[w] EXCEPT !.quantity = @ - Head(tx[t].lines),
                                                     !.version = @ + 1])])
        ELSE Abort(t)

(* A line is done: the next one, if there is one.                          *)
Done(new) ==
    [new EXCEPT !.lines = Tail(@), !.saw = None, !.sawLayers = None,
                !.at = IF Len(new.lines) > 1 THEN "read" ELSE "commit"]

(* A unit cost is resolved from the layers, or from the cost price.        *)
MutantAddLayer(t) ==
    /\ At(t, "add")
    /\ LET priced == tx[t].kind \notin {"adjust", "count"} \/ LayersSeen(t).units > 0 IN
        Becomes(t, Done([tx[t] EXCEPT
            !.units = @ + (IF tx[t].kind = "legacyRefund" \/ ~priced THEN 0 ELSE Head(tx[t].lines))]))

AddLayer(t) ==
    /\ At(t, "add")
    /\ \/ Becomes(t, Done([tx[t] EXCEPT
            !.units = @ + (IF tx[t].kind = "legacyRefund" THEN 0 ELSE Head(tx[t].lines))]))
       \/ /\ tx[t].kind \in {"adjust", "count"}
          /\ LayersSeen(t).units = 0
          /\ Abort(t)

ReadLayers(t) ==
    /\ At(t, "readLayers")
    /\ Becomes(t, [tx[t] EXCEPT !.at = "take", !.sawLayers = LayersSeen(t)])

(* Oldest layers first, each by the quantity that was read in it; what the *)
(* layers lack is priced at the cost price, or refused without one.        *)
TakeLayers(t) ==
    /\ At(t, "take")
    /\ tx[t].sawLayers.units > 0 => ~LayersHeldByOther(t)
    /\ LET taken == Min({-Head(tx[t].lines), tx[t].sawLayers.units})
           fresh == taken = 0 \/ layers.takes = tx[t].sawLayers.takes IN
        \/ /\ fresh
           /\ Becomes(t, Done([tx[t] EXCEPT !.units = @ - taken, !.took = @ \/ taken > 0]))
        \/ /\ ~fresh \/ taken < -Head(tx[t].lines)
           /\ Abort(t)

Commit(t) ==
    /\ At(t, "commit")
    /\ stock' = [w \in Warehouses |-> Row(t, w)]
    /\ layers' = [units |-> layers.units + tx[t].units,
                  takes |-> layers.takes + (IF tx[t].took THEN 1 ELSE 0)]
    /\ count' = IF tx[t].kind = "count"
                THEN [count EXCEPT ![tx[t].count].status = "COMPLETED"]
                ELSE count
    /\ drifted' = (drifted \/ tx[t].parts)
    /\ tx' = [tx EXCEPT ![t] = None]
    /\ UNCHANGED requests

(* An error, a crash, or the choice of a deadlock's victim.                *)
Fail(t) == t \in Running /\ Abort(t)

Statement(t) ==
    \/ ClaimCount(t) \/ ReadRows(t) \/ LockRows(t) \/ FillLayers(t)
    \/ WriteRow(t) \/ WriteDestination(t) \/ AddLayer(t)
    \/ ReadLayers(t) \/ TakeLayers(t) \/ Commit(t) \/ Fail(t)

Next ==
    \/ \E t \in Txns : Request(t) \/ Statement(t)
    \/ \E c \in Counts : CreateCount(c)

Spec == Init /\ [][Next]_vars

-----------------------------------------------------------------------------
(* Properties.                                                             *)

(* The variables have their types; above all, no quantity, reservation or  *)
(* pool of layers is ever negative (strict stock).                         *)
TypeOK ==
    /\ \A w \in Warehouses : stock[w] \in [quantity : Nat, reserved : Nat, version : Nat]
    /\ layers \in [units : Nat, takes : Nat]
    /\ \A c \in Counts : count[c] # None =>
        /\ count[c].at \in Warehouses
        /\ count[c].status \in {"DRAFT", "COMPLETED"}
    /\ drifted \in BOOLEAN
    /\ requests \in 0..MaxRequests

(* Every unit in stock stands in a cost layer, and no layer stands for a   *)
(* unit that is gone, whatever runs at the same time: unless the data was  *)
(* short of layers from the start (Init, a refund of an old sale), or a    *)
(* count has overwritten another quantity than the one it expected.        *)
UnitsValued == ~drifted => layers.units = Total

(* A reservation that goes through leaves no more reserved than there is:  *)
(* a sale, a transfer or another reservation that comes in between makes   *)
(* it fail.                                                                *)
ReserveWithinStock ==
    [][\A w \in Warehouses :
        stock'[w].reserved > stock[w].reserved => stock'[w].reserved <= stock'[w].quantity]_vars

(* A reconciliation never makes the layers stand for more units than there *)
(* are, although it sums the layers after it has read the stock.           *)
ReconcileWithinStock ==
    [][\A t \in Running :
        tx[t].kind = "reconcile" /\ layers'.units > layers.units /\ stock' = stock
            => layers'.units <= Total]_vars

(* Transactions wait for one another in a circle only if one of them is a  *)
(* transfer (two transfers in opposite directions do): the others take the *)
(* stock row before the layers.                                            *)
OnlyTransfersDeadlock ==
    \A ring \in SUBSET Running :
        ring # {} /\ (\A t \in ring : \E u \in ring : WaitsFor(t, u))
            => \E t \in ring : tx[t].kind = "transfer"

(* What the sale handler promises: no sale is completed out of units that  *)
(* are reserved.                                                           *)
SalesLeaveReserved ==
    [][\A t \in Running :
        tx[t].kind = "sale" /\ tx'[t] = None /\ stock' # stock
            => stock'[tx[t].from].quantity >= stock'[tx[t].from].reserved]_vars
=============================================================================

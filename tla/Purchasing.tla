----------------------------- MODULE Purchasing -----------------------------
(***************************************************************************)
(* One purchase order, its goods receipts, and the returns of what was     *)
(* received to the supplier: PurchaseOrderService, GoodsReceiptService and *)
(* PurchaseReturnService, a SQL statement at a time under READ COMMITTED.  *)
(* The order and its items are written by the rowVersion that was read; a  *)
(* return is completed, and its completion undone, by a condition on its   *)
(* status; every other change of a return is written whatever its row has  *)
(* become since it was read.  All items of the order are of one product,   *)
(* which is what returns are counted by.  The stock that receipts and      *)
(* returns move is in Stock, the entries they post are in Ledger, the      *)
(* invoices that keep an order from being cancelled are in Payables.       *)
(* Operators named Mutant.. are plausible bugs of the definition that      *)
(* follows them.                                                           *)
(***************************************************************************)
EXTENDS Integers, Sequences, FiniteSetsExt, Null

CONSTANTS
    Items,         \* items (lines) of the order
    Receipts,      \* receipt numbers, made by the clients
    Returns,       \* purchase returns that can be drawn up
    Txns,          \* transactions that can run at the same time
    Units,         \* the largest quantity of a line
    MaxRequests    \* bound on the number of requests

ASSUME PurchasingAssumption ==
    /\ Items # {} /\ IsFiniteSet(Items)
    /\ IsFiniteSet(Receipts)
    /\ Receipts \cap Returns = {}
    /\ Units \in Nat \ {0}
    /\ MaxRequests \in Nat
    /\ None \notin Items \cup Receipts \cup Returns \cup Txns

VARIABLES
    order,      \* the PurchaseOrder row: status, version
    item,       \* item[i]: a PurchaseOrderItem row
    receipt,    \* receipt[n]: units of each item in a GoodsReceipt, or None
    return,     \* return[r]: a PurchaseReturn of one line, or None
    shipped,    \* shipped[r]: units taken out of stock for r (history)
    restored,   \* restored[r]: units put back by undoing r (history)
    tx,         \* tx[t]: the transaction of t, or None
    requests    \* requests begun

vars == <<order, item, receipt, return, shipped, restored, tx, requests>>

(* VALID_TRANSITIONS                                                       *)
Transitions ==
    [DRAFT |-> {"PENDING", "CANCELLED"},
     PENDING |-> {"APPROVED", "CANCELLED"},
     APPROVED |-> {"ORDERED", "CANCELLED"},
     ORDERED |-> {"PARTIALLY_RECEIVED", "RECEIVED", "CANCELLED"},
     PARTIALLY_RECEIVED |-> {"RECEIVED", "CANCELLED"},
     RECEIVED |-> {},
     CANCELLED |-> {}]

Statuses == DOMAIN Transitions

(* A transaction: what it does and to which row, the status it is to set,  *)
(* the quantity of a return or the lines of a receipt, what it has read    *)
(* (saw) and the rows it has written (rows) or item rows changed (wrote).  *)
Transaction(kind, step, target, status, quantity, lines) ==
    [kind |-> kind, step |-> step, target |-> target, status |-> status,
     quantity |-> quantity, lines |-> lines, todo |-> lines,
     saw |-> None, wrote |-> <<>>, rows |-> {}]

(* No value is mistaken for another.                                       *)
ASSUME NoneAssumption ==
    /\ None \notin Statuses
    /\ None \notin [Items -> Nat]
    /\ None \notin [status : {"DRAFT", "APPROVED", "COMPLETED", "CANCELLED"},
                    quantity : Nat, undone : BOOLEAN]

(* An order that has just been made, or has been sent to the supplier; or  *)
(* one that has come in with one receipt, of which a unit may have been    *)
(* sent back.                                                              *)
InitFresh ==
    /\ order \in [status : {"DRAFT", "ORDERED"}, version : {0}]
    /\ item \in [Items -> [quantity : 1..Units, received : {0}, version : {0}]]
    /\ receipt = [n \in Receipts |-> None]
    /\ return = [r \in Returns |-> None]
    /\ shipped = [r \in Returns |-> 0]

InitReceived ==
    /\ order = [status |-> "RECEIVED", version |-> 0]
    /\ item \in [Items -> {[quantity |-> q, version |-> 0, received |-> q] : q \in 1..Units}]
    /\ \E n \in Receipts :
        receipt = [m \in Receipts |-> IF m = n THEN [i \in Items |-> item[i].quantity] ELSE None]
    /\ \E R \in SUBSET Returns :
        /\ Cardinality(R) <= 1
        /\ return = [r \in Returns |->
                IF r \in R THEN [status |-> "COMPLETED", quantity |-> 1, undone |-> FALSE] ELSE None]
        /\ shipped = [r \in Returns |-> IF r \in R THEN 1 ELSE 0]

Init ==
    /\ InitFresh \/ InitReceived
    /\ restored = [r \in Returns |-> 0]
    /\ tx = [t \in Txns |-> None]
    /\ requests = 0

Running == {t \in Txns : tx[t] # None}
At(t, step) == t \in Running /\ tx[t].step = step

ItemSeen(t, i) == IF i \in DOMAIN tx[t].wrote THEN tx[t].wrote[i] ELSE item[i]

HeldByOther(t, row) == \E u \in Running \ {t} : row \in tx[u].rows

OrderRow == <<"order">>
ItemRow(i) == <<"item", i>>
ReceiptRow(n) == <<"receipt", n>>
ReturnRow(r) == <<"return", r>>

LineSum(lines, i) ==
    SumFunction([k \in DOMAIN lines |-> IF lines[k][1] = i THEN lines[k][2] ELSE 0])

Receipted(i) ==
    SumFunction([n \in Receipts |-> IF receipt[n] = None THEN 0 ELSE receipt[n][i]])

(* Of all receipts of the supplier, whatever has become of the order.      *)
Received == SumFunction([i \in Items |-> Receipted(i)])

(* What the other returns take up: a completed one, or an approved one.    *)
Consumed(r) ==
    MapThenSumSet(LAMBDA q : return[q].quantity,
        {q \in Returns \ {r} : return[q] # None /\ ~return[q].undone
                               /\ return[q].status \in {"APPROVED", "COMPLETED"}})

-----------------------------------------------------------------------------
(* Requests.                                                               *)

Data == <<order, item, receipt, return, shipped, restored>>

Becomes(t, new) == tx' = [tx EXCEPT ![t] = new] /\ UNCHANGED <<Data, requests>>

Abort(t) == Becomes(t, None)

Begin(t, transaction) ==
    /\ tx[t] = None
    /\ requests < MaxRequests
    /\ requests' = requests + 1
    /\ tx' = [tx EXCEPT ![t] = transaction]
    /\ UNCHANGED Data

(* Another status for the order, set by hand.                              *)
Transition(t) ==
    \E status \in Statuses :
        Begin(t, Transaction("transition", "order", None, status, 0, <<>>))

(* Other items for a draft.                                                *)
EditOrder(t) ==
    \E q \in 1..Units : Begin(t, Transaction("editOrder", "order", None, None, q, <<>>))

(* A receipt may name an item twice, and the items in any order.           *)
Receive(t) ==
    \E n \in Receipts,
       lines \in {<<<<i, q>>>> : i \in Items, q \in 1..Units}
                 \cup {<<<<i, 1>>, <<j, 1>>>> : i, j \in Items} :
        Begin(t, Transaction("receive", "order", n, None, 0, lines))

CreateReturn ==
    \E r \in Returns, q \in 1..Units :
        /\ return[r] = None
        /\ requests < MaxRequests
        /\ requests' = requests + 1
        /\ return' = [return EXCEPT ![r] = [status |-> "DRAFT", quantity |-> q, undone |-> FALSE]]
        /\ UNCHANGED <<order, item, receipt, shipped, restored, tx>>

Drawn == {r \in Returns : return[r] # None}

EditReturn(t) ==
    \E r \in Drawn, q \in 1..Units :
        Begin(t, Transaction("editReturn", "return", r, None, q, <<>>))

TransitionReturn(t) ==
    \E r \in Drawn, status \in {"APPROVED", "CANCELLED"} :
        Begin(t, Transaction("setReturn", "return", r, status, 0, <<>>))

CompleteReturn(t) ==
    \E r \in Drawn : Begin(t, Transaction("complete", "return", r, "COMPLETED", 0, <<>>))

UndoReturn(t) ==
    \E r \in Drawn : Begin(t, Transaction("undo", "return", r, None, 0, <<>>))

-----------------------------------------------------------------------------
(* Statements on the order, its items and its receipts.                    *)

AdmitsOrder(t) ==
    CASE tx[t].kind = "transition" -> tx[t].status \in Transitions[order.status]
      [] tx[t].kind = "editOrder" -> order.status = "DRAFT"
      [] tx[t].kind = "receive" -> order.status \in {"ORDERED", "PARTIALLY_RECEIVED"}

AfterOrder(t) ==
    CASE tx[t].kind = "receive" -> "items"
      [] tx[t].kind = "editOrder" -> "replace"
      [] tx[t].status = "CANCELLED" -> "check"
      [] OTHER -> "writeOrder"

ReadOrder(t) ==
    /\ At(t, "order")
    /\ IF AdmitsOrder(t)
       THEN Becomes(t, [tx[t] EXCEPT
                !.step = AfterOrder(t),
                !.saw = IF tx[t].kind = "receive" THEN None ELSE order.version])
       ELSE Abort(t)

(* Nothing may have been received on an order that is cancelled.           *)
CheckUnreceived(t) ==
    /\ At(t, "check")
    /\ IF Received = 0 /\ \A i \in Items : item[i].received = 0
       THEN Becomes(t, [tx[t] EXCEPT !.step = "writeOrder"])
       ELSE Abort(t)

(* The items are deleted and made anew.                                    *)
ReplaceItems(t) ==
    /\ At(t, "replace")
    /\ \A i \in Items : ~HeldByOther(t, ItemRow(i))
    /\ Becomes(t, [tx[t] EXCEPT
            !.step = "writeOrder",
            !.rows = @ \cup {ItemRow(i) : i \in Items},
            !.wrote = [i \in Items |-> [quantity |-> tx[t].quantity, version |-> 0, received |-> 0]]])

(* Each line is checked by itself against what was read.                   *)
CheckLines(t) ==
    /\ At(t, "items")
    /\ IF \A k \in DOMAIN tx[t].lines :
            LET row == item[tx[t].lines[k][1]] IN
            tx[t].lines[k][2] <= row.quantity - row.received
       THEN Becomes(t, [tx[t] EXCEPT !.step = "insert"])
       ELSE Abort(t)

InsertReceipt(t) ==
    LET row == ReceiptRow(tx[t].target) IN
    /\ At(t, "insert")
    /\ ~HeldByOther(t, row)
    /\ IF receipt[tx[t].target] = None
       THEN Becomes(t, [tx[t] EXCEPT !.step = "readItem", !.rows = @ \cup {row}])
       ELSE Abort(t)    \* the number is taken

ReadItem(t) ==
    /\ At(t, "readItem")
    /\ Becomes(t, [tx[t] EXCEPT !.step = "writeItem", !.saw = ItemSeen(t, Head(tx[t].todo)[1])])

With(rows, i, row) == [j \in DOMAIN rows \cup {i} |-> IF j = i THEN row ELSE rows[j]]

(* By the version that was read, and never above what was ordered.         *)
MutantWriteItem(t) ==
    LET i == Head(tx[t].todo)[1]
        received == tx[t].saw.received + Head(tx[t].todo)[2] IN
    /\ At(t, "writeItem")
    /\ ~HeldByOther(t, ItemRow(i))
    /\ IF received <= item[i].quantity
       THEN Becomes(t, [tx[t] EXCEPT
                !.step = IF Len(tx[t].todo) = 1 THEN "orderAgain" ELSE "readItem",
                !.todo = Tail(@),
                !.saw = None,
                !.rows = @ \cup {ItemRow(i)},
                !.wrote = With(@, i, [ItemSeen(t, i) EXCEPT !.received = received, !.version = @ + 1])])
       ELSE Abort(t)

WriteItem(t) ==
    LET i == Head(tx[t].todo)[1]
        received == tx[t].saw.received + Head(tx[t].todo)[2] IN
    /\ At(t, "writeItem")
    /\ ~HeldByOther(t, ItemRow(i))
    /\ IF ItemSeen(t, i).version = tx[t].saw.version /\ received <= item[i].quantity
       THEN Becomes(t, [tx[t] EXCEPT
                !.step = IF Len(tx[t].todo) = 1 THEN "orderAgain" ELSE "readItem",
                !.todo = Tail(@),
                !.saw = None,
                !.rows = @ \cup {ItemRow(i)},
                !.wrote = With(@, i, [ItemSeen(t, i) EXCEPT !.received = received, !.version = @ + 1])])
       ELSE Abort(t)

(* updateStatusAfterReceipt reads the order first, then its items.         *)
ReadOrderAgain(t) ==
    /\ At(t, "orderAgain")
    /\ Becomes(t, [tx[t] EXCEPT !.step = "count", !.saw = order.version])

CountReceived(t) ==
    LET all == \A i \in Items : ItemSeen(t, i).received >= ItemSeen(t, i).quantity IN
    /\ At(t, "count")
    /\ Becomes(t, [tx[t] EXCEPT
            !.step = "writeOrder",
            !.status = IF all THEN "RECEIVED" ELSE "PARTIALLY_RECEIVED"])

MutantWriteOrderCancel(t) ==
    /\ At(t, "writeOrder")
    /\ ~HeldByOther(t, OrderRow)
    /\ IF order.version = tx[t].saw \/ tx[t].status = "CANCELLED"
       THEN Becomes(t, [tx[t] EXCEPT !.step = "commit", !.rows = @ \cup {OrderRow}])
       ELSE Abort(t)

MutantWriteOrderReceipt(t) ==
    /\ At(t, "writeOrder")
    /\ ~HeldByOther(t, OrderRow)
    /\ IF order.version = tx[t].saw \/ tx[t].kind = "receive"
       THEN Becomes(t, [tx[t] EXCEPT !.step = "commit", !.rows = @ \cup {OrderRow}])
       ELSE Abort(t)

WriteOrder(t) ==
    /\ At(t, "writeOrder")
    /\ ~HeldByOther(t, OrderRow)
    /\ IF order.version = tx[t].saw
       THEN Becomes(t, [tx[t] EXCEPT !.step = "commit", !.rows = @ \cup {OrderRow}])
       ELSE Abort(t)

-----------------------------------------------------------------------------
(* Statements on the returns.                                              *)

AdmitsReturn(t) ==
    LET row == return[tx[t].target] IN
    CASE tx[t].kind = "editReturn" -> row.status = "DRAFT"
      [] tx[t].kind = "setReturn" ->
            row.status \in (IF tx[t].status = "APPROVED" THEN {"DRAFT"} ELSE {"DRAFT", "APPROVED"})
      [] tx[t].kind = "complete" -> row.status = "APPROVED"
      [] tx[t].kind = "undo" -> row.status = "COMPLETED" /\ ~row.undone

AfterReturn(t) ==
    CASE tx[t].kind \in {"complete", "undo"} -> "claim"
      [] tx[t].status = "CANCELLED" -> "writeReturn"
      [] OTHER -> "validate"

ReadReturn(t) ==
    /\ At(t, "return")
    /\ IF AdmitsReturn(t)
       THEN Becomes(t, [tx[t] EXCEPT !.step = AfterReturn(t)])
       ELSE Abort(t)

(* completeIfApproved and cancelIfCompleted: one caller wins.              *)
MutantClaimReturn(t) ==
    /\ At(t, "claim")
    /\ ~HeldByOther(t, ReturnRow(tx[t].target))
    /\ Becomes(t, [tx[t] EXCEPT
                !.step = IF tx[t].kind = "complete" THEN "validate" ELSE "layers",
                !.rows = @ \cup {ReturnRow(tx[t].target)}])

ClaimReturn(t) ==
    /\ At(t, "claim")
    /\ ~HeldByOther(t, ReturnRow(tx[t].target))
    /\ IF AdmitsReturn(t)
       THEN Becomes(t, [tx[t] EXCEPT
                !.step = IF tx[t].kind = "complete" THEN "validate" ELSE "layers",
                !.rows = @ \cup {ReturnRow(tx[t].target)}])
       ELSE Abort(t)

(* validateReturnableQuantities                                            *)
ValidateReturn(t) ==
    LET r == tx[t].target
        q == IF tx[t].kind = "editReturn" THEN tx[t].quantity ELSE return[r].quantity IN
    /\ At(t, "validate")
    /\ IF q <= Received - Consumed(r)
       THEN Becomes(t, [tx[t] EXCEPT
                !.step = IF tx[t].kind = "complete" THEN "commit" ELSE "writeReturn"])
       ELSE Abort(t)

(* The layers that r took must add up to its quantity.                     *)
FindLayers(t) ==
    /\ At(t, "layers")
    /\ IF shipped[tx[t].target] = return[tx[t].target].quantity
       THEN Becomes(t, [tx[t] EXCEPT !.step = "commit"])
       ELSE Abort(t)

(* Whatever the return has become since it was read.                       *)
WriteReturn(t) ==
    /\ At(t, "writeReturn")
    /\ ~HeldByOther(t, ReturnRow(tx[t].target))
    /\ Becomes(t, [tx[t] EXCEPT !.step = "commit", !.rows = @ \cup {ReturnRow(tx[t].target)}])

-----------------------------------------------------------------------------
ReturnWritten(t, row) ==
    CASE tx[t].kind = "editReturn" -> [row EXCEPT !.quantity = tx[t].quantity]
      [] tx[t].kind = "undo" -> [row EXCEPT !.undone = TRUE]
      [] OTHER -> [row EXCEPT !.status = tx[t].status]

Commit(t) ==
    LET r == tx[t].target
        units(kind) == IF tx[t].kind = kind THEN return[r].quantity ELSE 0 IN
    /\ At(t, "commit")
    /\ order' = IF OrderRow \notin tx[t].rows THEN order
                ELSE [status |-> IF tx[t].status = None THEN order.status ELSE tx[t].status,
                      version |-> order.version + 1]
    /\ item' = [i \in Items |-> ItemSeen(t, i)]
    /\ receipt' = IF tx[t].kind # "receive" THEN receipt
                  ELSE [receipt EXCEPT ![r] = [i \in Items |-> LineSum(tx[t].lines, i)]]
    /\ IF r \in Returns
       THEN /\ return' = [return EXCEPT ![r] = ReturnWritten(t, @)]
            /\ shipped' = [shipped EXCEPT ![r] = @ + units("complete")]
            /\ restored' = [restored EXCEPT ![r] = @ + units("undo")]
       ELSE UNCHANGED <<return, shipped, restored>>
    /\ tx' = [tx EXCEPT ![t] = None]
    /\ UNCHANGED requests

(* No stock, an error, a crash, or the choice of a deadlock's victim.      *)
Fail(t) == t \in Running /\ Abort(t)

Request(t) ==
    \/ Transition(t) \/ EditOrder(t) \/ Receive(t)
    \/ EditReturn(t) \/ TransitionReturn(t) \/ CompleteReturn(t) \/ UndoReturn(t)

Statement(t) ==
    \/ ReadOrder(t) \/ CheckUnreceived(t) \/ ReplaceItems(t) \/ CheckLines(t)
    \/ InsertReceipt(t) \/ ReadItem(t) \/ WriteItem(t)
    \/ ReadOrderAgain(t) \/ CountReceived(t) \/ WriteOrder(t)
    \/ ReadReturn(t) \/ ClaimReturn(t) \/ ValidateReturn(t) \/ FindLayers(t) \/ WriteReturn(t)
    \/ Commit(t) \/ Fail(t)

Next ==
    \/ \E t \in Txns : Request(t) \/ Statement(t)
    \/ CreateReturn

Spec == Init /\ [][Next]_vars

-----------------------------------------------------------------------------
(* Properties.                                                             *)

(* What an item says was received is what the receipts brought, and never  *)
(* more than was ordered, whatever receipts run at the same time.          *)
ReceivedCounted ==
    \A i \in Items : item[i].received = Receipted(i) /\ Receipted(i) <= item[i].quantity

(* An order all of which has come in says so: of two receipts that bring   *)
(* the last of two items at the same time, one notices.                    *)
FullyReceived ==
    (\A i \in Items : item[i].received = item[i].quantity) => order.status = "RECEIVED"

(* No goods come in on an order that stays cancelled: a cancellation and a *)
(* receipt that do not see one another do not both go through as they are. *)
CancelledUnreceived == order.status = "CANCELLED" => Received = 0

(* Undoing a return puts back no more than was sent to the supplier.       *)
RestoredWasShipped == \A r \in Returns : restored[r] <= shipped[r]

(* What VALID_TRANSITIONS says: a cancelled order stays cancelled.         *)
CancelledIsFinal == [][order.status = "CANCELLED" => order'.status = "CANCELLED"]_vars

(* What validateReturnableQuantities says: what is sent back is within     *)
(* what was received.                                                      *)
ReturnedWithinReceived ==
    MapThenSumSet(LAMBDA r : shipped[r] - restored[r], Returns) <= Received
=============================================================================

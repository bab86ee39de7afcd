-------------------------- MODULE PurchasingProofs --------------------------
(***************************************************************************)
(* Proofs about Purchasing: what an item says was received is what its     *)
(* receipts brought, an order that has all come in says so, none comes in  *)
(* on an order that stays cancelled, and no return is undone for more than *)
(* it shipped; for any numbers of items, receipts, returns and             *)
(* transactions.  A transaction x knows things about the rows: the order   *)
(* o, the items it, the receipts rc, the returns rt and the units sh that  *)
(* were shipped for them.  OrderSide and ReturnSide say what, and are      *)
(* operators of the rows, to be compared before and after a commit.        *)
(***************************************************************************)
EXTENDS Purchasing, SumTheorems, SequenceTheorems

OrderKinds == {"transition", "editOrder", "receive"}
ReturnKinds == {"editReturn", "setReturn", "complete", "undo"}

Fields == {"kind", "step", "target", "status", "quantity", "lines", "todo",
           "saw", "wrote", "rows"}

OrderRows == [status : Statuses, version : Nat]
ItemRows == [quantity : Nat \ {0}, received : Nat, version : Nat]
ReturnRows == [status : {"DRAFT", "APPROVED", "COMPLETED", "CANCELLED"},
               quantity : Nat, undone : BOOLEAN]
Lines == Seq(Items \X Nat)

(* What becomes of an order that has been sent: it is not a draft again.   *)
Sent == {"ORDERED", "PARTIALLY_RECEIVED", "RECEIVED", "CANCELLED"}

(* Item i as transaction x sees it.                                        *)
ItemOf(x, i, it) == IF i \in DOMAIN x.wrote THEN x.wrote[i] ELSE it[i]

(* Receipts that brought nothing.                                          *)
Nothing(rc) == \A n \in Receipts : rc[n] = None \/ \A i \in Items : rc[n][i] = 0

-----------------------------------------------------------------------------
(* What transactions on the order know.                                    *)

(* A change of the order is made while the version that was read stands.   *)
OrderSeen(x, o) ==
    /\ x.saw \in Nat
    /\ x.saw <= o.version
    /\ x.step = "commit" => OrderRow \in x.rows /\ o.version = x.saw

(* Then the status of the order is still the one that admitted the change, *)
(* and if it was unreceived it still is.                                   *)
TransitionKnows(x, o, rc) ==
    /\ x.step \in {"order", "check", "writeOrder", "commit"}
    /\ x.target = None /\ x.status \in Statuses
    /\ DOMAIN x.wrote = {}
    /\ x.step # "order" =>
        /\ OrderSeen(x, o)
        /\ o.version = x.saw =>
            /\ x.status \in Transitions[o.status]
            /\ x.status = "CANCELLED" /\ x.step # "check" => Nothing(rc)

EditKnows(x, o) ==
    /\ x.step \in {"order", "replace", "writeOrder", "commit"}
    /\ x.target = None /\ x.status = None
    /\ x.quantity \in Nat \ {0}
    /\ x.step \in {"order", "replace"} => DOMAIN x.wrote = {}
    /\ x.step # "order" =>
        /\ OrderSeen(x, o)
        /\ o.version = x.saw => o.status = "DRAFT"
    /\ x.step \in {"writeOrder", "commit"} =>
        x.wrote = [i \in Items |-> [quantity |-> x.quantity, version |-> 0, received |-> 0]]

(* The rows that a receipt has written add its lines, less those still to  *)
(* come, to the items; they keep within what was ordered.                  *)
ReceiptRowsOK(x, it) ==
    \A i \in Items :
        IF i \in DOMAIN x.wrote
        THEN /\ x.wrote[i].received + LineSum(x.todo, i) = it[i].received + LineSum(x.lines, i)
             /\ x.wrote[i].received <= it[i].quantity
             /\ x.wrote[i].quantity = it[i].quantity
             /\ it[i].version < x.wrote[i].version
        ELSE LineSum(x.todo, i) = LineSum(x.lines, i)

(* An item that was read is what it was as long as its version stands.     *)
ItemRead(x, i, it) ==
    /\ x.saw \in ItemRows
    /\ IF i \in DOMAIN x.wrote THEN x.saw = x.wrote[i]
       ELSE /\ x.saw.version <= it[i].version
            /\ x.saw.version = it[i].version => x.saw.received = it[i].received

ReceiveKnows(x, o, it, rc) ==
    /\ x.step \in {"order", "items", "insert", "readItem", "writeItem",
                   "orderAgain", "count", "writeOrder", "commit"}
    /\ x.target \in Receipts
    /\ x.lines \in Lines /\ x.todo \in Lines
    /\ x.step = "order" => x.status = None
    /\ ReceiptRowsOK(x, it)
    /\ x.step # "order" => o.status \in Sent
    /\ x.step \notin {"order", "items", "insert"} =>
        rc[x.target] = None /\ ReceiptRow(x.target) \in x.rows
    /\ x.step \in {"order", "items", "insert", "readItem", "writeItem"} => x.todo # <<>>
    /\ x.step = "writeItem" => ItemRead(x, Head(x.todo)[1], it)
    /\ x.step \in {"orderAgain", "count", "writeOrder", "commit"} => x.todo = <<>>
    /\ x.step \in {"count", "writeOrder", "commit"} => OrderSeen(x, o)
    /\ x.step \in {"writeOrder", "commit"} =>
        /\ x.status \in {"RECEIVED", "PARTIALLY_RECEIVED"}
        /\ o.version = x.saw
           /\ (\A i \in Items : ItemOf(x, i, it).received = ItemOf(x, i, it).quantity)
            => x.status = "RECEIVED"

OrderSide(x, o, it, rc) ==
    /\ OrderRow \in x.rows => x.step = "commit"
    /\ DOMAIN x.wrote \subseteq Items
    /\ \A i \in DOMAIN x.wrote : x.wrote[i] \in ItemRows /\ ItemRow(i) \in x.rows
    /\ x.kind = "transition" => TransitionKnows(x, o, rc)
    /\ x.kind = "editOrder" => EditKnows(x, o)
    /\ x.kind = "receive" => ReceiveKnows(x, o, it, rc)

-----------------------------------------------------------------------------
(* What transactions on a return know: one that claims it, by its status,  *)
(* has it to itself from then on.                                          *)
ReturnSide(x, rt, sh) ==
    /\ x.step \in {"return", "claim", "validate", "layers", "writeReturn", "commit"}
    /\ x.target \in Returns /\ rt[x.target] # None
    /\ DOMAIN x.wrote = {} /\ OrderRow \notin x.rows
    /\ x.kind = "editReturn" => x.quantity \in Nat
    /\ x.kind = "setReturn" => x.status \in {"APPROVED", "CANCELLED"}
    /\ x.kind = "complete" => x.status = "COMPLETED"
    /\ x.kind = "undo" => x.status = None
    /\ x.step = "commit" => ReturnRow(x.target) \in x.rows
    /\ x.kind = "complete" /\ x.step = "validate" => ReturnRow(x.target) \in x.rows
    /\ x.kind = "undo" => x.step \notin {"validate", "writeReturn"}
    /\ x.kind # "undo" => x.step # "layers"
    /\ x.kind \notin {"complete", "undo"} => x.step # "claim"
    /\ x.kind = "undo" /\ x.step \in {"layers", "commit"} =>
        ReturnRow(x.target) \in x.rows /\ ~rt[x.target].undone
    /\ x.kind = "undo" /\ x.step = "commit" => sh[x.target] = rt[x.target].quantity

Good(x, o, it, rc, rt, sh) ==
    /\ DOMAIN x = Fields
    /\ x.kind \in OrderKinds \cup ReturnKinds
    /\ x.kind \in OrderKinds => OrderSide(x, o, it, rc)
    /\ x.kind \in ReturnKinds => ReturnSide(x, rt, sh)

-----------------------------------------------------------------------------
(* The inductive invariant.                                                *)

TypesOK ==
    /\ order \in OrderRows
    /\ item \in [Items -> ItemRows]
    /\ receipt \in [Receipts -> [Items -> Nat] \cup {None}]
    /\ return \in [Returns -> ReturnRows \cup {None}]
    /\ shipped \in [Returns -> Nat]
    /\ restored \in [Returns -> Nat]

(* Nothing has come in on an order that has not been sent.                 *)
UnsentEmpty == order.status \notin Sent => \A n \in Receipts : receipt[n] = None

(* Units are put back only for a return that is marked as undone.          *)
RestoredUndone ==
    \A r \in Returns : return[r] = None \/ ~return[r].undone => restored[r] = 0

DataInv ==
    /\ TypesOK /\ UnsentEmpty /\ RestoredUndone
    /\ ReceivedCounted /\ FullyReceived /\ CancelledUnreceived /\ RestoredWasShipped

(* No two transactions hold a row.                                         *)
RowsApart == \A t, u \in Running : t # u => tx[t].rows \cap tx[u].rows = {}

AllGood ==
    /\ DOMAIN tx = Txns
    /\ \A t \in Running : Good(tx[t], order, item, receipt, return, shipped)

IInv == DataInv /\ RowsApart /\ AllGood

-----------------------------------------------------------------------------
(* Facts about rows and sums.                                              *)

LEMMA RowsDiffer ==
    /\ \A i, j : ItemRow(i) = ItemRow(j) => i = j
    /\ \A i, j : ReceiptRow(i) = ReceiptRow(j) => i = j
    /\ \A i, j : ReturnRow(i) = ReturnRow(j) => i = j
    /\ \A i : OrderRow # ItemRow(i) /\ OrderRow # ReceiptRow(i) /\ OrderRow # ReturnRow(i)
    /\ \A i, j : ItemRow(i) # ReceiptRow(j) /\ ItemRow(i) # ReturnRow(j) /\ ReceiptRow(i) # ReturnRow(j)
BY DEF OrderRow, ItemRow, ReceiptRow, ReturnRow

LEMMA LineSumEmpty == \A i : LineSum(<<>>, i) = 0
BY SumEmpty DEF LineSum, SumFunction

LEMMA LineSumNat == ASSUME NEW s \in Lines, NEW i PROVE LineSum(s, i) \in Nat
<1> DEFINE f == [k \in DOMAIN s |-> IF s[k][1] = i THEN s[k][2] ELSE 0]
<1>1. IsFiniteSet(DOMAIN s)
  <2>1. DOMAIN s = 1..Len(s) /\ Len(s) \in Nat
    BY DEF Lines
  <2> QED BY <2>1, FS_Interval
<1>2. \A k \in DOMAIN s : f[k] \in Nat
  <2>1. \A k \in DOMAIN s : s[k] \in Items \X Nat
    BY DEF Lines
  <2> QED BY <2>1
<1>3. DOMAIN f = DOMAIN s
  OBVIOUS
<1> HIDE DEF f
<1>4. SumFunction(f) \in Nat
  BY <1>1, <1>2, <1>3, SumNat DEF SumFunction
<1> QED BY <1>4 DEF LineSum, f

(* The lines of a receipt are those after the first, and the first.        *)
LEMMA LineSumHead ==
    ASSUME NEW s \in Lines, s # <<>>, NEW i
    PROVE  /\ Tail(s) \in Lines /\ Head(s)[1] \in Items /\ Head(s)[2] \in Nat
           /\ LineSum(s, i) = LineSum(Tail(s), i) + (IF Head(s)[1] = i THEN Head(s)[2] ELSE 0)
<1> DEFINE f == [k \in DOMAIN s |-> IF s[k][1] = i THEN s[k][2] ELSE 0]
           t == Tail(s)
           g == [k \in DOMAIN t |-> IF t[k][1] = i THEN t[k][2] ELSE 0]
           b == [k \in DOMAIN t |-> k + 1]
<1>1. /\ t \in Lines /\ Head(s) = s[1] /\ s[1] \in Items \X Nat
      /\ DOMAIN s = 1..Len(s) /\ Len(s) \in Nat \ {0}
      /\ DOMAIN t = 1..(Len(s) - 1)
      /\ \A k \in DOMAIN t : t[k] = s[k + 1]
      /\ \A k \in DOMAIN s : s[k] \in Items \X Nat
  BY DEF Lines
<1>2. IsFiniteSet(DOMAIN s) /\ IsFiniteSet(DOMAIN t)
  BY <1>1, FS_Interval
<1>3. \A k \in DOMAIN s : f[k] \in Int
  BY <1>1
<1>4. \A k \in DOMAIN t : b[k] = k + 1 /\ b[k] \in DOMAIN s /\ g[k] \in Int /\ f[b[k]] = g[k]
  BY <1>1
<1>5. {b[k] : k \in DOMAIN t} = DOMAIN s \ {1}
  <2>1. \A k \in DOMAIN s \ {1} : k - 1 \in DOMAIN t /\ b[k - 1] = k
    BY <1>1
  <2>2. \A k \in DOMAIN t : b[k] \in DOMAIN s \ {1}
    BY <1>1
  <2> HIDE DEF b, t
  <2> QED BY <2>1, <2>2
<1>6. /\ DOMAIN f = DOMAIN s /\ DOMAIN g = DOMAIN t /\ 1 \in DOMAIN s
      /\ \A j, k \in DOMAIN t : b[j] = b[k] => j = k
  BY <1>1
<1>7. LineSum(s, i) = SumFunctionOnSet(f, DOMAIN s) /\ LineSum(Tail(s), i) = SumFunctionOnSet(g, DOMAIN t)
  BY DEF LineSum, SumFunction
<1>8. f[1] = IF Head(s)[1] = i THEN Head(s)[2] ELSE 0
  BY <1>1
<1> HIDE DEF f, g, b, t
<1>9. SumFunctionOnSet(f, DOMAIN s) = f[1] + SumFunctionOnSet(f, DOMAIN s \ {1})
  BY <1>2, <1>3, <1>6, SumRemove
<1>10. SumFunctionOnSet(g, DOMAIN t) = SumFunctionOnSet(f, DOMAIN s \ {1})
  <2> DEFINE D == DOMAIN t
  <2>1. IsFiniteSet(D) /\ \A k \in D : g[k] \in Int /\ f[b[k]] = g[k]
    BY <1>2, <1>4
  <2>2. \A j, k \in D : b[j] = b[k] => j = k
    BY <1>6
  <2> HIDE DEF D
  <2>3. SumFunctionOnSet(g, D) = SumFunctionOnSet(f, {b[k] : k \in D})
    BY <2>1, <2>2, SumRename
  <2> QED BY <2>3, <1>5 DEF D
<1>11. SumFunctionOnSet(g, DOMAIN t) \in Int /\ f[1] \in Int
  BY <1>2, <1>3, <1>4, <1>6, SumInt
<1> QED BY <1>1, <1>7, <1>8, <1>9, <1>10, <1>11 DEF t

LEMMA ReceiptedNat ==
    ASSUME TypesOK, NEW i \in Items
    PROVE  /\ Receipted(i) \in Nat
           /\ Receipted(i) = 0 <=> \A n \in Receipts : receipt[n] = None \/ receipt[n][i] = 0
<1> DEFINE f == [n \in Receipts |-> IF receipt[n] = None THEN 0 ELSE receipt[n][i]]
<1>1. \A n \in Receipts : f[n] \in Nat
  BY DEF TypesOK
<1>2. DOMAIN f = Receipts
  OBVIOUS
<1>3. (\A n \in Receipts : f[n] = 0) <=> \A n \in Receipts : receipt[n] = None \/ receipt[n][i] = 0
  OBVIOUS
<1> HIDE DEF f
<1>4. SumFunction(f) \in Nat /\ (SumFunction(f) = 0 <=> \A n \in Receipts : f[n] = 0)
  BY <1>1, <1>2, SumNat, SumZero, PurchasingAssumption DEF SumFunction
<1> QED BY <1>3, <1>4 DEF Receipted, f

LEMMA NothingReceived ==
    ASSUME TypesOK
    PROVE  Received = 0 <=> Nothing(receipt)
<1> DEFINE f == [i \in Items |-> Receipted(i)]
<1>1. \A i \in Items : f[i] \in Nat
  BY ReceiptedNat
<1>2. DOMAIN f = Items
  OBVIOUS
<1>3. \A i \in Items : f[i] = 0 <=> \A n \in Receipts : receipt[n] = None \/ receipt[n][i] = 0
  BY ReceiptedNat
<1>4. Received = SumFunction(f)
  BY DEF Received
<1> HIDE DEF f
<1>5. Received = 0 <=> \A i \in Items : f[i] = 0
  BY <1>1, <1>2, <1>4, SumZero, PurchasingAssumption DEF SumFunction
<1> QED BY <1>3, <1>5 DEF Nothing

-----------------------------------------------------------------------------
(* The invariant holds initially.                                          *)
LEMMA InitEstablishes == Init => IInv
<1> SUFFICES ASSUME Init PROVE IInv
  OBVIOUS
<1>1. Running = {}
  BY DEF Init, Running
<1>2. RowsApart /\ AllGood
  BY <1>1 DEF RowsApart, AllGood, Init
<1>3. restored \in [Returns -> Nat] /\ RestoredUndone
  BY DEF Init, RestoredUndone
<1>4. CASE InitFresh
  <2>1. TypesOK
    BY <1>3, <1>4 DEF TypesOK, InitFresh, OrderRows, ItemRows, Statuses, Transitions
  <2>2. \A i \in Items : Receipted(i) = 0 /\ item[i].received = 0 /\ item[i].quantity \in Nat \ {0}
    BY <1>4, <2>1, ReceiptedNat DEF InitFresh
  <2>3. ReceivedCounted
    BY <2>2 DEF ReceivedCounted
  <2>4. FullyReceived
    BY <2>2, PurchasingAssumption DEF FullyReceived
  <2>5. CancelledUnreceived /\ UnsentEmpty
    BY <1>4 DEF InitFresh, CancelledUnreceived, UnsentEmpty
  <2>6. RestoredWasShipped
    BY <1>4 DEF Init, InitFresh, RestoredWasShipped
  <2> QED BY <1>2, <1>3, <2>1, <2>3, <2>4, <2>5, <2>6 DEF IInv, DataInv
<1>5. CASE InitReceived
  <2>1. /\ order = [status |-> "RECEIVED", version |-> 0]
        /\ item \in [Items -> ItemRows]
        /\ \A i \in Items : item[i].received = item[i].quantity
    <3>1. item \in [Items -> {[quantity |-> q, version |-> 0, received |-> q] : q \in 1..Units}]
      BY <1>5 DEF InitReceived
    <3>2. \A q \in 1..Units :
            /\ [quantity |-> q, version |-> 0, received |-> q] \in ItemRows
            /\ [quantity |-> q, version |-> 0, received |-> q].received =
               [quantity |-> q, version |-> 0, received |-> q].quantity
      BY PurchasingAssumption DEF ItemRows
    <3> QED BY <1>5, <3>1, <3>2 DEF InitReceived
  <2>2. PICK n \in Receipts :
            receipt = [m \in Receipts |-> IF m = n THEN [i \in Items |-> item[i].quantity] ELSE None]
    BY <1>5 DEF InitReceived
  <2>3. PICK R \in SUBSET Returns :
        /\ return = [r \in Returns |->
                IF r \in R THEN [status |-> "COMPLETED", quantity |-> 1, undone |-> FALSE] ELSE None]
        /\ shipped = [r \in Returns |-> IF r \in R THEN 1 ELSE 0]
    BY <1>5 DEF InitReceived
  <2>4. [i \in Items |-> item[i].quantity] \in [Items -> Nat]
    BY <2>1 DEF ItemRows
  <2>5. receipt \in [Receipts -> [Items -> Nat] \cup {None}]
    BY <2>2, <2>4
  <2>6. return \in [Returns -> ReturnRows \cup {None}] /\ shipped \in [Returns -> Nat]
    BY <2>3 DEF ReturnRows
  <2>7. TypesOK
    BY <1>3, <2>1, <2>5, <2>6 DEF TypesOK, OrderRows, Statuses, Transitions
  <2>8. ASSUME NEW i \in Items PROVE Receipted(i) = item[i].quantity
    <3> DEFINE f == [m \in Receipts |-> IF receipt[m] = None THEN 0 ELSE receipt[m][i]]
               zero == [m \in Receipts |-> 0]
    <3>1. /\ f[n] = item[i].quantity /\ item[i].quantity \in Nat
          /\ \A m \in Receipts : m # n => f[m] = 0
      BY <2>1, <2>2, <2>4, NoneAssumption DEF ItemRows
    <3>2. DOMAIN f = Receipts /\ \A m \in Receipts : zero[m] = 0
      OBVIOUS
    <3> HIDE DEF f, zero
    <3>3. SumFunctionOnSet(zero, Receipts) = 0
      BY <3>2, SumNothing, PurchasingAssumption
    <3>4. SumFunctionOnSet(f, Receipts) = SumFunctionOnSet(zero, Receipts) + (f[n] - zero[n])
      BY <3>1, <3>2, SumUpdate, PurchasingAssumption
    <3>5. SumFunction(f) = item[i].quantity
      BY <3>1, <3>2, <3>3, <3>4 DEF SumFunction
    <3> QED BY <3>5 DEF Receipted, f
  <2>9. ReceivedCounted
    BY <2>1, <2>8 DEF ReceivedCounted, ItemRows
  <2>10. FullyReceived /\ CancelledUnreceived /\ UnsentEmpty
    BY <2>1 DEF FullyReceived, CancelledUnreceived, UnsentEmpty, Sent
  <2>11. RestoredWasShipped
    BY <2>6 DEF Init, RestoredWasShipped
  <2> QED BY <1>2, <1>3, <2>7, <2>9, <2>10, <2>11 DEF IInv, DataInv
<1> QED BY <1>4, <1>5 DEF Init

-----------------------------------------------------------------------------
(* Steps that change no row: what is left to show of them is that their    *)
(* transaction goes on with what it knows, and takes no row of another.    *)
LEMMA StepPreserves ==
    ASSUME IInv, NEW t \in Txns, NEW y, tx' = [tx EXCEPT ![t] = y], UNCHANGED Data,
           y # None =>
             /\ Good(y, order, item, receipt, return, shipped)
             /\ \A u \in Running : u # t => y.rows \cap tx[u].rows = {}
    PROVE  IInv'
<1>1. /\ order' = order /\ item' = item /\ receipt' = receipt
      /\ return' = return /\ shipped' = shipped /\ restored' = restored
  BY DEF Data
<1>2. DataInv'
  BY <1>1 DEF IInv, DataInv, TypesOK, UnsentEmpty, RestoredUndone, ReceivedCounted, FullyReceived,
       CancelledUnreceived, RestoredWasShipped, Received, Receipted
<1>3. DOMAIN tx = Txns
  BY DEF IInv, AllGood
<1>4. tx'[t] = y /\ \A u \in Txns : u # t => tx'[u] = tx[u]
  BY <1>3
<1>5. \A u \in Running' : u \in Txns /\ (u = t \/ u \in Running) /\ tx'[u] # None
  BY <1>4 DEF Running
<1>6. AllGood'
  <2>1. ASSUME NEW u \in Running' PROVE Good(tx'[u], order, item, receipt, return, shipped)
    BY <1>4, <1>5 DEF IInv, AllGood
  <2> QED BY <1>1, <1>3, <2>1 DEF AllGood
<1>7. RowsApart'
  <2> SUFFICES ASSUME NEW u \in Running', NEW v \in Running', u # v
               PROVE  tx'[u].rows \cap tx'[v].rows = {}
    BY DEF RowsApart
  <2>1. CASE u = t
    BY <1>4, <1>5, <2>1
  <2>2. CASE v = t
    BY <1>4, <1>5, <2>2
  <2>3. CASE u # t /\ v # t
    BY <1>4, <1>5, <2>3 DEF IInv, RowsApart
  <2> QED BY <2>1, <2>2, <2>3
<1> QED BY <1>2, <1>6, <1>7 DEF IInv

LEMMA AbortPreserves == ASSUME IInv, NEW t \in Txns, Abort(t) PROVE IInv'
BY StepPreserves DEF Abort, Becomes

(* A step of t that keeps its rows, or adds one nobody else holds.         *)
LEMMA OwnRows ==
    ASSUME IInv, NEW t \in Running, NEW y,
           \A row \in y.rows : row \in tx[t].rows \/ ~HeldByOther(t, row)
    PROVE  \A u \in Running : u # t => y.rows \cap tx[u].rows = {}
BY DEF IInv, RowsApart, HeldByOther

LEMMA Known ==
    ASSUME IInv, NEW t \in Txns, NEW step, At(t, step)
    PROVE  /\ t \in Running /\ tx[t].step = step /\ tx[t] # None
           /\ Good(tx[t], order, item, receipt, return, shipped)
BY DEF At, Running, IInv, AllGood

LEMMA GoOn ==
    ASSUME IInv, NEW t \in Running, NEW y, Becomes(t, y),
           Good(y, order, item, receipt, return, shipped),
           \A row \in y.rows : row \in tx[t].rows \/ ~HeldByOther(t, row)
    PROVE  IInv'
<1>1. t \in Txns
  BY DEF Running
<1>2. tx' = [tx EXCEPT ![t] = y] /\ UNCHANGED Data
  BY DEF Becomes
<1> QED BY <1>1, <1>2, OwnRows, StepPreserves

-----------------------------------------------------------------------------
(* Requests.                                                               *)

LEMMA TransactionFields ==
    ASSUME NEW kind, NEW step, NEW target, NEW status, NEW quantity, NEW lines,
           NEW y, y = Transaction(kind, step, target, status, quantity, lines)
    PROVE  /\ DOMAIN y = Fields
           /\ y.kind = kind /\ y.step = step /\ y.target = target /\ y.status = status
           /\ y.quantity = quantity /\ y.lines = lines /\ y.todo = lines
           /\ DOMAIN y.wrote = {} /\ y.rows = {}
BY DEF Transaction, Fields

LEMMA BeginPreserves ==
    ASSUME IInv, NEW t \in Txns, NEW y, Begin(t, y), y.rows = {},
           Good(y, order, item, receipt, return, shipped)
    PROVE  IInv'
<1>1. tx' = [tx EXCEPT ![t] = y] /\ UNCHANGED Data
  BY DEF Begin
<1> QED BY <1>1, StepPreserves

LEMMA OrderRequestPreserves ==
    ASSUME IInv, NEW t \in Txns, Transition(t) \/ EditOrder(t) \/ Receive(t)
    PROVE  IInv'
<1>1. CASE Transition(t)
  <2>1. PICK status \in Statuses : Begin(t, Transaction("transition", "order", None, status, 0, <<>>))
    BY <1>1 DEF Transition
  <2> DEFINE y == Transaction("transition", "order", None, status, 0, <<>>)
  <2>2. /\ DOMAIN y = Fields /\ y.kind = "transition" /\ y.step = "order" /\ y.target = None
        /\ y.status = status /\ DOMAIN y.wrote = {} /\ y.rows = {}
    BY TransactionFields
  <2> HIDE DEF y
  <2>3. Good(y, order, item, receipt, return, shipped)
    BY <2>2 DEF Good, OrderKinds, ReturnKinds, OrderSide, TransitionKnows
  <2> QED BY <2>1, <2>2, <2>3, BeginPreserves DEF y
<1>2. CASE EditOrder(t)
  <2>1. PICK q \in 1..Units : Begin(t, Transaction("editOrder", "order", None, None, q, <<>>))
    BY <1>2 DEF EditOrder
  <2> DEFINE y == Transaction("editOrder", "order", None, None, q, <<>>)
  <2>2. /\ DOMAIN y = Fields /\ y.kind = "editOrder" /\ y.step = "order" /\ y.target = None
        /\ y.status = None /\ y.quantity = q /\ DOMAIN y.wrote = {} /\ y.rows = {}
    BY TransactionFields
  <2>3. q \in Nat \ {0}
    BY PurchasingAssumption
  <2> HIDE DEF y
  <2>4. Good(y, order, item, receipt, return, shipped)
    BY <2>2, <2>3 DEF Good, OrderKinds, ReturnKinds, OrderSide, EditKnows
  <2> QED BY <2>1, <2>2, <2>4, BeginPreserves DEF y
<1>3. CASE Receive(t)
  <2>1. PICK n \in Receipts,
             lines \in {<<<<i, q>>>> : i \in Items, q \in 1..Units}
                       \cup {<<<<i, 1>>, <<j, 1>>>> : i, j \in Items} :
            Begin(t, Transaction("receive", "order", n, None, 0, lines))
    BY <1>3 DEF Receive
  <2> DEFINE y == Transaction("receive", "order", n, None, 0, lines)
  <2>2. /\ DOMAIN y = Fields /\ y.kind = "receive" /\ y.step = "order" /\ y.target = n
        /\ y.status = None /\ y.lines = lines /\ y.todo = lines /\ DOMAIN y.wrote = {} /\ y.rows = {}
    BY TransactionFields
  <2>3. lines \in Lines /\ lines # <<>>
    <3>1. ASSUME NEW i \in Items, NEW q \in 1..Units
          PROVE  <<<<i, q>>>> \in Lines /\ <<<<i, q>>>> # <<>>
      <4>1. q \in Nat
        BY PurchasingAssumption
      <4> QED BY <4>1 DEF Lines
    <3>2. ASSUME NEW i \in Items, NEW j \in Items
          PROVE  <<<<i, 1>>, <<j, 1>>>> \in Lines /\ <<<<i, 1>>, <<j, 1>>>> # <<>>
      BY DEF Lines
    <3> QED BY <3>1, <3>2
  <2> HIDE DEF y
  <2>4. Good(y, order, item, receipt, return, shipped)
    BY <2>2, <2>3 DEF Good, OrderKinds, ReturnKinds, OrderSide, ReceiveKnows, ReceiptRowsOK
  <2> QED BY <2>1, <2>2, <2>4, BeginPreserves DEF y
<1> QED BY <1>1, <1>2, <1>3

LEMMA ReturnRequestPreserves ==
    ASSUME IInv, NEW t \in Txns,
           EditReturn(t) \/ TransitionReturn(t) \/ CompleteReturn(t) \/ UndoReturn(t)
    PROVE  IInv'
<1>1. ASSUME NEW kind \in ReturnKinds, NEW r \in Drawn, NEW status, NEW q \in Nat,
             kind = "setReturn" => status \in {"APPROVED", "CANCELLED"},
             kind = "complete" => status = "COMPLETED", kind = "undo" => status = None,
             Begin(t, Transaction(kind, "return", r, status, q, <<>>))
      PROVE  IInv'
  <2> DEFINE y == Transaction(kind, "return", r, status, q, <<>>)
  <2>1. /\ DOMAIN y = Fields /\ y.kind = kind /\ y.step = "return" /\ y.target = r
        /\ y.status = status /\ y.quantity = q /\ DOMAIN y.wrote = {} /\ y.rows = {}
    BY TransactionFields
  <2>2. r \in Returns /\ return[r] # None
    BY DEF Drawn
  <2> HIDE DEF y
  <2>3. Good(y, order, item, receipt, return, shipped)
    BY <1>1, <2>1, <2>2 DEF Good, OrderKinds, ReturnKinds, ReturnSide
  <2> QED BY <1>1, <2>1, <2>3, BeginPreserves DEF y
<1>2. CASE EditReturn(t)
  <2>1. PICK r \in Drawn, q \in 1..Units :
            Begin(t, Transaction("editReturn", "return", r, None, q, <<>>))
    BY <1>2 DEF EditReturn
  <2>2. q \in Nat
    BY PurchasingAssumption
  <2> QED BY <1>1, <2>1, <2>2 DEF ReturnKinds
<1>3. CASE TransitionReturn(t)
  BY <1>1, <1>3 DEF TransitionReturn, ReturnKinds
<1>4. CASE CompleteReturn(t)
  BY <1>1, <1>4 DEF CompleteReturn, ReturnKinds
<1>5. CASE UndoReturn(t)
  BY <1>1, <1>5 DEF UndoReturn, ReturnKinds
<1> QED BY <1>2, <1>3, <1>4, <1>5

(* A return that is drawn up takes nothing out and puts nothing back, and  *)
(* no transaction is about it yet.                                         *)
LEMMA CreateReturnPreserves == ASSUME IInv, CreateReturn PROVE IInv'
<1>1. PICK r \in Returns, q \in 1..Units :
        /\ return[r] = None
        /\ return' = [return EXCEPT ![r] = [status |-> "DRAFT", quantity |-> q, undone |-> FALSE]]
        /\ UNCHANGED <<order, item, receipt, shipped, restored, tx>>
  BY DEF CreateReturn
<1>2. q \in Nat
  BY PurchasingAssumption
<1> DEFINE new == [status |-> "DRAFT", quantity |-> q, undone |-> FALSE]
<1>3. new \in ReturnRows /\ ~new.undone
  BY <1>2 DEF ReturnRows
<1> HIDE DEF new
<1>4. /\ return \in [Returns -> ReturnRows \cup {None}]
      /\ return' = [return EXCEPT ![r] = new] /\ restored[r] = 0
  BY <1>1 DEF IInv, DataInv, TypesOK, RestoredUndone, new
<1>5. DataInv'
  <2>1. TypesOK'
    BY <1>1, <1>3, <1>4 DEF IInv, DataInv, TypesOK
  <2>2. RestoredUndone'
    BY <1>1, <1>4 DEF IInv, DataInv, RestoredUndone
  <2> QED BY <1>1, <2>1, <2>2 DEF IInv, DataInv, UnsentEmpty, ReceivedCounted, FullyReceived,
             CancelledUnreceived, RestoredWasShipped, Received, Receipted
<1>6. Running' = Running
  BY <1>1 DEF Running
<1>7. RowsApart'
  BY <1>1, <1>6 DEF IInv, RowsApart
<1>8. ASSUME NEW u \in Running PROVE Good(tx[u], order, item, receipt, return', shipped)
  <2>1. Good(tx[u], order, item, receipt, return, shipped)
    BY DEF IInv, AllGood
  <2>2. ASSUME tx[u].kind \in ReturnKinds PROVE ReturnSide(tx[u], return', shipped)
    <3>1. ReturnSide(tx[u], return, shipped)
      BY <2>1, <2>2 DEF Good
    <3>2. tx[u].target # r
      BY <1>1, <3>1 DEF ReturnSide
    <3>3. return'[tx[u].target] = return[tx[u].target]
      BY <1>4, <3>1, <3>2 DEF ReturnSide
    <3> QED BY <3>1, <3>3 DEF ReturnSide
  <2> QED BY <2>1, <2>2 DEF Good
<1>9. AllGood'
  BY <1>1, <1>6, <1>8 DEF IInv, AllGood
<1> QED BY <1>5, <1>7, <1>9 DEF IInv

-----------------------------------------------------------------------------
(* Statements on the order, its items and its receipts.                    *)

(* A transaction on the order, and what its next state has to say.         *)
LEMMA OrderKnown ==
    ASSUME IInv, NEW t \in Txns, NEW step, At(t, step),
           step \in {"order", "check", "replace", "items", "insert", "readItem", "writeItem",
                     "orderAgain", "count", "writeOrder"}
    PROVE  /\ t \in Running /\ tx[t].step = step
           /\ DOMAIN tx[t] = Fields /\ tx[t].kind \in OrderKinds
           /\ OrderSide(tx[t], order, item, receipt)
           /\ OrderRow \notin tx[t].rows
           /\ step = "check" => tx[t].kind = "transition" /\ TransitionKnows(tx[t], order, receipt)
           /\ step = "replace" => tx[t].kind = "editOrder" /\ EditKnows(tx[t], order)
           /\ step \in {"items", "insert", "readItem", "writeItem", "orderAgain", "count"} =>
                tx[t].kind = "receive" /\ ReceiveKnows(tx[t], order, item, receipt)
<1> DEFINE x == tx[t]
<1>1. t \in Running /\ x.step = step /\ Good(x, order, item, receipt, return, shipped)
  BY Known
<1> HIDE DEF x
<1>2. x.kind \notin ReturnKinds
  BY <1>1 DEF Good, ReturnSide
<1>3. DOMAIN x = Fields /\ x.kind \in OrderKinds /\ OrderSide(x, order, item, receipt)
  BY <1>1, <1>2 DEF Good
<1>4. OrderRow \notin x.rows
  BY <1>1, <1>3 DEF OrderSide
<1>5. x.kind = "transition" \/ x.kind = "editOrder" \/ x.kind = "receive"
  BY <1>3 DEF OrderKinds
<1>6. /\ step = "check" => x.kind = "transition"
      /\ step = "replace" => x.kind = "editOrder"
      /\ step \in {"items", "insert", "readItem", "writeItem", "orderAgain", "count"} => x.kind = "receive"
  BY <1>1, <1>3, <1>5 DEF OrderSide, TransitionKnows, EditKnows, ReceiveKnows
<1> QED BY <1>1, <1>3, <1>4, <1>6 DEF OrderSide, x

(* A new state of a transaction on the order is good if it says so.        *)
LEMMA GoOnOrder ==
    ASSUME IInv, NEW t \in Running, NEW y, Becomes(t, y),
           DOMAIN y = Fields, y.kind \in OrderKinds, OrderSide(y, order, item, receipt),
           \A row \in y.rows : row \in tx[t].rows \/ ~HeldByOther(t, row)
    PROVE  IInv'
<1>1. Good(y, order, item, receipt, return, shipped)
  BY DEF Good, OrderKinds, ReturnKinds
<1> QED BY <1>1, GoOn

LEMMA ReadOrderPreserves == ASSUME IInv, NEW t \in Txns, ReadOrder(t) PROVE IInv'
<1>1. /\ t \in Running /\ tx[t].step = "order"
      /\ DOMAIN tx[t] = Fields /\ tx[t].kind \in OrderKinds
      /\ OrderSide(tx[t], order, item, receipt) /\ OrderRow \notin tx[t].rows
  BY OrderKnown DEF ReadOrder
<1>2. CASE Abort(t)
  BY <1>2, AbortPreserves
<1>3. CASE ~Abort(t)
  <2> DEFINE x == tx[t]
             y == [x EXCEPT !.step = AfterOrder(t),
                            !.saw = IF x.kind = "receive" THEN None ELSE order.version]
  <2>1. Becomes(t, y) /\ AdmitsOrder(t)
    BY <1>3 DEF ReadOrder
  <2>2. /\ DOMAIN y = Fields /\ y.kind = x.kind /\ y.step = AfterOrder(t)
        /\ y.target = x.target /\ y.status = x.status /\ y.quantity = x.quantity
        /\ y.lines = x.lines /\ y.todo = x.todo /\ y.wrote = x.wrote /\ y.rows = x.rows
        /\ y.saw = IF x.kind = "receive" THEN None ELSE order.version
    BY <1>1 DEF Fields
  <2>3. order.version \in Nat
    BY DEF IInv, DataInv, TypesOK, OrderRows
  <2> HIDE DEF y
  <2>4. OrderSide(y, order, item, receipt)
    <3>1. CASE x.kind = "transition"
      <4>1. /\ x.status \in Transitions[order.status]
            /\ y.step = IF x.status = "CANCELLED" THEN "check" ELSE "writeOrder"
        BY <2>1, <2>2, <3>1 DEF AdmitsOrder, AfterOrder
      <4> QED BY <1>1, <2>2, <2>3, <3>1, <4>1 DEF OrderSide, TransitionKnows, OrderSeen
    <3>2. CASE x.kind = "editOrder"
      <4>1. order.status = "DRAFT" /\ y.step = "replace"
        <5>1. x.status # "CANCELLED"
          BY <1>1, <3>2, NoneAssumption DEF OrderSide, EditKnows, Statuses, Transitions
        <5>2. order.status = "DRAFT"
          BY <2>1, <3>2 DEF AdmitsOrder
        <5>3. AfterOrder(t) = "replace"
          BY <3>2, <5>1 DEF AfterOrder
        <5> QED BY <2>2, <5>2, <5>3
      <4> QED BY <1>1, <2>2, <2>3, <3>2, <4>1 DEF OrderSide, EditKnows, OrderSeen
    <3>3. CASE x.kind = "receive"
      <4>1. order.status \in Sent /\ y.step = "items"
        <5>1. x.status # "CANCELLED"
          BY <1>1, <3>3, NoneAssumption DEF OrderSide, ReceiveKnows, Statuses, Transitions
        <5>2. order.status \in {"ORDERED", "PARTIALLY_RECEIVED"}
          BY <2>1, <3>3 DEF AdmitsOrder
        <5>3. AfterOrder(t) = "items"
          BY <3>3, <5>1 DEF AfterOrder
        <5> QED BY <2>2, <5>2, <5>3 DEF Sent
      <4>2. ReceiptRowsOK(y, item)
        BY <1>1, <2>2, <3>3 DEF OrderSide, ReceiveKnows, ReceiptRowsOK
      <4> QED BY <1>1, <2>2, <3>3, <4>1, <4>2 DEF OrderSide, ReceiveKnows
    <3> QED BY <1>1, <3>1, <3>2, <3>3 DEF OrderKinds
  <2> QED BY <1>1, <2>1, <2>2, <2>4, GoOnOrder
<1> QED BY <1>2, <1>3

LEMMA CheckUnreceivedPreserves == ASSUME IInv, NEW t \in Txns, CheckUnreceived(t) PROVE IInv'
<1>1. /\ t \in Running /\ tx[t].step = "check" /\ tx[t].kind = "transition"
      /\ DOMAIN tx[t] = Fields /\ tx[t].kind \in OrderKinds
      /\ OrderSide(tx[t], order, item, receipt) /\ OrderRow \notin tx[t].rows
      /\ TransitionKnows(tx[t], order, receipt)
  BY OrderKnown DEF CheckUnreceived
<1>2. CASE Abort(t)
  BY <1>2, AbortPreserves
<1>3. CASE ~Abort(t)
  <2> DEFINE x == tx[t]
             y == [x EXCEPT !.step = "writeOrder"]
  <2>1. Becomes(t, y) /\ Received = 0
    BY <1>3 DEF CheckUnreceived
  <2>2. /\ DOMAIN y = Fields /\ y.kind = x.kind /\ y.step = "writeOrder"
        /\ y.target = x.target /\ y.status = x.status
        /\ y.wrote = x.wrote /\ y.rows = x.rows /\ y.saw = x.saw
    BY <1>1 DEF Fields
  <2>3. Nothing(receipt)
    BY <2>1, NothingReceived DEF IInv, DataInv
  <2> HIDE DEF y
  <2>4. OrderSide(y, order, item, receipt)
    BY <1>1, <2>2, <2>3 DEF OrderSide, TransitionKnows, OrderSeen
  <2> QED BY <1>1, <2>1, <2>2, <2>4, GoOnOrder
<1> QED BY <1>2, <1>3

LEMMA ReplaceItemsPreserves == ASSUME IInv, NEW t \in Txns, ReplaceItems(t) PROVE IInv'
<1>1. /\ t \in Running /\ tx[t].step = "replace" /\ tx[t].kind = "editOrder"
      /\ DOMAIN tx[t] = Fields /\ tx[t].kind \in OrderKinds
      /\ OrderSide(tx[t], order, item, receipt) /\ OrderRow \notin tx[t].rows
      /\ EditKnows(tx[t], order)
  BY OrderKnown DEF ReplaceItems
<1> DEFINE x == tx[t]
           new == [i \in Items |-> [quantity |-> x.quantity, version |-> 0, received |-> 0]]
           y == [x EXCEPT !.step = "writeOrder", !.rows = @ \cup {ItemRow(i) : i \in Items}, !.wrote = new]
<1>2. Becomes(t, y) /\ \A i \in Items : ~HeldByOther(t, ItemRow(i))
  BY DEF ReplaceItems
<1>3. /\ DOMAIN y = Fields /\ y.kind = x.kind /\ y.step = "writeOrder"
      /\ y.target = x.target /\ y.status = x.status /\ y.quantity = x.quantity
      /\ y.wrote = new /\ y.rows = x.rows \cup {ItemRow(i) : i \in Items} /\ y.saw = x.saw
  BY <1>1 DEF Fields
<1>4. x.quantity \in Nat \ {0}
  BY <1>1 DEF EditKnows
<1>5. DOMAIN new = Items /\ \A i \in Items : new[i] \in ItemRows
  BY <1>4 DEF ItemRows
<1> HIDE DEF y
<1>6. EditKnows(y, order)
  BY <1>1, <1>3 DEF EditKnows, OrderSeen
<1>7. OrderRow \notin y.rows
  BY <1>1, <1>3, RowsDiffer
<1> HIDE DEF new
<1>8. OrderSide(y, order, item, receipt)
  BY <1>1, <1>3, <1>5, <1>6, <1>7 DEF OrderSide
<1> QED BY <1>1, <1>2, <1>3, <1>8, GoOnOrder

LEMMA CheckLinesPreserves == ASSUME IInv, NEW t \in Txns, CheckLines(t) PROVE IInv'
<1>1. /\ t \in Running /\ tx[t].step = "items" /\ tx[t].kind = "receive"
      /\ DOMAIN tx[t] = Fields /\ tx[t].kind \in OrderKinds
      /\ OrderSide(tx[t], order, item, receipt) /\ OrderRow \notin tx[t].rows
      /\ ReceiveKnows(tx[t], order, item, receipt)
  BY OrderKnown DEF CheckLines
<1>2. CASE Abort(t)
  BY <1>2, AbortPreserves
<1>3. CASE ~Abort(t)
  <2> DEFINE x == tx[t]
             y == [x EXCEPT !.step = "insert"]
  <2>1. Becomes(t, y)
    BY <1>3 DEF CheckLines
  <2>2. /\ DOMAIN y = Fields /\ y.kind = x.kind /\ y.step = "insert" /\ y.target = x.target
        /\ y.lines = x.lines /\ y.todo = x.todo /\ y.wrote = x.wrote /\ y.rows = x.rows
    BY <1>1 DEF Fields
  <2> HIDE DEF y
  <2>3. ReceiptRowsOK(y, item)
    BY <1>1, <2>2 DEF ReceiveKnows, ReceiptRowsOK
  <2>4. OrderSide(y, order, item, receipt)
    BY <1>1, <2>2, <2>3 DEF OrderSide, ReceiveKnows
  <2> QED BY <1>1, <2>1, <2>2, <2>4, GoOnOrder
<1> QED BY <1>2, <1>3

LEMMA InsertReceiptPreserves == ASSUME IInv, NEW t \in Txns, InsertReceipt(t) PROVE IInv'
<1>1. /\ t \in Running /\ tx[t].step = "insert" /\ tx[t].kind = "receive"
      /\ DOMAIN tx[t] = Fields /\ tx[t].kind \in OrderKinds
      /\ OrderSide(tx[t], order, item, receipt) /\ OrderRow \notin tx[t].rows
      /\ ReceiveKnows(tx[t], order, item, receipt)
  BY OrderKnown DEF InsertReceipt
<1>2. CASE Abort(t)
  BY <1>2, AbortPreserves
<1>3. CASE ~Abort(t)
  <2> DEFINE x == tx[t]
             row == ReceiptRow(x.target)
             y == [x EXCEPT !.step = "readItem", !.rows = @ \cup {row}]
  <2>1. Becomes(t, y) /\ ~HeldByOther(t, row) /\ receipt[x.target] = None
    BY <1>3 DEF InsertReceipt
  <2>2. /\ DOMAIN y = Fields /\ y.kind = x.kind /\ y.step = "readItem" /\ y.target = x.target
        /\ y.lines = x.lines /\ y.todo = x.todo /\ y.wrote = x.wrote /\ y.rows = x.rows \cup {row}
    BY <1>1 DEF Fields
  <2>3. OrderRow # row
    BY RowsDiffer
  <2> HIDE DEF y
  <2>4. ReceiptRowsOK(y, item)
    BY <1>1, <2>2 DEF ReceiveKnows, ReceiptRowsOK
  <2>5. ReceiveKnows(y, order, item, receipt)
    BY <1>1, <2>1, <2>2, <2>4 DEF ReceiveKnows
  <2> HIDE DEF row
  <2>6. OrderSide(y, order, item, receipt)
    BY <1>1, <2>2, <2>3, <2>5 DEF OrderSide
  <2> QED BY <1>1, <2>1, <2>2, <2>6, GoOnOrder
<1> QED BY <1>2, <1>3

LEMMA ReadItemPreserves == ASSUME IInv, NEW t \in Txns, ReadItem(t) PROVE IInv'
<1>1. /\ t \in Running /\ tx[t].step = "readItem" /\ tx[t].kind = "receive"
      /\ DOMAIN tx[t] = Fields /\ tx[t].kind \in OrderKinds
      /\ OrderSide(tx[t], order, item, receipt) /\ OrderRow \notin tx[t].rows
      /\ ReceiveKnows(tx[t], order, item, receipt)
  BY OrderKnown DEF ReadItem
<1> DEFINE x == tx[t]
           i == Head(x.todo)[1]
           y == [x EXCEPT !.step = "writeItem", !.saw = ItemSeen(t, i)]
<1>2. Becomes(t, y)
  BY DEF ReadItem
<1>3. /\ DOMAIN y = Fields /\ y.kind = x.kind /\ y.step = "writeItem" /\ y.target = x.target
      /\ y.lines = x.lines /\ y.todo = x.todo /\ y.wrote = x.wrote /\ y.rows = x.rows
      /\ y.saw = IF i \in DOMAIN x.wrote THEN x.wrote[i] ELSE item[i]
  BY <1>1 DEF Fields, ItemSeen
<1>4. i \in Items
  BY <1>1, LineSumHead DEF ReceiveKnows
<1> HIDE DEF y
<1>5. ItemRead(y, i, item)
  BY <1>1, <1>3, <1>4 DEF ItemRead, OrderSide, IInv, DataInv, TypesOK, ItemRows
<1>6. ReceiptRowsOK(y, item)
  BY <1>1, <1>3 DEF ReceiveKnows, ReceiptRowsOK
<1>7. ReceiveKnows(y, order, item, receipt)
  BY <1>1, <1>3, <1>5, <1>6 DEF ReceiveKnows
<1>8. OrderSide(y, order, item, receipt)
  BY <1>1, <1>3, <1>7 DEF OrderSide
<1> QED BY <1>1, <1>2, <1>3, <1>8, GoOnOrder

(* What is written to an item is what it has, with the line added.         *)
LEMMA WriteItemPreserves == ASSUME IInv, NEW t \in Txns, WriteItem(t) PROVE IInv'
<1>1. /\ t \in Running /\ tx[t].step = "writeItem" /\ tx[t].kind = "receive"
      /\ DOMAIN tx[t] = Fields /\ tx[t].kind \in OrderKinds
      /\ OrderSide(tx[t], order, item, receipt) /\ OrderRow \notin tx[t].rows
      /\ ReceiveKnows(tx[t], order, item, receipt)
  BY OrderKnown DEF WriteItem
<1>2. CASE Abort(t)
  BY <1>2, AbortPreserves
<1>3. CASE ~Abort(t)
  <2> DEFINE x == tx[t]
             i == Head(x.todo)[1]
             q == Head(x.todo)[2]
             old == ItemOf(x, i, item)
             received == x.saw.received + q
             row == [old EXCEPT !.received = received, !.version = @ + 1]
             y == [x EXCEPT !.step = IF Len(x.todo) = 1 THEN "orderAgain" ELSE "readItem",
                            !.todo = Tail(@), !.saw = None,
                            !.rows = @ \cup {ItemRow(i)}, !.wrote = With(@, i, row)]
  <2>1. /\ Becomes(t, y) /\ ~HeldByOther(t, ItemRow(i))
        /\ old.version = x.saw.version /\ received <= item[i].quantity
    BY <1>3 DEF WriteItem, ItemSeen, ItemOf
  <2>2. /\ DOMAIN y = Fields /\ y.kind = x.kind /\ y.target = x.target
        /\ y.step = IF Len(x.todo) = 1 THEN "orderAgain" ELSE "readItem"
        /\ y.lines = x.lines /\ y.todo = Tail(x.todo) /\ y.wrote = With(x.wrote, i, row)
        /\ y.rows = x.rows \cup {ItemRow(i)}
    BY <1>1 DEF Fields
  <2>3. /\ x.todo \in Lines /\ x.todo # <<>> /\ x.lines \in Lines
        /\ ItemRead(x, i, item) /\ ReceiptRowsOK(x, item)
        /\ x.target \in Receipts /\ receipt[x.target] = None /\ ReceiptRow(x.target) \in x.rows
        /\ order.status \in Sent
        /\ DOMAIN x.wrote \subseteq Items
        /\ \A j \in DOMAIN x.wrote : x.wrote[j] \in ItemRows /\ ItemRow(j) \in x.rows
    BY <1>1 DEF ReceiveKnows, OrderSide
  <2>4. /\ Tail(x.todo) \in Lines /\ i \in Items /\ q \in Nat
        /\ LineSum(x.todo, i) = LineSum(Tail(x.todo), i) + q
        /\ \A j \in Items : j # i => LineSum(x.todo, j) = LineSum(Tail(x.todo), j)
        /\ \A j \in Items : LineSum(x.todo, j) \in Nat /\ LineSum(Tail(x.todo), j) \in Nat
                            /\ LineSum(x.lines, j) \in Nat
    <3>1. Tail(x.todo) \in Lines /\ i \in Items /\ q \in Nat
      BY <2>3, LineSumHead
    <3>2. \A j : LineSum(x.todo, j) = LineSum(Tail(x.todo), j) + (IF i = j THEN q ELSE 0)
      BY <2>3, LineSumHead
    <3>3. \A j : LineSum(x.todo, j) \in Nat /\ LineSum(Tail(x.todo), j) \in Nat /\ LineSum(x.lines, j) \in Nat
      BY <2>3, <3>1, LineSumNat
    <3> HIDE DEF i, q, x
    <3> QED BY <3>1, <3>2, <3>3
  <2>5. Tail(x.todo) = <<>> <=> Len(x.todo) = 1
    <3>1. Len(Tail(x.todo)) = Len(x.todo) - 1 /\ Len(x.todo) \in Nat
      BY <2>3 DEF Lines
    <3>2. Tail(x.todo) = <<>> <=> Len(Tail(x.todo)) = 0
      BY <2>4, EmptySeq DEF Lines
    <3> HIDE DEF x
    <3> QED BY <3>1, <3>2
  <2>6. item[i] \in ItemRows
    BY <2>4 DEF IInv, DataInv, TypesOK
  <2>7. /\ old \in ItemRows /\ x.saw.received = old.received
        /\ old.quantity = item[i].quantity
        /\ item[i].version <= old.version
        /\ old.received + LineSum(x.todo, i) = item[i].received + LineSum(x.lines, i)
    <3> HIDE DEF i, x
    <3>1. CASE i \in DOMAIN x.wrote
      BY <2>3, <2>4, <2>6, <3>1 DEF ItemOf, ItemRead, ReceiptRowsOK, ItemRows
    <3>2. CASE i \notin DOMAIN x.wrote
      BY <2>1, <2>3, <2>4, <2>6, <3>2 DEF ItemOf, ItemRead, ReceiptRowsOK, ItemRows
    <3> QED BY <3>1, <3>2
  <2>8. /\ row \in ItemRows /\ row.received = old.received + q /\ row.received = received
        /\ row.quantity = item[i].quantity /\ item[i].version < row.version
    <3> HIDE DEF i, x, q, old
    <3>1. received = old.received + q /\ received \in Nat
      BY <2>4, <2>7 DEF ItemRows
    <3>2. PICK v \in Nat : v = old.version + 1 /\ item[i].version < v
      BY <2>6, <2>7 DEF ItemRows
    <3> HIDE DEF received
    <3>3. row = [old EXCEPT !.received = received, !.version = v]
      BY <3>2
    <3> HIDE DEF row
    <3>4. row \in ItemRows /\ row.received = received /\ row.version = v /\ row.quantity = old.quantity
      BY <2>7, <3>1, <3>2, <3>3 DEF ItemRows
    <3> QED BY <2>7, <3>1, <3>2, <3>4
  <2>9. /\ DOMAIN y.wrote = DOMAIN x.wrote \cup {i} /\ y.wrote[i] = row
        /\ \A j \in DOMAIN x.wrote : j # i => y.wrote[j] = x.wrote[j]
    <3> HIDE DEF i, x, row, y
    <3> QED BY <2>2 DEF With
  <2> HIDE DEF y, row, old, q, i, x
  <2>10. ReceiptRowsOK(y, item)
    <3> SUFFICES ASSUME NEW j \in Items
                 PROVE  IF j \in DOMAIN y.wrote
                        THEN /\ y.wrote[j].received + LineSum(y.todo, j) = item[j].received + LineSum(y.lines, j)
                             /\ y.wrote[j].received <= item[j].quantity
                             /\ y.wrote[j].quantity = item[j].quantity
                             /\ item[j].version < y.wrote[j].version
                        ELSE LineSum(y.todo, j) = LineSum(y.lines, j)
      BY DEF ReceiptRowsOK
    <3>1. CASE j = i
      <4>1. row.received + LineSum(Tail(x.todo), i) = item[i].received + LineSum(x.lines, i)
        BY <2>4, <2>6, <2>7, <2>8 DEF ItemRows
      <4> QED BY <2>1, <2>2, <2>8, <2>9, <3>1, <4>1
    <3>2. CASE j # i
      BY <2>2, <2>3, <2>4, <2>9, <3>2 DEF ReceiptRowsOK
    <3> QED BY <3>1, <3>2
  <2>11. ReceiveKnows(y, order, item, receipt)
    BY <1>1, <2>2, <2>3, <2>4, <2>5, <2>10 DEF ReceiveKnows
  <2>12. OrderRow # ItemRow(i)
    BY RowsDiffer
  <2>13. OrderSide(y, order, item, receipt)
    BY <1>1, <2>2, <2>3, <2>4, <2>8, <2>9, <2>11, <2>12 DEF OrderSide, x
  <2> QED BY <1>1, <2>1, <2>2, <2>13, GoOnOrder DEF x
<1> QED BY <1>2, <1>3

LEMMA ReadOrderAgainPreserves == ASSUME IInv, NEW t \in Txns, ReadOrderAgain(t) PROVE IInv'
<1>1. /\ t \in Running /\ tx[t].step = "orderAgain" /\ tx[t].kind = "receive"
      /\ DOMAIN tx[t] = Fields /\ tx[t].kind \in OrderKinds
      /\ OrderSide(tx[t], order, item, receipt) /\ OrderRow \notin tx[t].rows
      /\ ReceiveKnows(tx[t], order, item, receipt)
  BY OrderKnown DEF ReadOrderAgain
<1> DEFINE x == tx[t]
           y == [x EXCEPT !.step = "count", !.saw = order.version]
<1>2. Becomes(t, y)
  BY DEF ReadOrderAgain
<1>3. /\ DOMAIN y = Fields /\ y.kind = x.kind /\ y.step = "count" /\ y.target = x.target
      /\ y.lines = x.lines /\ y.todo = x.todo /\ y.wrote = x.wrote /\ y.rows = x.rows
      /\ y.saw = order.version
  BY <1>1 DEF Fields
<1>4. order.version \in Nat
  BY DEF IInv, DataInv, TypesOK, OrderRows
<1> HIDE DEF y
<1>5. ReceiptRowsOK(y, item)
  BY <1>1, <1>3 DEF ReceiveKnows, ReceiptRowsOK
<1>6. ReceiveKnows(y, order, item, receipt)
  BY <1>1, <1>3, <1>4, <1>5 DEF ReceiveKnows, OrderSeen
<1>7. OrderSide(y, order, item, receipt)
  BY <1>1, <1>3, <1>6 DEF OrderSide
<1> QED BY <1>1, <1>2, <1>3, <1>7, GoOnOrder

LEMMA CountReceivedPreserves == ASSUME IInv, NEW t \in Txns, CountReceived(t) PROVE IInv'
<1>1. /\ t \in Running /\ tx[t].step = "count" /\ tx[t].kind = "receive"
      /\ DOMAIN tx[t] = Fields /\ tx[t].kind \in OrderKinds
      /\ OrderSide(tx[t], order, item, receipt) /\ OrderRow \notin tx[t].rows
      /\ ReceiveKnows(tx[t], order, item, receipt)
  BY OrderKnown DEF CountReceived
<1> DEFINE x == tx[t]
           all == \A i \in Items : ItemOf(x, i, item).received >= ItemOf(x, i, item).quantity
           y == [x EXCEPT !.step = "writeOrder",
                          !.status = IF all THEN "RECEIVED" ELSE "PARTIALLY_RECEIVED"]
<1>2. Becomes(t, y)
  BY DEF CountReceived, ItemSeen, ItemOf
<1> HIDE DEF all
<1>3. /\ DOMAIN y = Fields /\ y.kind = x.kind /\ y.step = "writeOrder" /\ y.target = x.target
      /\ y.lines = x.lines /\ y.todo = x.todo /\ y.wrote = x.wrote /\ y.rows = x.rows
      /\ y.saw = x.saw /\ y.status = IF all THEN "RECEIVED" ELSE "PARTIALLY_RECEIVED"
  BY <1>1 DEF Fields
<1> HIDE DEF y
<1>4. \A i \in Items : ItemOf(x, i, item) \in ItemRows
  BY <1>1 DEF OrderSide, ItemOf, IInv, DataInv, TypesOK
<1>5. (\A i \in Items : ItemOf(x, i, item).received = ItemOf(x, i, item).quantity) => all
  BY <1>4 DEF all, ItemRows
<1>6. \A i \in Items : ItemOf(y, i, item) = ItemOf(x, i, item)
  BY <1>3 DEF ItemOf
<1>7. ReceiptRowsOK(y, item)
  BY <1>1, <1>3 DEF ReceiveKnows, ReceiptRowsOK
<1>8. ReceiveKnows(y, order, item, receipt)
  BY <1>1, <1>3, <1>5, <1>6, <1>7 DEF ReceiveKnows, OrderSeen
<1>9. OrderSide(y, order, item, receipt)
  BY <1>1, <1>3, <1>8 DEF OrderSide
<1> QED BY <1>1, <1>2, <1>3, <1>9, GoOnOrder

LEMMA WriteOrderPreserves == ASSUME IInv, NEW t \in Txns, WriteOrder(t) PROVE IInv'
<1>1. /\ t \in Running /\ tx[t].step = "writeOrder"
      /\ DOMAIN tx[t] = Fields /\ tx[t].kind \in OrderKinds
      /\ OrderSide(tx[t], order, item, receipt) /\ OrderRow \notin tx[t].rows
  BY OrderKnown DEF WriteOrder
<1>2. CASE Abort(t)
  BY <1>2, AbortPreserves
<1>3. CASE ~Abort(t)
  <2> DEFINE x == tx[t]
             y == [x EXCEPT !.step = "commit", !.rows = @ \cup {OrderRow}]
  <2>1. Becomes(t, y) /\ ~HeldByOther(t, OrderRow) /\ order.version = x.saw
    BY <1>3 DEF WriteOrder
  <2>2. /\ DOMAIN y = Fields /\ y.kind = x.kind /\ y.step = "commit" /\ y.target = x.target
        /\ y.status = x.status /\ y.quantity = x.quantity /\ y.saw = x.saw
        /\ y.lines = x.lines /\ y.todo = x.todo /\ y.wrote = x.wrote
        /\ y.rows = x.rows \cup {OrderRow}
    BY <1>1 DEF Fields
  <2> HIDE DEF y
  <2>3. OrderSide(y, order, item, receipt)
    <3>1. CASE x.kind = "transition"
      BY <1>1, <2>1, <2>2, <3>1 DEF OrderSide, TransitionKnows, OrderSeen
    <3>2. CASE x.kind = "editOrder"
      BY <1>1, <2>1, <2>2, <3>2 DEF OrderSide, EditKnows, OrderSeen
    <3>3. CASE x.kind = "receive"
      <4>1. ReceiveKnows(x, order, item, receipt)
        BY <1>1, <3>3 DEF OrderSide
      <4>2. ReceiptRowsOK(y, item)
        BY <2>2, <4>1 DEF ReceiveKnows, ReceiptRowsOK
      <4>3. \A i \in Items : ItemOf(y, i, item) = ItemOf(x, i, item)
        BY <2>2 DEF ItemOf
      <4>4. ReceiveKnows(y, order, item, receipt)
        BY <1>1, <2>1, <2>2, <4>1, <4>2, <4>3 DEF ReceiveKnows, OrderSeen
      <4> QED BY <1>1, <2>2, <3>3, <4>4 DEF OrderSide
    <3> QED BY <1>1, <3>1, <3>2, <3>3 DEF OrderKinds
  <2> QED BY <1>1, <2>1, <2>2, <2>3, GoOnOrder
<1> QED BY <1>2, <1>3

-----------------------------------------------------------------------------
(* Statements on a return.                                                 *)

LEMMA ReturnKnown ==
    ASSUME IInv, NEW t \in Txns, NEW step, At(t, step),
           step \in {"return", "claim", "validate", "layers", "writeReturn"}
    PROVE  /\ t \in Running /\ tx[t].step = step
           /\ DOMAIN tx[t] = Fields /\ tx[t].kind \in ReturnKinds
           /\ ReturnSide(tx[t], return, shipped)
<1> DEFINE x == tx[t]
<1>1. t \in Running /\ x.step = step /\ Good(x, order, item, receipt, return, shipped)
  BY Known
<1> HIDE DEF x
<1>2. ASSUME x.kind \in OrderKinds PROVE FALSE
  <2>1. OrderSide(x, order, item, receipt)
    BY <1>1, <1>2 DEF Good
  <2> QED BY <1>1, <1>2, <2>1 DEF OrderSide, OrderKinds, TransitionKnows, EditKnows, ReceiveKnows
<1> QED BY <1>1, <1>2 DEF Good, x

LEMMA GoOnReturn ==
    ASSUME IInv, NEW t \in Running, NEW y, Becomes(t, y),
           DOMAIN y = Fields, y.kind \in ReturnKinds, ReturnSide(y, return, shipped),
           \A row \in y.rows : row \in tx[t].rows \/ ~HeldByOther(t, row)
    PROVE  IInv'
<1>1. Good(y, order, item, receipt, return, shipped)
  BY DEF Good, OrderKinds, ReturnKinds
<1> QED BY <1>1, GoOn

LEMMA ReadReturnPreserves == ASSUME IInv, NEW t \in Txns, ReadReturn(t) PROVE IInv'
<1>1. /\ t \in Running /\ tx[t].step = "return"
      /\ DOMAIN tx[t] = Fields /\ tx[t].kind \in ReturnKinds
      /\ ReturnSide(tx[t], return, shipped)
  BY ReturnKnown DEF ReadReturn
<1>2. CASE Abort(t)
  BY <1>2, AbortPreserves
<1>3. CASE ~Abort(t)
  <2> DEFINE x == tx[t]
             y == [x EXCEPT !.step = AfterReturn(t)]
  <2>1. Becomes(t, y)
    BY <1>3 DEF ReadReturn
  <2>2. /\ DOMAIN y = Fields /\ y.kind = x.kind /\ y.step = AfterReturn(t)
        /\ y.target = x.target /\ y.status = x.status /\ y.quantity = x.quantity
        /\ y.wrote = x.wrote /\ y.rows = x.rows
    BY <1>1 DEF Fields
  <2> HIDE DEF y
  <2>3. /\ x.kind \in {"complete", "undo"} => y.step = "claim"
        /\ x.kind \notin {"complete", "undo"} => y.step \in {"writeReturn", "validate"}
    <3>1. x.kind \in {"complete", "undo"} /\ x.status # "CANCELLED" => AfterReturn(t) = "claim"
      BY DEF AfterReturn
    <3>2. x.kind \notin {"complete", "undo"} => AfterReturn(t) \in {"writeReturn", "validate"}
      BY DEF AfterReturn
    <3>3. x.kind \in {"complete", "undo"} => x.status # "CANCELLED"
      BY <1>1, NoneAssumption DEF ReturnSide, Statuses, Transitions
    <3> QED BY <2>2, <3>1, <3>2, <3>3
  <2>4. ReturnSide(y, return, shipped)
    BY <1>1, <2>2, <2>3 DEF ReturnSide
  <2> QED BY <1>1, <2>1, <2>2, <2>4, GoOnReturn
<1> QED BY <1>2, <1>3

(* The claim sees what the return has become, and has it from then on.     *)
LEMMA ClaimReturnPreserves == ASSUME IInv, NEW t \in Txns, ClaimReturn(t) PROVE IInv'
<1>1. /\ t \in Running /\ tx[t].step = "claim"
      /\ DOMAIN tx[t] = Fields /\ tx[t].kind \in ReturnKinds
      /\ ReturnSide(tx[t], return, shipped)
  BY ReturnKnown DEF ClaimReturn
<1>2. CASE Abort(t)
  BY <1>2, AbortPreserves
<1>3. CASE ~Abort(t)
  <2> DEFINE x == tx[t]
             row == ReturnRow(x.target)
             y == [x EXCEPT !.step = IF x.kind = "complete" THEN "validate" ELSE "layers",
                            !.rows = @ \cup {row}]
  <2>1. Becomes(t, y) /\ ~HeldByOther(t, row) /\ AdmitsReturn(t)
    BY <1>3 DEF ClaimReturn
  <2>2. /\ DOMAIN y = Fields /\ y.kind = x.kind
        /\ y.step = IF x.kind = "complete" THEN "validate" ELSE "layers"
        /\ y.target = x.target /\ y.status = x.status /\ y.quantity = x.quantity
        /\ y.wrote = x.wrote /\ y.rows = x.rows \cup {row}
    BY <1>1 DEF Fields
  <2>3. x.kind = "undo" => ~return[x.target].undone
    BY <2>1 DEF AdmitsReturn
  <2>4. OrderRow # row
    BY RowsDiffer
  <2> HIDE DEF y
  <2>5. ReturnSide(y, return, shipped)
    BY <1>1, <2>2, <2>3, <2>4 DEF ReturnSide, ReturnKinds
  <2> HIDE DEF row
  <2> QED BY <1>1, <2>1, <2>2, <2>5, GoOnReturn
<1> QED BY <1>2, <1>3

LEMMA ValidateReturnPreserves == ASSUME IInv, NEW t \in Txns, ValidateReturn(t) PROVE IInv'
<1>1. /\ t \in Running /\ tx[t].step = "validate"
      /\ DOMAIN tx[t] = Fields /\ tx[t].kind \in ReturnKinds
      /\ ReturnSide(tx[t], return, shipped)
  BY ReturnKnown DEF ValidateReturn
<1>2. CASE Abort(t)
  BY <1>2, AbortPreserves
<1>3. CASE ~Abort(t)
  <2> DEFINE x == tx[t]
             y == [x EXCEPT !.step = IF x.kind = "complete" THEN "commit" ELSE "writeReturn"]
  <2>1. Becomes(t, y)
    BY <1>3 DEF ValidateReturn
  <2>2. /\ DOMAIN y = Fields /\ y.kind = x.kind
        /\ y.step = IF x.kind = "complete" THEN "commit" ELSE "writeReturn"
        /\ y.target = x.target /\ y.status = x.status /\ y.quantity = x.quantity
        /\ y.wrote = x.wrote /\ y.rows = x.rows
    BY <1>1 DEF Fields
  <2> HIDE DEF y
  <2>3. ReturnSide(y, return, shipped)
    BY <1>1, <2>2 DEF ReturnSide, ReturnKinds
  <2> QED BY <1>1, <2>1, <2>2, <2>3, GoOnReturn
<1> QED BY <1>2, <1>3

LEMMA FindLayersPreserves == ASSUME IInv, NEW t \in Txns, FindLayers(t) PROVE IInv'
<1>1. /\ t \in Running /\ tx[t].step = "layers"
      /\ DOMAIN tx[t] = Fields /\ tx[t].kind \in ReturnKinds
      /\ ReturnSide(tx[t], return, shipped)
  BY ReturnKnown DEF FindLayers
<1>2. CASE Abort(t)
  BY <1>2, AbortPreserves
<1>3. CASE ~Abort(t)
  <2> DEFINE x == tx[t]
             y == [x EXCEPT !.step = "commit"]
  <2>1. Becomes(t, y) /\ shipped[x.target] = return[x.target].quantity
    BY <1>3 DEF FindLayers
  <2>2. /\ DOMAIN y = Fields /\ y.kind = x.kind /\ y.step = "commit"
        /\ y.target = x.target /\ y.status = x.status /\ y.quantity = x.quantity
        /\ y.wrote = x.wrote /\ y.rows = x.rows
    BY <1>1 DEF Fields
  <2> HIDE DEF y
  <2>3. ReturnSide(y, return, shipped)
    BY <1>1, <2>1, <2>2 DEF ReturnSide, ReturnKinds
  <2> QED BY <1>1, <2>1, <2>2, <2>3, GoOnReturn
<1> QED BY <1>2, <1>3

LEMMA WriteReturnPreserves == ASSUME IInv, NEW t \in Txns, WriteReturn(t) PROVE IInv'
<1>1. /\ t \in Running /\ tx[t].step = "writeReturn"
      /\ DOMAIN tx[t] = Fields /\ tx[t].kind \in ReturnKinds
      /\ ReturnSide(tx[t], return, shipped)
  BY ReturnKnown DEF WriteReturn
<1> DEFINE x == tx[t]
           row == ReturnRow(x.target)
           y == [x EXCEPT !.step = "commit", !.rows = @ \cup {row}]
<1>2. Becomes(t, y) /\ ~HeldByOther(t, row)
  BY DEF WriteReturn
<1>3. /\ DOMAIN y = Fields /\ y.kind = x.kind /\ y.step = "commit"
      /\ y.target = x.target /\ y.status = x.status /\ y.quantity = x.quantity
      /\ y.wrote = x.wrote /\ y.rows = x.rows \cup {row}
  BY <1>1 DEF Fields
<1>4. OrderRow # row
  BY RowsDiffer
<1> HIDE DEF y
<1>5. ReturnSide(y, return, shipped)
  BY <1>1, <1>3, <1>4 DEF ReturnSide, ReturnKinds
<1> HIDE DEF row
<1> QED BY <1>1, <1>2, <1>3, <1>5, GoOnReturn

-----------------------------------------------------------------------------
(* The commit.  What others know survives it: they hold rows of their own, *)
(* and what they know of other rows they know by a version.                *)

(* A transaction on the order that has not yet written it, when the order  *)
(* gets a new version and no item it holds changes.                        *)
LEMMA OrderSideStays ==
    ASSUME NEW x, NEW o \in OrderRows, NEW o2 \in OrderRows,
           NEW it \in [Items -> ItemRows], NEW it2 \in [Items -> ItemRows], NEW rc, NEW rc2,
           x.kind \in OrderKinds, OrderSide(x, o, it, rc), OrderRow \notin x.rows,
           o.version < o2.version, o.status \in Sent => o2.status \in Sent,
           \A i \in Items : ItemRow(i) \in x.rows => it2[i] = it[i],
           o.status \in Sent => \A i \in Items : it2[i] = it[i] \/ it[i].version < it2[i].version,
           \A n \in Receipts : ReceiptRow(n) \in x.rows => rc2[n] = rc[n]
    PROVE  OrderSide(x, o2, it2, rc2)
<1>1. /\ o.version \in Nat /\ o2.version \in Nat
      /\ \A i \in Items : it[i].version \in Nat /\ it2[i].version \in Nat
  BY DEF OrderRows, ItemRows
<1>2. ASSUME OrderSeen(x, o) PROVE OrderSeen(x, o2) /\ o2.version # x.saw
  BY <1>1, <1>2 DEF OrderSeen
<1>3. CASE x.kind = "transition"
  BY <1>2, <1>3 DEF OrderSide, TransitionKnows
<1>4. CASE x.kind = "editOrder"
  BY <1>2, <1>4 DEF OrderSide, EditKnows
<1>5. CASE x.kind = "receive"
  <2>1. ReceiveKnows(x, o, it, rc) /\ \A i \in DOMAIN x.wrote : i \in Items /\ it2[i] = it[i]
    BY <1>5 DEF OrderSide
  <2>2. ReceiptRowsOK(x, it2)
    <3>1. ReceiptRowsOK(x, it)
      BY <2>1 DEF ReceiveKnows
    <3> QED BY <2>1, <3>1 DEF ReceiptRowsOK
  <2>3. ASSUME x.step = "writeItem" PROVE ItemRead(x, Head(x.todo)[1], it2)
    <3> DEFINE i == Head(x.todo)[1]
    <3>1. ItemRead(x, i, it) /\ o.status \in Sent /\ i \in Items
      BY <2>1, <2>3, LineSumHead DEF ReceiveKnows
    <3> HIDE DEF i
    <3>2. x.saw \in ItemRows /\ x.saw.version \in Nat
      BY <3>1 DEF ItemRead, ItemRows
    <3>3. it2[i] = it[i] \/ it[i].version < it2[i].version
      BY <3>1
    <3>4. ItemRead(x, i, it2)
      BY <1>1, <2>1, <3>1, <3>2, <3>3 DEF ItemRead
    <3> QED BY <3>4 DEF i
  <2>4. x.step \in {"count", "writeOrder", "commit"} => OrderSeen(x, o2) /\ o2.version # x.saw
    BY <1>2, <2>1 DEF ReceiveKnows
  <2>5. ReceiveKnows(x, o2, it2, rc2)
    BY <2>1, <2>2, <2>3, <2>4 DEF ReceiveKnows
  <2> QED BY <1>5, <2>5 DEF OrderSide
<1> QED BY <1>3, <1>4, <1>5 DEF OrderKinds

(* What all commits have in common.                                        *)
LEMMA CommitPreserves ==
    ASSUME IInv, NEW t \in Running, tx' = [tx EXCEPT ![t] = None], DataInv',
           \A u \in Running : u # t => Good(tx[u], order', item', receipt', return', shipped')
    PROVE  IInv'
<1>1. DOMAIN tx = Txns /\ t \in Txns
  BY DEF IInv, AllGood, Running
<1>2. tx'[t] = None /\ \A u \in Txns : u # t => tx'[u] = tx[u]
  BY <1>1
<1>3. Running' = Running \ {t} /\ \A u \in Running' : tx'[u] = tx[u]
  BY <1>1, <1>2 DEF Running
<1>4. RowsApart'
  BY <1>3 DEF RowsApart, IInv
<1>5. \A u \in Running' : Good(tx'[u], order', item', receipt', return', shipped')
  BY <1>3
<1>6. AllGood'
  BY <1>1, <1>5 DEF AllGood
<1> QED BY <1>4, <1>6 DEF IInv

(* The commit of a change of the order, and of the items it holds.         *)
LEMMA OrderCommitOthers ==
    ASSUME IInv, NEW t \in Running, OrderRow \in tx[t].rows,
           order' \in OrderRows, order.version < order'.version,
           order.status \in Sent => order'.status \in Sent,
           item' \in [Items -> ItemRows],
           \A i \in Items : item'[i] # item[i] => ItemRow(i) \in tx[t].rows,
           order.status \in Sent =>
               \A i \in Items : item'[i] = item[i] \/ item[i].version < item'[i].version,
           \A n \in Receipts : receipt'[n] # receipt[n] => ReceiptRow(n) \in tx[t].rows,
           return' = return, shipped' = shipped,
           NEW u \in Running, u # t
    PROVE  Good(tx[u], order', item', receipt', return', shipped')
<1> DEFINE x == tx[u]
<1>1. Good(x, order, item, receipt, return, shipped) /\ x.rows \cap tx[t].rows = {}
  BY DEF IInv, AllGood, RowsApart
<1>2. order \in OrderRows /\ item \in [Items -> ItemRows]
  BY DEF IInv, DataInv, TypesOK
<1>3. ASSUME x.kind \in OrderKinds PROVE OrderSide(x, order', item', receipt')
  <2> HIDE DEF x
  <2>1. OrderSide(x, order, item, receipt) /\ OrderRow \notin x.rows
    BY <1>1, <1>3 DEF Good
  <2>2. /\ \A i \in Items : ItemRow(i) \in x.rows => item'[i] = item[i]
        /\ \A n \in Receipts : ReceiptRow(n) \in x.rows => receipt'[n] = receipt[n]
    BY <1>1
  <2> QED BY <1>2, <1>3, <2>1, <2>2, OrderSideStays
<1>4. ASSUME x.kind \in ReturnKinds PROVE ReturnSide(x, return', shipped')
  BY <1>1, <1>4 DEF Good
<1> QED BY <1>1, <1>3, <1>4 DEF Good

LEMMA CommitKnown ==
    ASSUME IInv, NEW t \in Txns, Commit(t)
    PROVE  /\ t \in Running /\ tx[t].step = "commit" /\ tx' = [tx EXCEPT ![t] = None]
           /\ tx[t].kind \in OrderKinds \cup ReturnKinds
           /\ tx[t].kind \in OrderKinds =>
                /\ OrderSide(tx[t], order, item, receipt)
                /\ OrderRow \in tx[t].rows /\ order.version = tx[t].saw
                /\ tx[t].target \notin Returns
           /\ tx[t].kind \in ReturnKinds => ReturnSide(tx[t], return, shipped)
<1> DEFINE x == tx[t]
<1>1. /\ t \in Running /\ x.step = "commit" /\ tx' = [tx EXCEPT ![t] = None]
      /\ Good(x, order, item, receipt, return, shipped)
  BY Known DEF Commit
<1> HIDE DEF x
<1>2. ASSUME x.kind \in OrderKinds
      PROVE  /\ OrderSide(x, order, item, receipt)
             /\ OrderRow \in x.rows /\ order.version = x.saw /\ x.target \notin Returns
  <2>1. OrderSide(x, order, item, receipt)
    BY <1>1, <1>2 DEF Good
  <2>2. CASE x.kind = "transition"
    BY <1>1, <2>1, <2>2, PurchasingAssumption DEF OrderSide, TransitionKnows, OrderSeen
  <2>3. CASE x.kind = "editOrder"
    BY <1>1, <2>1, <2>3, PurchasingAssumption DEF OrderSide, EditKnows, OrderSeen
  <2>4. CASE x.kind = "receive"
    BY <1>1, <2>1, <2>4, PurchasingAssumption DEF OrderSide, ReceiveKnows, OrderSeen
  <2> QED BY <1>2, <2>1, <2>2, <2>3, <2>4 DEF OrderKinds
<1> QED BY <1>1, <1>2 DEF Good, x

(* Once sent, never a draft again.                                         *)
LEMMA SentStays ==
    \A a \in Statuses : \A b \in Transitions[a] : b \in Statuses /\ (a \in Sent => b \in Sent) /\ a # "RECEIVED"
BY DEF Statuses, Transitions, Sent

LEMMA TransitionCommits ==
    ASSUME IInv, NEW t \in Txns, Commit(t), tx[t].kind = "transition" PROVE IInv'
<1> DEFINE x == tx[t]
<1>1. /\ t \in Running /\ x.step = "commit" /\ tx' = [tx EXCEPT ![t] = None]
      /\ OrderSide(x, order, item, receipt) /\ OrderRow \in x.rows
      /\ order.version = x.saw /\ x.target \notin Returns
  BY CommitKnown DEF OrderKinds
<1>2. TransitionKnows(x, order, receipt)
  BY <1>1 DEF OrderSide
<1>3. /\ x.status \in Transitions[order.status] /\ x.status \in Statuses /\ x.status # None
      /\ x.status = "CANCELLED" => Nothing(receipt)
      /\ DOMAIN x.wrote = {}
  BY <1>1, <1>2, NoneAssumption DEF TransitionKnows
<1>4. TypesOK
  BY DEF IInv, DataInv
<1>5. order' = [status |-> x.status, version |-> order.version + 1]
  BY <1>1, <1>3 DEF Commit
<1>6. item' = item
  BY <1>3, <1>4 DEF Commit, ItemSeen, TypesOK
<1>7. receipt' = receipt /\ return' = return /\ shipped' = shipped /\ restored' = restored
  BY <1>1 DEF Commit
<1>8. /\ order' \in OrderRows /\ order'.status = x.status /\ order.version < order'.version
      /\ order.status \in Statuses
  BY <1>3, <1>4, <1>5 DEF TypesOK, OrderRows
<1>9. order.status \in Sent => order'.status \in Sent
  BY <1>3, <1>8, SentStays
<1> HIDE DEF x
<1>10. DataInv'
  <2>1. TypesOK' /\ RestoredUndone' /\ RestoredWasShipped' /\ ReceivedCounted'
    BY <1>6, <1>7, <1>8 DEF IInv, DataInv, TypesOK, RestoredUndone, RestoredWasShipped,
         ReceivedCounted, Receipted
  <2>2. UnsentEmpty'
    BY <1>7, <1>9 DEF IInv, DataInv, UnsentEmpty
  <2>3. FullyReceived'
    BY <1>3, <1>6, <1>8, SentStays DEF IInv, DataInv, FullyReceived
  <2>4. CancelledUnreceived'
    <3>1. Received' = Received
      BY <1>7 DEF Received, Receipted
    <3>2. x.status = "CANCELLED" => Received = 0
      BY <1>3, <1>4, NothingReceived
    <3> QED BY <1>8, <3>1, <3>2 DEF CancelledUnreceived
  <2> QED BY <2>1, <2>2, <2>3, <2>4 DEF DataInv
<1>11. \A u \in Running : u # t => Good(tx[u], order', item', receipt', return', shipped')
  BY <1>1, <1>4, <1>6, <1>7, <1>8, <1>9, OrderCommitOthers DEF TypesOK, x
<1> QED BY <1>1, <1>10, <1>11, CommitPreserves

LEMMA EditCommits ==
    ASSUME IInv, NEW t \in Txns, Commit(t), tx[t].kind = "editOrder" PROVE IInv'
<1> DEFINE x == tx[t]
<1>1. /\ t \in Running /\ x.step = "commit" /\ tx' = [tx EXCEPT ![t] = None]
      /\ OrderSide(x, order, item, receipt) /\ OrderRow \in x.rows
      /\ order.version = x.saw /\ x.target \notin Returns
  BY CommitKnown DEF OrderKinds
<1>2. EditKnows(x, order)
  BY <1>1 DEF OrderSide
<1>3. /\ order.status = "DRAFT" /\ x.status = None /\ x.quantity \in Nat \ {0}
      /\ x.wrote = [i \in Items |-> [quantity |-> x.quantity, version |-> 0, received |-> 0]]
  BY <1>1, <1>2 DEF EditKnows
<1>4. TypesOK /\ \A n \in Receipts : receipt[n] = None
  BY <1>3 DEF IInv, DataInv, UnsentEmpty, Sent
<1>5. order' = [status |-> order.status, version |-> order.version + 1]
  BY <1>1, <1>3 DEF Commit
<1>6. item' = [i \in Items |-> [quantity |-> x.quantity, version |-> 0, received |-> 0]]
  <2>1. \A i \in Items : ItemSeen(t, i) = [quantity |-> x.quantity, version |-> 0, received |-> 0]
    BY <1>3 DEF ItemSeen
  <2> QED BY <2>1 DEF Commit
<1>7. receipt' = receipt /\ return' = return /\ shipped' = shipped /\ restored' = restored
  BY <1>1 DEF Commit
<1>8. /\ order' \in OrderRows /\ order'.status = "DRAFT" /\ order.version < order'.version
  BY <1>3, <1>4, <1>5 DEF TypesOK, OrderRows
<1>9. /\ item' \in [Items -> ItemRows]
      /\ \A i \in Items : item'[i].received = 0 /\ item'[i].quantity \in Nat \ {0}
  BY <1>3, <1>6 DEF ItemRows
<1>10. \A i \in Items : ItemRow(i) \in x.rows
  BY <1>1, <1>3 DEF OrderSide
<1> HIDE DEF x
<1>11. DataInv'
  <2>1. TypesOK' /\ RestoredUndone' /\ RestoredWasShipped'
    BY <1>7, <1>8, <1>9 DEF IInv, DataInv, TypesOK, RestoredUndone, RestoredWasShipped
  <2>2. UnsentEmpty'
    BY <1>4, <1>7 DEF UnsentEmpty
  <2>3. \A i \in Items : Receipted(i)' = Receipted(i) /\ Receipted(i) = 0
    BY <1>4, <1>7, ReceiptedNat DEF Receipted
  <2>4. ReceivedCounted'
    BY <1>9, <2>3 DEF ReceivedCounted
  <2>5. FullyReceived'
    BY <1>9, PurchasingAssumption DEF FullyReceived
  <2>6. CancelledUnreceived'
    BY <1>8 DEF CancelledUnreceived
  <2> QED BY <2>1, <2>2, <2>4, <2>5, <2>6 DEF DataInv
<1>12. order.status \notin Sent
  BY <1>3 DEF Sent
<1>13. \A u \in Running : u # t => Good(tx[u], order', item', receipt', return', shipped')
  BY <1>1, <1>7, <1>8, <1>9, <1>10, <1>12, OrderCommitOthers DEF x
<1> QED BY <1>1, <1>11, <1>13, CommitPreserves

(* A receipt adds its lines to the items, and is counted by as much.       *)
LEMMA ReceiptAdds ==
    ASSUME TypesOK, NEW n \in Receipts, receipt[n] = None, NEW f \in [Items -> Nat],
           receipt' = [receipt EXCEPT ![n] = f], NEW i \in Items
    PROVE  Receipted(i)' = Receipted(i) + f[i]
<1> DEFINE old == [m \in Receipts |-> IF receipt[m] = None THEN 0 ELSE receipt[m][i]]
           new == [m \in Receipts |-> IF receipt'[m] = None THEN 0 ELSE receipt'[m][i]]
<1>1. f # None /\ f[i] \in Nat
  BY NoneAssumption
<1>2. receipt'[n] = f /\ \A m \in Receipts : m # n => receipt'[m] = receipt[m]
  BY DEF TypesOK
<1>3. /\ DOMAIN old = Receipts /\ DOMAIN new = Receipts
      /\ old[n] = 0 /\ new[n] = f[i]
      /\ \A m \in Receipts : old[m] \in Int
      /\ \A m \in Receipts : m # n => old[m] = new[m]
  BY <1>1, <1>2 DEF TypesOK
<1>4. Receipted(i) = SumFunction(old) /\ Receipted(i)' = SumFunction(new)
  BY DEF Receipted
<1> HIDE DEF old, new
<1>5. SumFunctionOnSet(new, Receipts) = SumFunctionOnSet(old, Receipts) + (new[n] - old[n])
  BY <1>1, <1>3, SumUpdate, PurchasingAssumption
<1>6. SumFunctionOnSet(old, Receipts) \in Int
  BY <1>3, SumInt, PurchasingAssumption
<1> QED BY <1>1, <1>3, <1>4, <1>5, <1>6 DEF SumFunction

LEMMA ReceiveCommits ==
    ASSUME IInv, NEW t \in Txns, Commit(t), tx[t].kind = "receive" PROVE IInv'
<1> DEFINE x == tx[t]
           n == x.target
           f == [i \in Items |-> LineSum(x.lines, i)]
<1>1. /\ t \in Running /\ x.step = "commit" /\ tx' = [tx EXCEPT ![t] = None]
      /\ OrderSide(x, order, item, receipt) /\ OrderRow \in x.rows
      /\ order.version = x.saw /\ x.target \notin Returns
  BY CommitKnown DEF OrderKinds
<1>2. ReceiveKnows(x, order, item, receipt)
  BY <1>1 DEF OrderSide
<1>3. /\ x.lines \in Lines /\ x.todo = <<>> /\ ReceiptRowsOK(x, item)
      /\ n \in Receipts /\ receipt[n] = None /\ ReceiptRow(n) \in x.rows
      /\ order.status \in Sent /\ x.status \in {"RECEIVED", "PARTIALLY_RECEIVED"}
      /\ (\A i \in Items : ItemOf(x, i, item).received = ItemOf(x, i, item).quantity)
            => x.status = "RECEIVED"
  BY <1>1, <1>2 DEF ReceiveKnows
<1>4. TypesOK
  BY DEF IInv, DataInv
<1>5. order' = [status |-> x.status, version |-> order.version + 1]
  BY <1>1, <1>3, NoneAssumption DEF Commit, Statuses, Transitions
<1>6. item' = [i \in Items |-> ItemOf(x, i, item)]
  BY DEF Commit, ItemSeen, ItemOf
<1>7. receipt' = [receipt EXCEPT ![n] = f] /\ return' = return /\ shipped' = shipped /\ restored' = restored
  BY <1>1 DEF Commit
<1>8. /\ order' \in OrderRows /\ order'.status = x.status /\ order.version < order'.version
      /\ order'.status \in Sent
  BY <1>3, <1>4, <1>5 DEF TypesOK, OrderRows, Sent, Statuses, Transitions
<1>9. f \in [Items -> Nat] /\ \A i \in Items : f[i] = LineSum(x.lines, i)
  BY <1>3, LineSumNat
<1>10. /\ DOMAIN x.wrote \subseteq Items
       /\ \A i \in DOMAIN x.wrote : x.wrote[i] \in ItemRows /\ ItemRow(i) \in x.rows
  BY <1>1 DEF OrderSide
<1> HIDE DEF x, f, n
<1>11. ASSUME NEW i \in Items
       PROVE  /\ item'[i] \in ItemRows
              /\ item'[i] # item[i] => ItemRow(i) \in x.rows
              /\ item'[i] = item[i] \/ item[i].version < item'[i].version
              /\ item'[i].received = item[i].received + f[i]
              /\ item'[i].received <= item'[i].quantity
  <2>1. item[i] \in ItemRows /\ item[i].received <= item[i].quantity
    BY <1>4 DEF TypesOK, IInv, DataInv, ReceivedCounted
  <2>2. item'[i] = ItemOf(x, i, item)
    BY <1>6
  <2>3. LineSum(x.todo, i) = 0
    BY <1>3, LineSumEmpty
  <2>4. f[i] \in Nat /\ f[i] = LineSum(x.lines, i)
    BY <1>9
  <2>5. CASE i \in DOMAIN x.wrote
    <3>1. /\ item'[i] = x.wrote[i] /\ x.wrote[i] \in ItemRows /\ ItemRow(i) \in x.rows
          /\ x.wrote[i].received + 0 = item[i].received + f[i]
          /\ x.wrote[i].received <= item[i].quantity
          /\ x.wrote[i].quantity = item[i].quantity
          /\ item[i].version < x.wrote[i].version
      BY <1>3, <1>10, <2>2, <2>3, <2>4, <2>5 DEF ItemOf, ReceiptRowsOK
    <3>2. x.wrote[i].received \in Nat
      BY <3>1 DEF ItemRows
    <3> QED BY <3>1, <3>2
  <2>6. CASE i \notin DOMAIN x.wrote
    <3>1. item'[i] = item[i] /\ f[i] = 0
      BY <1>3, <2>2, <2>3, <2>4, <2>6 DEF ItemOf, ReceiptRowsOK
    <3> QED BY <2>1, <3>1 DEF ItemRows
  <2> QED BY <2>5, <2>6
<1>12. item' \in [Items -> ItemRows]
  BY <1>6, <1>11
<1>13. DataInv'
  <2>1. TypesOK'
    BY <1>4, <1>7, <1>8, <1>9, <1>12 DEF TypesOK
  <2>2. RestoredUndone' /\ RestoredWasShipped'
    BY <1>7 DEF IInv, DataInv, RestoredUndone, RestoredWasShipped
  <2>3. UnsentEmpty'
    BY <1>8 DEF UnsentEmpty
  <2>4. ReceivedCounted'
    <3> SUFFICES ASSUME NEW i \in Items
                 PROVE  item'[i].received = Receipted(i)' /\ Receipted(i)' <= item'[i].quantity
      BY DEF ReceivedCounted
    <3>1. Receipted(i)' = Receipted(i) + f[i]
      BY <1>3, <1>4, <1>7, <1>9, ReceiptAdds
    <3>2. item[i].received = Receipted(i)
      BY DEF IInv, DataInv, ReceivedCounted
    <3> QED BY <1>11, <3>1, <3>2
  <2>5. FullyReceived'
    BY <1>3, <1>6, <1>8 DEF FullyReceived
  <2>6. CancelledUnreceived'
    BY <1>3, <1>8 DEF CancelledUnreceived
  <2> QED BY <2>1, <2>2, <2>3, <2>4, <2>5, <2>6 DEF DataInv
<1>14. \A m \in Receipts : receipt'[m] # receipt[m] => ReceiptRow(m) \in x.rows
  BY <1>3, <1>4, <1>7 DEF TypesOK
<1>15. \A u \in Running : u # t => Good(tx[u], order', item', receipt', return', shipped')
  BY <1>1, <1>7, <1>8, <1>11, <1>12, <1>14, OrderCommitOthers DEF x
<1> QED BY <1>1, <1>13, <1>15, CommitPreserves

(* The commit of a change of a return: it holds the return's row, so no    *)
(* other transaction has claimed it, and an undo that has seen the return  *)
(* not undone is the first.                                                *)
LEMMA ReturnCommits ==
    ASSUME IInv, NEW t \in Txns, Commit(t), tx[t].kind \in ReturnKinds PROVE IInv'
<1> DEFINE x == tx[t]
           r == x.target
           old == return[r]
           new == ReturnWritten(t, old)
           out == IF x.kind = "complete" THEN old.quantity ELSE 0
           back == IF x.kind = "undo" THEN old.quantity ELSE 0
<1>1. /\ t \in Running /\ x.step = "commit" /\ tx' = [tx EXCEPT ![t] = None]
      /\ ReturnSide(x, return, shipped)
  BY CommitKnown
<1>2. /\ r \in Returns /\ old # None /\ DOMAIN x.wrote = {} /\ OrderRow \notin x.rows
      /\ ReturnRow(r) \in x.rows
      /\ x.kind = "editReturn" => x.quantity \in Nat
      /\ x.kind = "setReturn" => x.status \in {"APPROVED", "CANCELLED"}
      /\ x.kind = "complete" => x.status = "COMPLETED"
      /\ x.kind = "undo" => ~old.undone /\ shipped[r] = old.quantity
  BY <1>1 DEF ReturnSide
<1>3. TypesOK /\ old \in ReturnRows
  BY <1>2 DEF IInv, DataInv, TypesOK
<1>4. order' = order /\ receipt' = receipt
  BY <1>2 DEF Commit, ReturnKinds
<1>5. item' = item
  BY <1>2, <1>3 DEF Commit, ItemSeen, TypesOK
<1>6. /\ return' = [return EXCEPT ![r] = new]
      /\ shipped' = [shipped EXCEPT ![r] = @ + out]
      /\ restored' = [restored EXCEPT ![r] = @ + back]
  BY <1>2 DEF Commit
<1>7. /\ new \in ReturnRows /\ new # None
      /\ x.kind = "undo" => new.undone
      /\ x.kind # "undo" => new.undone = old.undone
  <2>1. CASE x.kind = "editReturn"
    <3>1. new = [old EXCEPT !.quantity = x.quantity]
      BY <2>1 DEF ReturnWritten
    <3> QED BY <1>2, <1>3, <2>1, <3>1, NoneAssumption DEF ReturnRows
  <2>2. CASE x.kind = "undo"
    <3>1. new = [old EXCEPT !.undone = TRUE]
      BY <2>2 DEF ReturnWritten
    <3> QED BY <1>3, <2>2, <3>1, NoneAssumption DEF ReturnRows
  <2>3. CASE x.kind \in {"setReturn", "complete"}
    <3>1. new = [old EXCEPT !.status = x.status]
      BY <2>3 DEF ReturnWritten
    <3>2. x.status \in {"APPROVED", "CANCELLED", "COMPLETED"}
      BY <1>2, <2>3
    <3> QED BY <1>3, <2>3, <3>1, <3>2, NoneAssumption DEF ReturnRows
  <2> QED BY <2>1, <2>2, <2>3 DEF ReturnKinds
<1>8. /\ old.quantity \in Nat /\ out \in Nat /\ back \in Nat
      /\ shipped[r] \in Nat /\ restored[r] \in Nat
      /\ x.kind = "undo" => back = old.quantity /\ out = 0
      /\ x.kind # "undo" => back = 0
  BY <1>2, <1>3 DEF ReturnRows, TypesOK
<1> HIDE DEF new, out, back
<1>9. /\ return'[r] = new /\ shipped'[r] = shipped[r] + out /\ restored'[r] = restored[r] + back
      /\ \A q \in Returns : q # r => /\ return'[q] = return[q] /\ shipped'[q] = shipped[q]
                                     /\ restored'[q] = restored[q]
  BY <1>2, <1>3, <1>6 DEF TypesOK
<1>10. DataInv'
  <2>1. TypesOK'
    <3>1. /\ return' \in [Returns -> ReturnRows \cup {None}]
          /\ shipped' \in [Returns -> Nat] /\ restored' \in [Returns -> Nat]
      BY <1>2, <1>3, <1>6, <1>7, <1>8 DEF TypesOK
    <3> QED BY <1>3, <1>4, <1>5, <3>1 DEF TypesOK
  <2>2. RestoredUndone'
    <3>1. RestoredUndone
      BY DEF IInv, DataInv
    <3>2. return'[r] = None \/ ~return'[r].undone => restored'[r] = 0
      BY <1>2, <1>7, <1>8, <1>9, <3>1 DEF RestoredUndone
    <3> QED BY <1>9, <3>1, <3>2 DEF RestoredUndone
  <2>3. RestoredWasShipped'
    <3>1. RestoredWasShipped /\ RestoredUndone
      BY DEF IInv, DataInv
    <3>2. restored'[r] <= shipped'[r]
      <4>1. restored[r] <= shipped[r]
        BY <1>2, <3>1 DEF RestoredWasShipped
      <4>2. CASE x.kind = "undo"
        BY <1>2, <1>8, <1>9, <3>1, <4>2 DEF RestoredUndone
      <4>3. CASE x.kind # "undo"
        BY <1>8, <1>9, <4>1, <4>3
      <4> QED BY <4>2, <4>3
    <3> QED BY <1>9, <3>1, <3>2 DEF RestoredWasShipped
  <2> QED BY <1>4, <1>5, <2>1, <2>2, <2>3 DEF IInv, DataInv, UnsentEmpty, ReceivedCounted,
             FullyReceived, CancelledUnreceived, Received, Receipted
<1>11. ASSUME NEW u \in Running, u # t
       PROVE  Good(tx[u], order', item', receipt', return', shipped')
  <2> DEFINE z == tx[u]
  <2>1. Good(z, order, item, receipt, return, shipped) /\ z.rows \cap x.rows = {}
    BY <1>1, <1>11 DEF IInv, AllGood, RowsApart
  <2> HIDE DEF z, x, old, r
  <2>2. ASSUME z.kind \in ReturnKinds PROVE ReturnSide(z, return', shipped')
    <3>1. ReturnSide(z, return, shipped)
      BY <2>1, <2>2 DEF Good
    <3>2. CASE ReturnRow(z.target) \in z.rows
      <4>1. z.target # r /\ z.target \in Returns
        BY <1>2, <2>1, <3>1, <3>2 DEF ReturnSide
      <4> QED BY <1>9, <3>1, <4>1 DEF ReturnSide
    <3>3. CASE ReturnRow(z.target) \notin z.rows
      <4>1. return'[z.target] # None
        BY <1>7, <1>9, <3>1 DEF ReturnSide
      <4> QED BY <3>1, <3>3, <4>1 DEF ReturnSide
    <3> QED BY <3>2, <3>3
  <2>3. z.kind \in OrderKinds => OrderSide(z, order', item', receipt')
    BY <1>4, <1>5, <2>1 DEF Good
  <2> QED BY <2>1, <2>2, <2>3 DEF Good, z
<1> QED BY <1>1, <1>10, <1>11, CommitPreserves

-----------------------------------------------------------------------------
LEMMA StatementPreserves == ASSUME IInv, NEW t \in Txns, Statement(t) PROVE IInv'
<1>1. CASE ReadOrder(t) \/ CheckUnreceived(t) \/ ReplaceItems(t) \/ CheckLines(t) \/ InsertReceipt(t)
  BY <1>1, ReadOrderPreserves, CheckUnreceivedPreserves, ReplaceItemsPreserves, CheckLinesPreserves,
     InsertReceiptPreserves
<1>2. CASE ReadItem(t) \/ WriteItem(t) \/ ReadOrderAgain(t) \/ CountReceived(t) \/ WriteOrder(t)
  BY <1>2, ReadItemPreserves, WriteItemPreserves, ReadOrderAgainPreserves, CountReceivedPreserves,
     WriteOrderPreserves
<1>3. CASE ReadReturn(t) \/ ClaimReturn(t) \/ ValidateReturn(t) \/ FindLayers(t) \/ WriteReturn(t)
  BY <1>3, ReadReturnPreserves, ClaimReturnPreserves, ValidateReturnPreserves, FindLayersPreserves,
     WriteReturnPreserves
<1>4. CASE Commit(t)
  BY <1>4, CommitKnown, TransitionCommits, EditCommits, ReceiveCommits, ReturnCommits DEF OrderKinds
<1>5. CASE Fail(t)
  BY <1>5, AbortPreserves DEF Fail
<1> QED BY <1>1, <1>2, <1>3, <1>4, <1>5 DEF Statement

LEMMA NextPreserves == IInv /\ [Next]_vars => IInv'
<1> SUFFICES ASSUME IInv, [Next]_vars PROVE IInv'
  OBVIOUS
<1>1. ASSUME NEW t \in Txns, Request(t) PROVE IInv'
  BY <1>1, OrderRequestPreserves, ReturnRequestPreserves DEF Request
<1>2. ASSUME NEW t \in Txns, Statement(t) PROVE IInv'
  BY <1>2, StatementPreserves
<1>3. CASE CreateReturn
  BY <1>3, CreateReturnPreserves
<1>4. CASE UNCHANGED vars
  BY <1>4 DEF vars, IInv, DataInv, RowsApart, AllGood, Running, TypesOK, UnsentEmpty, RestoredUndone,
     ReceivedCounted, FullyReceived, CancelledUnreceived, RestoredWasShipped, Received, Receipted
<1> QED BY <1>1, <1>2, <1>3, <1>4 DEF Next

-----------------------------------------------------------------------------
(* Theorems.                                                               *)

(* In every reachable state the rows are as they should be, no two         *)
(* transactions hold a row, and each knows what it must of the rows it is  *)
(* about to write.                                                         *)
THEOREM Invariance == Spec => []IInv
BY InitEstablishes, NextPreserves, PTL DEF Spec

(* Goods receipts that run at the same time, of one item or of several,    *)
(* and that name an item twice, lose no unit and count none twice, and     *)
(* none takes an item above what was ordered (incrementReceivedQuantity).  *)
THEOREM ReceiptsAreCounted == Spec => []ReceivedCounted
<1>1. IInv => ReceivedCounted
  BY DEF IInv, DataInv
<1> QED BY <1>1, Invariance, PTL

(* An order all of whose items have come in is RECEIVED, although          *)
(* updateStatusAfterReceipt sees only committed rows and its own: the      *)
(* receipt that commits last has read the order's version before it        *)
(* counted, and no other has changed it since.                             *)
THEOREM FullOrderIsReceived == Spec => []FullyReceived
<1>1. IInv => FullyReceived
  BY DEF IInv, DataInv
<1> QED BY <1>1, Invariance, PTL

(* While an order is CANCELLED nothing has been received on it: of a       *)
(* cancellation and a receipt that overlap, one fails on the order's       *)
(* version, or the receipt comes last and reopens the order.               *)
THEOREM CancelledOrderIsEmpty == Spec => []CancelledUnreceived
<1>1. IInv => CancelledUnreceived
  BY DEF IInv, DataInv
<1> QED BY <1>1, Invariance, PTL

(* However often its undoing is asked for, a return puts back into stock   *)
(* no more than it took out (cancelIfCompleted lets one caller through).   *)
THEOREM ReturnUndoneOnce == Spec => []RestoredWasShipped
<1>1. IInv => RestoredWasShipped
  BY DEF IInv, DataInv
<1> QED BY <1>1, Invariance, PTL
=============================================================================

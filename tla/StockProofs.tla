---------------------------- MODULE StockProofs ----------------------------
(***************************************************************************)
(* Proofs about Stock: strict stock, units that stand in layers,           *)
(* reservations and reconciliations that fit, and who may wait in a        *)
(* circle; for any numbers of warehouses, counts, units and transactions.  *)
(* A transaction x knows things about the stock rows st, the layers la,    *)
(* the counts co and whether the data had drifted, dr: Knows says what,    *)
(* and is an operator of the rows, to be compared before and after a       *)
(* commit.                                                                 *)
(***************************************************************************)
EXTENDS Stock, SumTheorems, SequenceTheorems

Kinds == {"adjust", "transfer", "reserve", "release", "sale", "refund", "legacyRefund", "receipt",
          "return", "undo", "count", "reconcile"}
Single == {"adjust", "transfer", "reserve", "release", "count"}
Steps == {"claim", "read", "aggregate", "write", "writeTo", "add", "readLayers", "take", "commit"}
StockRows == [quantity : Nat, reserved : Nat, version : Nat]
LayerPools == [units : Nat, takes : Nat]
CountRows == [at : Warehouses, expected : Nat, actual : Nat, status : {"DRAFT", "COMPLETED"}]
RowMaps == UNION {[D -> StockRows] : D \in SUBSET Warehouses}

Transactions ==
    [count : Counts \cup {None}, kind : Kinds, lines : Seq(Int), at : Steps,
     from : Warehouses, to : Warehouses \cup {None},
     saw : StockRows \cup {None}, sawTo : StockRows \cup {None}, sawLayers : LayerPools \cup {None},
     rows : RowMaps,
     units : Int, took : BOOLEAN, parts : BOOLEAN]

(* The quantities a request of a kind moves by.                            *)
Moves(kind) ==
    IF kind \in {"sale", "return", "transfer"} THEN {n \in Int : n < 0}
    ELSE IF kind \in {"adjust", "count"} THEN {n \in Int : n # 0}
    ELSE {n \in Int : n > 0}

(* The statements of a request of a kind.                                  *)
StepsOf(kind) ==
    CASE kind = "transfer" -> {"read", "write", "writeTo", "commit"}
      [] kind \in {"reserve", "release"} -> {"read", "write", "commit"}
      [] kind \in {"sale", "return"} -> {"read", "write", "readLayers", "take", "commit"}
      [] kind \in {"refund", "legacyRefund", "receipt", "undo"} -> {"read", "write", "add", "commit"}
      [] kind = "adjust" -> {"read", "write", "add", "readLayers", "take", "commit"}
      [] kind = "count" -> {"claim", "read", "write", "add", "readLayers", "take", "commit"}
      [] kind = "reconcile" -> {"read", "aggregate", "commit"}

AtLayers == {"add", "readLayers", "take"}

(* What a transaction looks like at each of its statements.                *)
Shaped(x) ==
    /\ x \in Transactions /\ x.at \in StepsOf(x.kind)
    /\ \A i \in 1..Len(x.lines) : x.lines[i] \in Moves(x.kind)
    /\ x.kind \in Single => Len(x.lines) <= 1
    /\ x.at \in {"write", "writeTo"} \cup AtLayers \/ (x.at = "read" /\ x.kind # "reconcile")
            => x.lines # <<>>
    /\ x.at = "add" => Head(x.lines) > 0
    /\ x.at \in {"readLayers", "take"} => Head(x.lines) < 0
    /\ x.kind = "transfer" => x.to \in Warehouses /\ x.to # x.from
    /\ x.kind # "transfer" => x.to = None
    /\ x.kind = "count" => x.count \in Counts

(* Which rows it holds.                                                    *)
HoldsRows(x) ==
    /\ DOMAIN x.rows \subseteq {x.from, x.to}
    /\ x.kind # "transfer" => DOMAIN x.rows \subseteq {x.from}
    /\ x.kind \in Single /\ x.at \in {"claim", "read", "write"} => DOMAIN x.rows = {}
    /\ x.at \in AtLayers \cup {"writeTo"} => DOMAIN x.rows = {x.from}
    /\ x.kind = "transfer" /\ x.at = "commit" => DOMAIN x.rows = {x.from, x.to}
    /\ x.kind = "reconcile" => DOMAIN x.rows = {}
    /\ DOMAIN x.rows = {} => ~x.took /\ ~x.parts /\ (x.kind # "reconcile" => x.units = 0)

(* A row read before is the row that stands if it has the version.         *)
Recent(saw, row) == saw.version <= row.version /\ (saw.version = row.version => saw = row)

Admitted(kind, n, row) ==
    /\ kind \in {"adjust", "transfer"} => row.quantity + n >= 0
    /\ kind = "reserve" => row.quantity - row.reserved >= n

(* What it knows of its rows.                                              *)
RowsKnown(x, st) ==
    /\ \A w \in DOMAIN x.rows :
        /\ x.rows[w].version > st[w].version
        /\ x.rows[w].reserved <= st[w].reserved \/ x.rows[w].reserved <= x.rows[w].quantity
        /\ x.kind \notin {"reserve", "release"} => x.rows[w].reserved = st[w].reserved
    /\ x.at = "write" =>
        /\ x.saw \in StockRows
        /\ IF x.from \in DOMAIN x.rows THEN x.saw = x.rows[x.from] ELSE Recent(x.saw, st[x.from])
        /\ Admitted(x.kind, Head(x.lines), x.saw)
    /\ x.kind = "transfer" /\ x.at \in {"write", "writeTo"} => x.sawTo \in StockRows
    /\ x.kind = "reconcile" /\ x.at # "read" => x.saw = st[x.from]

Delta(x, w, st) == IF w \in DOMAIN x.rows THEN x.rows[w].quantity - st[w].quantity ELSE 0

ToDo(x) == IF x.at \in AtLayers THEN Head(x.lines) ELSE 0

(* What it has moved, in its rows and in the layers.                       *)
MovedEvenly(x, st, co, dr) ==
    /\ x.kind = "transfer" =>
        /\ x.units = 0 /\ ~x.took
        /\ x.at = "writeTo" => Delta(x, x.from, st) = Head(x.lines)
        /\ x.at = "commit" => Delta(x, x.to, st) = -Delta(x, x.from, st)
    /\ x.kind \notin {"transfer", "reconcile"} /\ ~x.parts /\ ~dr =>
        Delta(x, x.from, st) = x.units + ToDo(x)
    /\ x.kind = "legacyRefund" /\ DOMAIN x.rows # {} => x.parts
    /\ x.kind = "count" =>
        /\ co[x.count] # None
        /\ x.at \in {"claim", "read", "write"} /\ x.lines # <<>> =>
            Head(x.lines) = co[x.count].actual - co[x.count].expected
    /\ x.at = "take" /\ ~x.parts /\ ~dr => x.sawLayers.units >= -Head(x.lines)

(* What it knows of the layers.                                            *)
LayersKnown(x, la) ==
    /\ ~x.took => x.units >= 0
    /\ la.units + x.units >= 0
    /\ x.at = "take" =>
        /\ x.sawLayers \in LayerPools /\ x.sawLayers.takes <= la.takes
        /\ x.sawLayers.takes = la.takes => la.units + x.units >= x.sawLayers.units
    /\ x.kind = "reconcile" =>
        IF x.at = "commit" THEN la.units + x.units = x.saw.quantity /\ x.units > 0 ELSE x.units = 0

Knows(x, st, la, co, dr) ==
    /\ Shaped(x) /\ HoldsRows(x) /\ RowsKnown(x, st)
    /\ MovedEvenly(x, st, co, dr) /\ LayersKnown(x, la)

HeldBy(x) ==
    DOMAIN x.rows \cup (IF x.kind = "reconcile" /\ x.at # "read" THEN Warehouses ELSE {})

(* No row, and no layer, is held by two.                                   *)
Apart(x, z) == HeldBy(x) \cap HeldBy(z) = {} /\ ~(x.took /\ z.took)

DataInv ==
    /\ stock \in [Warehouses -> StockRows]
    /\ layers \in LayerPools
    /\ count \in [Counts -> CountRows \cup {None}]
    /\ drifted \in BOOLEAN
    /\ requests \in 0..MaxRequests
    /\ UnitsValued

AllKnow == DOMAIN tx = Txns /\ \A t \in Running : Knows(tx[t], stock, layers, count, drifted)
AllApart == \A t, u \in Running : t # u => Apart(tx[t], tx[u])

IInv == DataInv /\ AllKnow /\ AllApart

-----------------------------------------------------------------------------
LEMMA NotNone ==
    None \notin Warehouses /\ None \notin Counts /\ None \notin CountRows /\ IsFiniteSet(Warehouses)
BY StockAssumption DEF CountRows

LEMMA KnowsMine ==
    ASSUME IInv, NEW t \in Running
    PROVE  /\ t \in Txns /\ Knows(tx[t], stock, layers, count, drifted)
           /\ \A u \in Running \ {t} : Apart(tx[t], tx[u])
BY DEF IInv, AllKnow, AllApart, Running

(* A statement changes its own transaction and nothing else.               *)
LEMMA StepPreserves ==
    ASSUME IInv, NEW t \in Running, NEW y, Becomes(t, y),
           Knows(y, stock, layers, count, drifted),
           \A u \in Running \ {t} : Apart(y, tx[u])
    PROVE  IInv'
<1>1. /\ UNCHANGED <<stock, layers, count, drifted, requests>>
      /\ tx' = [tx EXCEPT ![t] = y] /\ DOMAIN tx = Txns /\ t \in Txns
  BY DEF Becomes, Stay, IInv, AllKnow, Running
<1>2. tx'[t] = y /\ \A u \in Txns \ {t} : tx'[u] = tx[u]
  BY <1>1
<1>3. Running' \subseteq Running
  BY <1>1, <1>2 DEF Running
<1>4. DataInv'
  BY <1>1 DEF IInv, DataInv, UnitsValued, Total
<1>5. AllKnow'
  <2> SUFFICES ASSUME NEW u \in Running' PROVE Knows(tx'[u], stock, layers, count, drifted)
    BY <1>1 DEF AllKnow
  <2>1. u \in Running /\ u \in Txns
    BY <1>3 DEF Running
  <2> QED BY <1>2, <2>1, KnowsMine
<1>6. AllApart'
  <2> SUFFICES ASSUME NEW u \in Running', NEW v \in Running', u # v PROVE Apart(tx'[u], tx'[v])
    BY DEF AllApart
  <2>1. u \in Running /\ v \in Running /\ u \in Txns /\ v \in Txns
    BY <1>3 DEF Running
  <2>2. CASE u = t
    BY <1>2, <2>1, <2>2
  <2>3. CASE v = t
    <3>1. Apart(y, tx[u])
      BY <2>1, <2>3
    <3> QED BY <1>2, <2>1, <2>3, <3>1 DEF Apart
  <2>4. CASE u # t /\ v # t
    BY <1>2, <2>1, <2>4, KnowsMine
  <2> QED BY <2>2, <2>3, <2>4
<1> QED BY <1>4, <1>5, <1>6 DEF IInv

(* Most statements take no more rows than the transaction has.             *)
LEMMA HoldingNoMore ==
    ASSUME IInv, NEW t \in Running, NEW y, HeldBy(y) \subseteq HeldBy(tx[t]), y.took => tx[t].took
    PROVE  \A u \in Running \ {t} : Apart(y, tx[u])
BY KnowsMine DEF Apart

LEMMA Dropped ==
    ASSUME IInv, NEW t \in Txns, tx' = [tx EXCEPT ![t] = None]
    PROVE  /\ DOMAIN tx' = Txns /\ Running' = Running \ {t}
           /\ \A u \in Running' : tx'[u] = tx[u] /\ u \in Running \ {t}
           /\ AllApart'
<1>1. DOMAIN tx = Txns
  BY DEF IInv, AllKnow
<1>2. DOMAIN tx' = Txns /\ tx'[t] = None /\ \A u \in Txns \ {t} : tx'[u] = tx[u]
  BY <1>1
<1>3. Running' = Running \ {t} /\ \A u \in Running' : tx'[u] = tx[u] /\ u \in Running \ {t}
  BY <1>2 DEF Running
<1> QED BY <1>2, <1>3 DEF IInv, AllApart

LEMMA AbortPreserves == ASSUME IInv, NEW t \in Running, Abort(t) PROVE IInv'
<1>1. /\ UNCHANGED <<stock, layers, count, drifted, requests>>
      /\ tx' = [tx EXCEPT ![t] = None]
      /\ t \in Txns
  BY DEF Abort, Stay, Running
<1>2. DataInv'
  BY <1>1 DEF IInv, DataInv, UnitsValued, Total
<1>3. AllKnow'
  BY <1>1, Dropped, KnowsMine DEF AllKnow
<1> QED BY <1>1, <1>2, <1>3, Dropped DEF IInv

(* A request begins with nothing in its hands.                             *)
LEMMA BeginPreserves ==
    ASSUME IInv, NEW t \in Txns, NEW y, Begin(t, y),
           Knows(y, stock, layers, count, drifted), HeldBy(y) = {}, ~y.took
    PROVE  IInv'
<1>1. /\ UNCHANGED <<stock, layers, count, drifted>> /\ requests' = requests + 1
      /\ requests < MaxRequests /\ tx[t] = None
      /\ tx' = [tx EXCEPT ![t] = y] /\ DOMAIN tx = Txns
  BY DEF Begin, IInv, AllKnow
<1>2. tx'[t] = y /\ \A u \in Txns \ {t} : tx'[u] = tx[u]
  BY <1>1
<1>3. \A u \in Running' : u # t => u \in Running /\ tx'[u] = tx[u]
  BY <1>1, <1>2 DEF Running
<1>4. DataInv'
  <2>1. requests' \in 0..MaxRequests
    BY <1>1, StockAssumption DEF IInv, DataInv
  <2> QED BY <1>1, <2>1 DEF IInv, DataInv, UnitsValued, Total
<1>5. AllKnow'
  BY <1>1, <1>2, <1>3, KnowsMine DEF AllKnow
<1>6. AllApart'
  <2> SUFFICES ASSUME NEW u \in Running', NEW v \in Running', u # v PROVE Apart(tx'[u], tx'[v])
    BY DEF AllApart
  <2>1. \A z : Apart(y, z) /\ Apart(z, y)
    BY DEF Apart
  <2>2. u # t /\ v # t => Apart(tx[u], tx[v])
    BY <1>3 DEF IInv, AllApart
  <2> QED BY <1>2, <1>3, <2>1, <2>2
<1> QED BY <1>4, <1>5, <1>6 DEF IInv

LEMMA NoRows == <<>> \in [{} -> StockRows] /\ DOMAIN <<>> = {}
OBVIOUS

(* A transaction as a request begins it.                                   *)
Fresh(y) ==
    y.rows = <<>> /\ y.units = 0 /\ y.took = FALSE /\ y.parts = FALSE

LEMMA TransactionTyped ==
    ASSUME NEW kind \in Kinds, NEW w \in Warehouses, NEW lines \in Seq(Int)
    PROVE  LET y == Transaction(kind, w, lines) IN
           /\ y \in Transactions /\ Fresh(y)
           /\ y.kind = kind /\ y.at = "read" /\ y.lines = lines /\ y.from = w /\ y.to = None
           /\ y.count = None
<1>1. <<>> \in RowMaps
  BY NoRows DEF RowMaps
<1>2. /\ 0 \in Int /\ None \in StockRows \cup {None} /\ None \in LayerPools \cup {None}
      /\ None \in Counts \cup {None} /\ None \in Warehouses \cup {None} /\ FALSE \in BOOLEAN
      /\ "read" \in Steps
  BY DEF Steps
<1>3. Transaction(kind, w, lines) \in Transactions
  BY <1>1, <1>2 DEF Transaction, Transactions
<1> QED BY <1>3 DEF Transaction, Fresh

LEMMA FreshKnows ==
    ASSUME IInv, NEW y \in Transactions, Fresh(y),
           \A i \in 1..Len(y.lines) : y.lines[i] \in Moves(y.kind),
           y.kind \in Single => Len(y.lines) <= 1,
           y.kind \notin {"count", "reconcile"} => y.lines # <<>>,
           IF y.kind = "transfer" THEN y.to \in Warehouses /\ y.to # y.from ELSE y.to = None,
           IF y.kind = "count"
           THEN /\ y.count \in Counts /\ y.at = "claim" /\ count[y.count] # None
                /\ y.lines # <<>> => Head(y.lines) = count[y.count].actual - count[y.count].expected
           ELSE y.at = "read"
    PROVE  Knows(y, stock, layers, count, drifted) /\ HeldBy(y) = {} /\ ~y.took
<1>1. y.rows = <<>> /\ y.units = 0 /\ y.took = FALSE /\ y.parts = FALSE
  BY DEF Fresh
<1>2. y.at \in StepsOf(y.kind)
  BY DEF StepsOf, Kinds, Transactions
<1>3. Shaped(y)
  BY <1>1, <1>2, NotNone DEF Shaped, AtLayers
<1>4. HoldsRows(y) /\ HeldBy(y) = {}
  BY <1>1, NoRows DEF HoldsRows, AtLayers, HeldBy
<1>5. RowsKnown(y, stock)
  BY <1>1, NoRows DEF RowsKnown
<1>6. MovedEvenly(y, stock, count, drifted)
  BY <1>1, NoRows DEF MovedEvenly, Delta, ToDo, AtLayers
<1>7. LayersKnown(y, layers)
  BY <1>1 DEF LayersKnown, IInv, DataInv, LayerPools
<1> QED BY <1>1, <1>3, <1>4, <1>5, <1>6, <1>7 DEF Knows

(* Every request but a transfer and the completion of a count.             *)
LEMMA PlainPreserves ==
    ASSUME IInv, NEW t \in Txns, NEW kind \in Kinds \ {"transfer", "count"}, NEW w \in Warehouses,
           NEW lines \in Seq(Int), \A i \in 1..Len(lines) : lines[i] \in Moves(kind),
           kind \in Single => Len(lines) <= 1, kind # "reconcile" => lines # <<>>,
           Begin(t, Transaction(kind, w, lines))
    PROVE  IInv'
<1> DEFINE y == Transaction(kind, w, lines)
<1>1. /\ y \in Transactions /\ Fresh(y)
      /\ y.kind = kind /\ y.at = "read" /\ y.lines = lines /\ y.from = w /\ y.to = None
  BY TransactionTyped
<1>2. Begin(t, y)
  OBVIOUS
<1> HIDE DEF y
<1>3. Knows(y, stock, layers, count, drifted) /\ HeldBy(y) = {} /\ ~y.took
  BY <1>1, FreshKnows
<1> QED BY <1>2, <1>3, BeginPreserves

LEMMA One == \A n \in Int : <<n>> \in Seq(Int) /\ <<n>> # <<>> /\ Len(<<n>>) = 1 /\ <<n>>[1] = n /\ Head(<<n>>) = n
OBVIOUS

LEMMA Two == \A n \in Int : <<n, n>> \in Seq(Int) /\ <<n, n>> # <<>> /\ \A i \in 1..Len(<<n, n>>) : <<n, n>>[i] = n
OBVIOUS

LEMMA OnePreserves ==
    ASSUME IInv, NEW t \in Txns, NEW kind \in Kinds \ {"transfer", "count"}, NEW w \in Warehouses,
           NEW n \in Moves(kind), Begin(t, Transaction(kind, w, <<n>>))
    PROVE  IInv'
<1>1. n \in Int
  BY DEF Moves
<1>2. \A i \in 1..Len(<<n>>) : <<n>>[i] \in Moves(kind)
  BY <1>1
<1>3. <<n>> \in Seq(Int) /\ <<n>> # <<>> /\ Len(<<n>>) <= 1
  BY <1>1, One
<1> QED BY <1>2, <1>3, PlainPreserves

LEMMA TwoPreserves ==
    ASSUME IInv, NEW t \in Txns, NEW kind \in Kinds \ (Single \cup {"transfer", "count"}),
           NEW w \in Warehouses, NEW n \in Moves(kind), Begin(t, Transaction(kind, w, <<n, n>>))
    PROVE  IInv'
<1>1. n \in Int
  BY DEF Moves
<1> QED BY <1>1, Two, PlainPreserves

LEMMA TransferPreserves == ASSUME IInv, NEW t \in Txns, Transfer(t) PROVE IInv'
<1>1. PICK w, v \in Warehouses, n \in 1..Units :
        w # v /\ Begin(t, [Transaction("transfer", w, <<-n>>) EXCEPT !.to = v])
  BY DEF Transfer
<1> DEFINE b == Transaction("transfer", w, <<-n>>)
           y == [b EXCEPT !.to = v]
<1>2. n \in Int /\ -n \in Int /\ -n < 0
  BY StockAssumption
<1>3. /\ <<-n>> \in Seq(Int) /\ Len(<<-n>>) <= 1 /\ <<-n>> # <<>>
      /\ \A i \in 1..Len(<<-n>>) : <<-n>>[i] \in Moves("transfer")
  BY <1>2 DEF Moves
<1>4. /\ b \in Transactions /\ Fresh(b)
      /\ b.kind = "transfer" /\ b.at = "read" /\ b.lines = <<-n>> /\ b.from = w
  <2> DEFINE lines == <<-n>>
  <2>1. lines \in Seq(Int) /\ "transfer" \in Kinds /\ b = Transaction("transfer", w, lines)
    BY <1>3 DEF Kinds
  <2> HIDE DEF lines, b
  <2>2. /\ b \in Transactions /\ Fresh(b)
        /\ b.kind = "transfer" /\ b.at = "read" /\ b.lines = lines /\ b.from = w
    BY <2>1, TransactionTyped
  <2> QED BY <2>2 DEF lines
<1>5. Begin(t, y)
  BY <1>1
<1> HIDE DEF b
<1>6. /\ y \in Transactions /\ Fresh(y) /\ y.to = v
      /\ y.kind = "transfer" /\ y.at = "read" /\ y.lines = <<-n>> /\ y.from = w
  BY <1>4 DEF Transactions, Fresh
<1> HIDE DEF y
<1>7. Knows(y, stock, layers, count, drifted) /\ HeldBy(y) = {} /\ ~y.took
  BY <1>1, <1>3, <1>6, FreshKnows
<1> QED BY <1>5, <1>7, BeginPreserves

LEMMA CompleteCountPreserves ==
    ASSUME IInv, NEW t \in Txns, CompleteCount(t)
    PROVE  IInv'
<1> DEFINE LinesFor(n) == IF n = 0 THEN <<>> ELSE <<n>>
<1>1. PICK c \in Counts :
        /\ count[c] # None
        /\ Begin(t, [Transaction("count", count[c].at, LinesFor(count[c].actual - count[c].expected))
                     EXCEPT !.count = c, !.at = "claim"])
  BY DEF CompleteCount
<1> DEFINE n == count[c].actual - count[c].expected
<1>2. count[c] \in CountRows /\ count[c].at \in Warehouses /\ n \in Int
  BY <1>1 DEF IInv, DataInv, CountRows
<1> HIDE DEF n
<1>3. /\ LinesFor(n) \in Seq(Int) /\ Len(LinesFor(n)) <= 1
      /\ \A i \in 1..Len(LinesFor(n)) : LinesFor(n)[i] \in Moves("count")
      /\ LinesFor(n) # <<>> => Head(LinesFor(n)) = n
  <2>1. CASE n = 0
    BY <2>1
  <2>2. CASE n # 0
    BY <1>2, <2>2 DEF Moves
  <2> QED BY <2>1, <2>2
<1> DEFINE b == Transaction("count", count[c].at, LinesFor(n))
           y == [b EXCEPT !.count = c, !.at = "claim"]
<1>4. Begin(t, y)
  BY <1>1 DEF n
<1> HIDE DEF LinesFor
<1>5. /\ b \in Transactions /\ Fresh(b)
      /\ b.kind = "count" /\ b.lines = LinesFor(n) /\ b.to = None
  BY <1>2, <1>3, TransactionTyped DEF Kinds
<1> HIDE DEF b
<1>6. /\ y \in Transactions /\ Fresh(y) /\ y.to = None /\ y.count = c
      /\ y.kind = "count" /\ y.at = "claim" /\ y.lines = LinesFor(n)
  BY <1>5 DEF Transactions, Fresh, Steps
<1> HIDE DEF y
<1>7. Knows(y, stock, layers, count, drifted) /\ HeldBy(y) = {} /\ ~y.took
  BY <1>1, <1>3, <1>6, FreshKnows DEF n
<1> QED BY <1>4, <1>7, BeginPreserves

LEMMA RequestPreserves == ASSUME IInv, NEW t \in Txns, Request(t) PROVE IInv'
<1> USE StockAssumption
<1>1. CASE Adjust(t)
  BY <1>1, OnePreserves DEF Adjust, Moves, Kinds
<1>2. CASE Transfer(t)
  BY <1>2, TransferPreserves
<1>3. CASE Reserve(t)
  BY <1>3, OnePreserves DEF Reserve, Moves, Kinds
<1>4. CASE Release(t)
  BY <1>4, OnePreserves DEF Release, Moves, Kinds
<1>5. CASE SaleCompleted(t)
  <2>1. PICK w \in Warehouses, lines \in {<<-1>>, <<-Units>>, <<-1, -1>>} :
          Begin(t, Transaction("sale", w, lines))
    BY <1>5 DEF SaleCompleted
  <2>2. -1 \in Moves("sale") /\ -Units \in Moves("sale")
    BY DEF Moves
  <2>3. "sale" \in Kinds \ (Single \cup {"transfer", "count"})
    BY DEF Kinds, Single
  <2> QED BY <2>1, <2>2, <2>3, OnePreserves, TwoPreserves
<1>6. CASE SaleRefunded(t)
  BY <1>6, TwoPreserves DEF SaleRefunded, Moves, Kinds, Single
<1>7. CASE SalePartiallyRefunded(t)
  BY <1>7, OnePreserves DEF SalePartiallyRefunded, Moves, Kinds
<1>8. CASE PurchaseReceived(t)
  BY <1>8, OnePreserves DEF PurchaseReceived, Moves, Kinds
<1>9. CASE CompleteReturn(t)
  BY <1>9, OnePreserves DEF CompleteReturn, Moves, Kinds
<1>10. CASE CancelReturn(t)
  BY <1>10, OnePreserves DEF CancelReturn, Moves, Kinds
<1>11. CASE CompleteCount(t)
  BY <1>11, CompleteCountPreserves
<1>12. CASE Reconcile(t)
  <2>1. <<>> \in Seq(Int) /\ \A i \in 1..Len(<<>>) : <<>>[i] \in Moves("reconcile")
    OBVIOUS
  <2>2. "reconcile" \in Kinds \ {"transfer", "count"} /\ "reconcile" \notin Single
    BY DEF Kinds, Single
  <2> QED BY <1>12, <2>1, <2>2, PlainPreserves DEF Reconcile
<1> QED
  BY <1>1, <1>2, <1>3, <1>4, <1>5, <1>6, <1>7, <1>8, <1>9, <1>10, <1>11, <1>12
     DEF Request

(* A count is drawn up: no transaction completes it yet.                   *)
LEMMA CreateCountPreserves == ASSUME IInv, NEW c \in Counts, CreateCount(c) PROVE IInv'
<1>1. PICK w \in Warehouses, n \in 0..Units :
        count' = [count EXCEPT ![c] = [at |-> w, expected |-> stock[w].quantity, actual |-> n, status |-> "DRAFT"]]
  BY DEF CreateCount
<1>2. /\ count[c] = None /\ requests < MaxRequests /\ requests' = requests + 1
      /\ UNCHANGED <<stock, layers, drifted, tx>>
  BY DEF CreateCount
<1>3. [at |-> w, expected |-> stock[w].quantity, actual |-> n, status |-> "DRAFT"] \in CountRows
  BY StockAssumption DEF CountRows, IInv, DataInv, StockRows
<1>4. DataInv'
  BY <1>1, <1>2, <1>3, StockAssumption DEF IInv, DataInv, UnitsValued, Total
<1>5. \A d \in Counts : count[d] # None => count'[d] = count[d]
  BY <1>1, <1>2 DEF IInv, DataInv
<1>6. ASSUME NEW t \in Running
      PROVE  Knows(tx[t], stock, layers, count', drifted)
  <2>1. Knows(tx[t], stock, layers, count, drifted)
    BY KnowsMine
  <2> QED BY <1>5, <2>1 DEF Knows, MovedEvenly, Shaped
<1> QED BY <1>2, <1>4, <1>6 DEF IInv, AllKnow, AllApart, Running

-----------------------------------------------------------------------------
(* The fields of a transaction.                                            *)
LEMMA Fields ==
    ASSUME NEW x, Shaped(x)
    PROVE  /\ x \in Transactions /\ x.kind \in Kinds /\ x.at \in Steps /\ x.at \in StepsOf(x.kind)
           /\ x.lines \in Seq(Int) /\ x.from \in Warehouses /\ x.rows \in RowMaps
           /\ x.units \in Int /\ x.took \in BOOLEAN /\ x.parts \in BOOLEAN
BY DEF Shaped, Transactions

LEMMA Rows ==
    ASSUME NEW rows \in RowMaps
    PROVE  DOMAIN rows \subseteq Warehouses /\ \A w \in DOMAIN rows : rows[w] \in StockRows
BY DEF RowMaps

LEMMA RowTyped ==
    ASSUME IInv, NEW t \in Running, NEW w \in Warehouses
    PROVE  Row(t, w) \in StockRows /\ stock[w] \in StockRows
<1>1. tx[t].rows \in RowMaps
  BY KnowsMine, Fields DEF Knows
<1> QED BY <1>1, Rows DEF Row, IInv, DataInv

(* Before a row or the layers are written there is a line to apply.        *)
LEMMA FirstLine ==
    ASSUME NEW x, Shaped(x),
           x.at \in {"write", "writeTo"} \cup AtLayers
    PROVE  Head(x.lines) \in Moves(x.kind) /\ Head(x.lines) \in Int
<1>1. x.lines # <<>> /\ \A i \in 1..Len(x.lines) : x.lines[i] \in Moves(x.kind)
  BY DEF Shaped
<1>2. x.lines \in Seq(Int)
  BY Fields
<1> DEFINE lines == x.lines
<1> HIDE DEF lines
<1>3. lines # <<>> /\ lines \in Seq(Int)
  BY <1>1, <1>2 DEF lines
<1>4. 1 \in 1..Len(lines) /\ Head(lines) = lines[1] /\ Head(lines) \in Int
  BY <1>3
<1> QED BY <1>1, <1>4 DEF lines

LEMMA HeldIs == \A t : Holds(t) = HeldBy(tx[t])
BY DEF Holds, HeldBy

LEMMA ClaimCountPreserves == ASSUME IInv, NEW t \in Running, ClaimCount(t) PROVE IInv'
<1> DEFINE x == tx[t]
           y == [x EXCEPT !.at = IF x.lines = <<>> THEN "commit" ELSE "read"]
<1>1. x.at = "claim" /\ (Becomes(t, y) \/ Abort(t))
  BY DEF ClaimCount, At
<1>2. Knows(x, stock, layers, count, drifted)
  BY KnowsMine
<1> HIDE DEF x
<1>3. Shaped(x) /\ HoldsRows(x) /\ x.kind = "count"
  BY <1>1, <1>2, Fields DEF Knows, StepsOf, Kinds
<1>4. /\ y \in Transactions /\ y.at = (IF x.lines = <<>> THEN "commit" ELSE "read")
      /\ y.kind = x.kind /\ y.lines = x.lines /\ y.from = x.from /\ y.to = x.to /\ y.count = x.count
      /\ y.rows = x.rows /\ y.units = x.units /\ y.took = x.took /\ y.parts = x.parts
  BY <1>3, Fields DEF Transactions, Steps
<1> HIDE DEF y
<1>5. DOMAIN x.rows = {} /\ ~x.took /\ ~x.parts /\ x.units = 0
  BY <1>1, <1>3 DEF HoldsRows, Single
<1>6. Shaped(y)
  BY <1>3, <1>4 DEF Shaped, StepsOf, AtLayers
<1>7. HoldsRows(y)
  BY <1>3, <1>4, <1>5 DEF HoldsRows, AtLayers
<1>8. RowsKnown(y, stock)
  BY <1>3, <1>4, <1>5 DEF RowsKnown
<1>9. MovedEvenly(y, stock, count, drifted)
  BY <1>1, <1>2, <1>3, <1>4, <1>5 DEF Knows, MovedEvenly, Delta, ToDo, AtLayers
<1>10. LayersKnown(y, layers)
  BY <1>2, <1>3, <1>4 DEF Knows, LayersKnown
<1>11. HeldBy(y) \subseteq HeldBy(x) /\ (y.took => x.took)
  BY <1>3, <1>4 DEF HeldBy
<1>12. Becomes(t, y) => IInv'
  BY <1>6, <1>7, <1>8, <1>9, <1>10, <1>11, HoldingNoMore, StepPreserves DEF Knows, x
<1> QED BY <1>1, <1>12, AbortPreserves

LEMMA ReadRowsPreserves == ASSUME IInv, NEW t \in Running, ReadRows(t) PROVE IInv'
<1> DEFINE x == tx[t]
           row == Row(t, x.from)
           y == [x EXCEPT !.at = "write", !.saw = row,
                          !.sawTo = IF x.to = None THEN None ELSE stock[x.to]]
<1>1. x.at = "read" /\ x.kind # "reconcile" /\ ((Admits(t, row) /\ Becomes(t, y)) \/ Abort(t))
  BY DEF ReadRows, At
<1>2. Knows(x, stock, layers, count, drifted)
  BY KnowsMine
<1>3. row \in StockRows
  BY <1>2, Fields, RowTyped DEF Knows
<1>4. /\ row = IF x.from \in DOMAIN x.rows THEN x.rows[x.from] ELSE stock[x.from]
      /\ Admits(t, row) => Admitted(x.kind, Head(x.lines), row)
  BY DEF Row, Admits, Admitted, Outgoing
<1> HIDE DEF x, row
<1>5. Shaped(x) /\ HoldsRows(x) /\ x.to \in Warehouses \cup {None}
  BY <1>2 DEF Knows, Shaped, Transactions
<1>6. (IF x.to = None THEN None ELSE stock[x.to]) \in StockRows \cup {None}
  BY <1>5 DEF IInv, DataInv
<1>7. /\ y \in Transactions /\ y.at = "write" /\ y.saw = row
      /\ y.sawTo = (IF x.to = None THEN None ELSE stock[x.to])
      /\ y.kind = x.kind /\ y.lines = x.lines /\ y.from = x.from /\ y.to = x.to /\ y.count = x.count
      /\ y.rows = x.rows /\ y.units = x.units /\ y.took = x.took /\ y.parts = x.parts
  <2>1. row \in StockRows \cup {None} /\ x \in Transactions /\ "write" \in Steps
    BY <1>3, <1>5 DEF Shaped, Steps
  <2> QED BY <2>1, <1>6 DEF Transactions
<1> HIDE DEF y
<1>8. "write" \in StepsOf(x.kind)
  BY <1>1, <1>5, Fields DEF StepsOf, Kinds
<1>9. Shaped(y)
  BY <1>1, <1>5, <1>7, <1>8 DEF Shaped, AtLayers
<1>10. HoldsRows(y)
  BY <1>1, <1>5, <1>7 DEF HoldsRows, AtLayers
<1>11. Admits(t, row) => RowsKnown(y, stock)
  <2>1. row.version \in Nat
    BY <1>3 DEF StockRows
  <2>2. y.kind = "transfer" => y.sawTo \in StockRows
    BY <1>5, <1>7, NotNone DEF Shaped, IInv, DataInv
  <2> QED BY <1>1, <1>2, <1>3, <1>4, <1>7, <2>1, <2>2 DEF Knows, RowsKnown, Recent
<1>12. MovedEvenly(y, stock, count, drifted)
  BY <1>1, <1>2, <1>7 DEF Knows, MovedEvenly, Delta, ToDo, AtLayers
<1>13. LayersKnown(y, layers)
  BY <1>1, <1>2, <1>7 DEF Knows, LayersKnown
<1>14. HeldBy(y) \subseteq HeldBy(x) /\ (y.took => x.took)
  BY <1>1, <1>7 DEF HeldBy
<1>15. Admits(t, row) /\ Becomes(t, y) => IInv'
  BY <1>9, <1>10, <1>11, <1>12, <1>13, <1>14, HoldingNoMore, StepPreserves DEF Knows, x
<1> QED BY <1>1, <1>15, AbortPreserves

LEMMA LockRowsPreserves == ASSUME IInv, NEW t \in Running, LockRows(t) PROVE IInv'
<1> DEFINE x == tx[t]
           y == [x EXCEPT !.at = "aggregate", !.saw = stock[x.from]]
<1>1. /\ x.at = "read" /\ x.kind = "reconcile" /\ Becomes(t, y)
      /\ \A w \in Warehouses : ~HeldByOther(t, w)
  BY DEF LockRows, At
<1>2. Knows(x, stock, layers, count, drifted)
  BY KnowsMine
<1> HIDE DEF x
<1>3. Shaped(x) /\ HoldsRows(x) /\ stock[x.from] \in StockRows
  BY <1>2, Fields DEF Knows, IInv, DataInv
<1>4. /\ y \in Transactions /\ y.at = "aggregate" /\ y.saw = stock[x.from]
      /\ y.kind = x.kind /\ y.lines = x.lines /\ y.from = x.from /\ y.to = x.to /\ y.count = x.count
      /\ y.rows = x.rows /\ y.units = x.units /\ y.took = x.took /\ y.parts = x.parts
  <2>1. stock[x.from] \in StockRows \cup {None} /\ x \in Transactions /\ "aggregate" \in Steps
    BY <1>3 DEF Shaped, Steps
  <2> QED BY <2>1 DEF Transactions
<1> HIDE DEF y
<1>5. Shaped(y)
  BY <1>1, <1>3, <1>4 DEF Shaped, AtLayers, StepsOf
<1>6. HoldsRows(y) /\ DOMAIN y.rows = {} /\ ~y.took
  BY <1>1, <1>3, <1>4 DEF HoldsRows, AtLayers
<1>7. RowsKnown(y, stock)
  BY <1>1, <1>4, <1>6 DEF RowsKnown
<1>8. MovedEvenly(y, stock, count, drifted)
  BY <1>1, <1>2, <1>4, <1>6 DEF Knows, MovedEvenly, Delta, ToDo, AtLayers
<1>9. LayersKnown(y, layers)
  BY <1>1, <1>2, <1>4 DEF Knows, LayersKnown
<1>10. \A u \in Running \ {t} : Apart(y, tx[u])
  BY <1>1, <1>6, HeldIs DEF Apart, HeldByOther, HeldBy
<1> QED BY <1>1, <1>5, <1>6, <1>7, <1>8, <1>9, <1>10, StepPreserves DEF Knows

LEMMA FillLayersPreserves == ASSUME IInv, NEW t \in Running, FillLayers(t) PROVE IInv'
<1> DEFINE x == tx[t]
           delta == x.saw.quantity - layers.units
           y == [x EXCEPT !.at = "commit", !.units = delta]
<1>1. x.at = "aggregate" /\ ((delta > 0 /\ Becomes(t, y)) \/ Abort(t))
  BY DEF FillLayers, At
<1>2. Knows(x, stock, layers, count, drifted)
  BY KnowsMine
<1> HIDE DEF x
<1>3. Shaped(x) /\ HoldsRows(x) /\ x.kind = "reconcile"
  BY <1>1, <1>2, Fields DEF Knows, StepsOf, Kinds
<1>4. /\ x.saw = stock[x.from]
      /\ delta \in Int
      /\ layers.units \in Nat
      /\ layers.units + delta = x.saw.quantity
  BY <1>1, <1>2, <1>3, Fields DEF Knows, RowsKnown, IInv, DataInv, StockRows, LayerPools
<1> HIDE DEF delta
<1>5. /\ y \in Transactions /\ y.at = "commit" /\ y.saw = x.saw /\ y.units = delta
      /\ y.kind = x.kind /\ y.lines = x.lines /\ y.from = x.from /\ y.to = x.to /\ y.count = x.count
      /\ y.rows = x.rows /\ y.took = x.took /\ y.parts = x.parts
  <2>1. delta \in Int /\ x \in Transactions /\ "commit" \in Steps
    BY <1>3, <1>4 DEF Shaped, Steps
  <2> QED BY <2>1 DEF Transactions
<1> HIDE DEF y
<1>6. Shaped(y)
  BY <1>3, <1>5 DEF Shaped, AtLayers, StepsOf
<1>7. HoldsRows(y) /\ DOMAIN y.rows = {} /\ ~y.took
  BY <1>3, <1>5 DEF HoldsRows, AtLayers
<1>8. RowsKnown(y, stock)
  BY <1>3, <1>4, <1>5, <1>7 DEF RowsKnown
<1>9. MovedEvenly(y, stock, count, drifted)
  BY <1>3, <1>5 DEF MovedEvenly
<1>10. delta > 0 => LayersKnown(y, layers)
  BY <1>3, <1>4, <1>5, <1>7 DEF LayersKnown
<1>11. HeldBy(y) \subseteq HeldBy(x) /\ (y.took => x.took)
  BY <1>1, <1>3, <1>5 DEF HeldBy
<1>12. delta > 0 /\ Becomes(t, y) => IInv'
  BY <1>6, <1>7, <1>8, <1>9, <1>10, <1>11, HoldingNoMore, StepPreserves DEF Knows, x
<1> QED BY <1>1, <1>12, AbortPreserves

LEMMA Smaller ==
    ASSUME NEW a \in Int, NEW b \in Int
    PROVE  Min({a, b}) \in {a, b} /\ Min({a, b}) <= a /\ Min({a, b}) <= b
<1>1. \E m \in {a, b} : \A n \in {a, b} : m <= n
  <2>1. CASE a <= b
    BY <2>1
  <2>2. CASE ~(a <= b)
    BY <2>2
  <2> QED BY <2>1, <2>2
<1> QED BY <1>1 DEF Min

LEMMA WithRow ==
    ASSUME NEW rows \in RowMaps, NEW w \in Warehouses, NEW row \in StockRows
    PROVE  /\ With(rows, w, row) \in RowMaps /\ DOMAIN With(rows, w, row) = DOMAIN rows \cup {w}
           /\ With(rows, w, row)[w] = row
           /\ \A v \in DOMAIN rows \ {w} : With(rows, w, row)[v] = rows[v]
<1>1. DOMAIN rows \cup {w} \in SUBSET Warehouses
  BY Rows
<1>2. With(rows, w, row) \in [DOMAIN rows \cup {w} -> StockRows]
  BY Rows DEF With
<1> QED BY <1>1, <1>2 DEF With, RowMaps

LEMMA WithFirst ==
    ASSUME NEW rows \in RowMaps, NEW w \in Warehouses, NEW row \in StockRows, DOMAIN rows \subseteq {w}
    PROVE  /\ With(rows, w, row) \in RowMaps /\ DOMAIN With(rows, w, row) = {w}
           /\ With(rows, w, row)[w] = row
<1>1. /\ With(rows, w, row) \in RowMaps /\ DOMAIN With(rows, w, row) = DOMAIN rows \cup {w}
      /\ With(rows, w, row)[w] = row
  BY WithRow
<1> QED BY <1>1

LEMMA RowUpdated ==
    ASSUME NEW row \in StockRows, NEW z, NEW n \in Nat, NEW v \in Nat
    PROVE  LET new == [z EXCEPT !.version = v] IN
           /\ z = [row EXCEPT !.quantity = n] =>
                new \in StockRows /\ new.quantity = n /\ new.reserved = row.reserved /\ new.version = v
           /\ z = [row EXCEPT !.reserved = n] =>
                new \in StockRows /\ new.quantity = row.quantity /\ new.reserved = n /\ new.version = v
BY DEF StockRows

(* The row that is written has what the statement says of it.              *)
LEMMA RowWritten ==
    ASSUME IInv, NEW t \in Running, tx[t].at = "write", MayWrite(t, Row(t, tx[t].from))
    PROVE  LET x == tx[t]
               n == Head(x.lines)
               row == Row(t, x.from)
               new == [Written(t, row) EXCEPT !.version = row.version + 1] IN
           /\ new \in StockRows /\ new.version = row.version + 1
           /\ new.reserved <= row.reserved \/ new.reserved <= new.quantity
           /\ x.kind \notin {"reserve", "release"} => new.reserved = row.reserved
           /\ x.kind \in {"reserve", "release"} => new.quantity = row.quantity
           /\ x.kind = "count" => new.quantity = count[x.count].actual
           /\ x.kind \notin {"reserve", "release", "count"} => new.quantity = row.quantity + n
<1> DEFINE x == tx[t]
           n == Head(x.lines)
           row == Row(t, x.from)
           new == [Written(t, row) EXCEPT !.version = row.version + 1]
<1>1. Knows(x, stock, layers, count, drifted) /\ Shaped(x) /\ x.at = "write" /\ HoldsRows(x)
  BY KnowsMine DEF Knows
<1>2. row \in StockRows /\ row = IF x.from \in DOMAIN x.rows THEN x.rows[x.from] ELSE stock[x.from]
  BY <1>1, Fields, RowTyped DEF Row
<1>3. row.quantity \in Nat /\ row.reserved \in Nat /\ row.version \in Nat
  BY <1>2 DEF StockRows
<1>4. x.saw \in StockRows /\ x.saw.quantity \in Nat /\ x.saw.reserved \in Nat
  BY <1>1 DEF Knows, RowsKnown, StockRows
<1>5. n \in Moves(x.kind) /\ n \in Int
  BY <1>1, FirstLine
<1>6. x.kind \in Kinds \ {"reconcile"}
  BY <1>1, Fields DEF StepsOf
<1>7. x.kind \notin Outgoing \cup {"undo"} => x.saw = row /\ Admitted(x.kind, n, row)
  <2>1. \/ row.version = x.saw.version /\ Admitted(x.kind, n, x.saw)
        \/ x.kind \in Outgoing \cup {"undo"}
    BY <1>1 DEF MayWrite, Knows, RowsKnown
  <2> QED BY <1>1, <1>2, <2>1 DEF Knows, RowsKnown, Recent
<1>8. x.kind \in Outgoing => row.quantity >= x.saw.reserved - n
  <2>1. MayWrite(t, row)
    OBVIOUS
  <2> HIDE DEF row
  <2>2. x.kind \in Outgoing => row.quantity >= x.saw.reserved - Head(x.lines)
    BY <2>1 DEF MayWrite, Outgoing
  <2> QED BY <2>2
<1>9. x.kind = "count" => count[x.count] \in CountRows /\ count[x.count].actual \in Nat
  BY <1>1 DEF Knows, MovedEvenly, Shaped, IInv, DataInv, CountRows
<1> DEFINE q == IF x.kind \in {"reserve", "release"} THEN row.quantity
                ELSE IF x.kind = "count" THEN count[x.count].actual ELSE row.quantity + n
           r == IF x.kind = "reserve" THEN row.reserved + n
                ELSE IF x.kind = "release" THEN row.reserved - Min({n, row.reserved}) ELSE row.reserved
<1> HIDE DEF row, n
<1>10. q \in Nat
  <2>1. CASE x.kind \in {"reserve", "release", "count"}
    BY <1>3, <1>9, <2>1
  <2>2. CASE x.kind \in Outgoing
    BY <1>3, <1>4, <1>5, <1>8, <2>2 DEF Outgoing
  <2>3. CASE x.kind \in {"adjust", "transfer"}
    BY <1>3, <1>5, <1>7, <2>3 DEF Outgoing, Admitted
  <2>4. CASE x.kind \in {"refund", "legacyRefund", "receipt", "undo"}
    BY <1>3, <1>5, <2>4 DEF Moves
  <2> QED BY <1>6, <2>1, <2>2, <2>3, <2>4 DEF Kinds, Outgoing
<1>11. r \in Nat /\ (r <= row.reserved \/ r <= q)
  <2>1. CASE x.kind = "reserve"
    BY <1>3, <1>5, <1>7, <2>1 DEF Outgoing, Admitted, Moves
  <2>2. CASE x.kind = "release"
    <3>1. Min({n, row.reserved}) \in {n, row.reserved} /\ Min({n, row.reserved}) <= row.reserved
      <4>1. n \in Int /\ row.reserved \in Int
        BY <1>3, <1>5
      <4> QED BY <4>1, Smaller, Zenon
    <3>2. r = row.reserved - Min({n, row.reserved}) /\ n \in Nat
      BY <1>5, <2>2 DEF Moves
    <3> QED BY <1>3, <3>1, <3>2
  <2> QED BY <1>3, <2>1, <2>2
<1>12. new.quantity = q /\ new.reserved = r /\ new.version = row.version + 1 /\ new \in StockRows
  <2>1. row.version + 1 \in Nat /\ q \in Nat /\ r \in Nat
    BY <1>3, <1>10, <1>11
  <2>2. CASE x.kind \in {"reserve", "release"}
    <3>1. Written(t, row) = [row EXCEPT !.reserved = r] /\ q = row.quantity
      BY <1>7, <2>2 DEF Written, Outgoing, Left, n
    <3> HIDE DEF q, r
    <3> QED BY <1>2, <2>1, <3>1, RowUpdated
  <2>3. CASE x.kind \notin {"reserve", "release"}
    <3>1. Written(t, row) = [row EXCEPT !.quantity = q] /\ r = row.reserved
      BY <2>3 DEF Written, n
    <3> HIDE DEF q, r
    <3> QED BY <1>2, <2>1, <3>1, RowUpdated
  <2> QED BY <2>2, <2>3
<1> QED BY <1>11, <1>12 DEF row, n

LEMMA WriteRowPreserves == ASSUME IInv, NEW t \in Running, WriteRow(t) PROVE IInv'
<1> DEFINE x == tx[t]
           n == Head(x.lines)
           w == x.from
           row == Row(t, w)
           new == [Written(t, row) EXCEPT !.version = row.version + 1]
           over == x.kind = "count" /\ row.quantity # count[x.count].expected
           y == [x EXCEPT !.at = AfterWrite(t), !.rows = With(@, w, new),
                          !.parts = @ \/ x.kind = "legacyRefund" \/ over]
<1>1. x.at = "write" /\ ~HeldByOther(t, w) /\ ((MayWrite(t, row) /\ Becomes(t, y)) \/ Abort(t))
  BY DEF WriteRow, At
<1> SUFFICES ASSUME MayWrite(t, row), Becomes(t, y) PROVE IInv'
  BY <1>1, AbortPreserves
<1>2. /\ new \in StockRows /\ new.version = row.version + 1
      /\ new.reserved <= row.reserved \/ new.reserved <= new.quantity
      /\ x.kind \notin {"reserve", "release"} => new.reserved = row.reserved
      /\ x.kind \in {"reserve", "release"} => new.quantity = row.quantity
      /\ x.kind = "count" => new.quantity = count[x.count].actual
      /\ x.kind \notin {"reserve", "release", "count"} => new.quantity = row.quantity + n
  BY <1>1, RowWritten
<1>3. /\ Knows(x, stock, layers, count, drifted) /\ Shaped(x) /\ HoldsRows(x)
      /\ x \in Transactions /\ x.rows \in RowMaps /\ w \in Warehouses /\ x.parts \in BOOLEAN
      /\ x.units \in Int /\ x.kind \in Kinds
  BY KnowsMine, Fields DEF Knows
<1>4. row = (IF w \in DOMAIN x.rows THEN x.rows[w] ELSE stock[w]) /\ stock[w] \in StockRows /\ row \in StockRows
  BY <1>3, RowTyped DEF Row
<1>5. /\ DOMAIN x.rows \subseteq {w} /\ x.kind # "reconcile" /\ (x.kind = "transfer" => DOMAIN x.rows = {})
      /\ x.kind \in Single => DOMAIN x.rows = {}
  BY <1>1, <1>3 DEF HoldsRows, Single, Shaped, StepsOf
<1>6. n \in Moves(x.kind) /\ n \in Int
  BY <1>1, <1>3, FirstLine
<1>7. /\ AfterWrite(t) \in Steps \cap StepsOf(x.kind)
      /\ AfterWrite(t) = (IF x.kind = "transfer" THEN "writeTo"
                          ELSE IF x.kind \in {"reserve", "release"} THEN "commit"
                          ELSE IF n < 0 THEN "readLayers" ELSE "add")
      /\ AfterWrite(t) = "add" => n > 0
  BY <1>3, <1>5, <1>6 DEF AfterWrite, StepsOf, Steps, Kinds, Moves
<1> HIDE DEF new, row, over
<1>8. over \in BOOLEAN /\ (x.kind # "count" => ~over)
      /\ (x.kind = "count" /\ ~over => row.quantity = count[x.count].expected)
  BY DEF over
<1> DEFINE rows == With(x.rows, w, new)
           at == AfterWrite(t)
           parts == x.parts \/ x.kind = "legacyRefund" \/ over
<1>9. rows \in RowMaps /\ DOMAIN rows = {w} /\ rows[w] = new
  <2>1. x.rows \in RowMaps /\ w \in Warehouses /\ new \in StockRows /\ DOMAIN x.rows \subseteq {w}
    BY <1>2, <1>3, <1>5
  <2> HIDE DEF x, w, y
  <2> QED BY <2>1, WithFirst
<1>10. Becomes(t, y) /\ y = [x EXCEPT !.at = at, !.rows = rows, !.parts = parts]
  OBVIOUS
<1>11. tx[t] = x
  OBVIOUS
<1> HIDE DEF rows, at, x, y
<1>12. /\ y \in Transactions /\ y.at = at /\ y.rows = rows /\ y.parts = parts
       /\ y.kind = x.kind /\ y.lines = x.lines /\ y.from = x.from /\ y.to = x.to /\ y.count = x.count
       /\ y.saw = x.saw /\ y.sawTo = x.sawTo /\ y.units = x.units /\ y.took = x.took
  <2>1. at \in Steps /\ parts \in BOOLEAN
    BY <1>3, <1>7, <1>8 DEF at
  <2> QED BY <1>3, <1>9, <1>10, <2>1 DEF Transactions
<1>13. Shaped(y)
  BY <1>1, <1>3, <1>5, <1>6, <1>7, <1>12 DEF Shaped, AtLayers, at
<1>14. HoldsRows(y)
  BY <1>3, <1>5, <1>7, <1>9, <1>12 DEF HoldsRows, AtLayers, Single, at
<1>15. RowsKnown(y, stock)
  <2>1. RowsKnown(x, stock) /\ x.at = "write"
    BY <1>1, <1>3 DEF Knows
  <2>2. /\ row.version \in Nat /\ row.reserved \in Nat /\ new.version \in Nat /\ new.reserved \in Nat
        /\ new.quantity \in Nat /\ stock[w].version \in Nat /\ stock[w].reserved \in Nat /\ row.quantity \in Nat
    BY <1>2, <1>4 DEF StockRows
  <2>3. rows[w].version > stock[w].version
    BY <1>2, <1>4, <1>9, <2>1, <2>2 DEF RowsKnown
  <2>4. x.kind \notin {"reserve", "release"} => rows[w].reserved = stock[w].reserved
    BY <1>2, <1>4, <1>9, <2>1, <2>2 DEF RowsKnown
  <2>5. rows[w].reserved <= stock[w].reserved \/ rows[w].reserved <= rows[w].quantity
    <3>1. CASE x.kind \in {"reserve", "release"}
      BY <1>2, <1>4, <1>5, <1>9, <2>2, <3>1 DEF Single
    <3> QED BY <2>2, <2>4, <3>1, <1>9
  <2>6. y.kind = "transfer" => y.sawTo \in StockRows
    BY <1>12, <2>1 DEF RowsKnown
  <2>7. y.at # "write" /\ y.kind # "reconcile"
    BY <1>5, <1>7, <1>12 DEF at
  <2> QED BY <1>9, <1>12, <2>3, <2>4, <2>5, <2>6, <2>7 DEF RowsKnown
<1>16. MovedEvenly(y, stock, count, drifted)
  <2>1. MovedEvenly(x, stock, count, drifted) /\ x.at = "write"
    BY <1>1, <1>3 DEF Knows
  <2>2. row.quantity \in Nat /\ new.quantity \in Nat /\ stock[w].quantity \in Nat
    BY <1>2, <1>4 DEF StockRows
  <2>3. Delta(y, w, stock) = Delta(x, w, stock) + (new.quantity - row.quantity)
    BY <1>4, <1>9, <1>12, <2>2 DEF Delta
  <2>4. ToDo(x) = 0 /\ ToDo(y) = IF x.kind \in {"transfer", "reserve", "release"} THEN 0 ELSE n
    BY <1>7, <1>12, <2>1 DEF ToDo, AtLayers, at, x
  <2>5. Delta(x, w, stock) \in Int /\ (DOMAIN x.rows = {} => Delta(x, w, stock) = 0)
    BY <1>4, <2>2, <1>3, Rows DEF Delta, StockRows
  <2>6. x.kind = "transfer" =>
          x.units = 0 /\ ~x.took /\ at = "writeTo" /\ Delta(y, w, stock) = n /\ n = Head(y.lines)
    BY <1>2, <1>5, <1>6, <1>7, <1>12, <2>1, <2>2, <2>3, <2>5 DEF MovedEvenly, at, x
  <2>7. x.kind = "count" =>
          count[x.count] # None /\ n = count[x.count].actual - count[x.count].expected
    BY <1>1, <1>3, <2>1 DEF MovedEvenly, Shaped, x
  <2>8. ASSUME x.kind # "transfer", ~y.parts, ~drifted
        PROVE  Delta(y, w, stock) = y.units + ToDo(y)
    <3>1. ~x.parts /\ ~over /\ x.kind # "legacyRefund"
      BY <1>12, <2>8
    <3>2. Delta(x, w, stock) = x.units
      BY <1>3, <1>5, <2>1, <2>4, <2>8, <3>1 DEF MovedEvenly, x
    <3>3. x.kind \notin {"reserve", "release"} => new.quantity = row.quantity + n
      <4>1. CASE x.kind = "count"
        <5>1. count[x.count] \in CountRows
          BY <1>3, <2>7, <4>1 DEF Shaped, IInv, DataInv
        <5>2. count[x.count].actual \in Nat /\ count[x.count].expected \in Nat
          BY <5>1 DEF CountRows
        <5> QED BY <1>2, <1>8, <2>7, <3>1, <4>1, <5>2
      <4> QED BY <1>2, <4>1
    <3> QED BY <1>2, <1>3, <1>6, <1>12, <2>2, <2>3, <2>4, <2>8, <3>2, <3>3
  <2>9. y.kind = "legacyRefund" => y.parts
    BY <1>12
  <2>10. at \notin {"claim", "read", "write", "take", "commit"} \/ x.kind \in {"reserve", "release"}
    BY <1>7 DEF at
  <2>11. y.kind = "transfer" => y.units = 0 /\ ~y.took /\ y.at = "writeTo" /\ Delta(y, y.from, stock) = Head(y.lines)
    BY <1>12, <2>6 DEF w
  <2>12. y.kind \notin {"transfer", "reconcile"} /\ ~y.parts /\ ~drifted =>
            Delta(y, y.from, stock) = y.units + ToDo(y)
    BY <1>12, <2>8 DEF w
  <2>13. y.kind = "count" => count[y.count] # None /\ y.at \notin {"claim", "read", "write"}
    BY <1>12, <2>7, <2>10
  <2>14. y.at # "take"
    BY <1>7, <1>12 DEF at
  <2> HIDE DEF parts
  <2> QED BY <2>9, <2>11, <2>12, <2>13, <2>14 DEF MovedEvenly
<1>17. LayersKnown(y, layers)
  BY <1>3, <1>5, <1>7, <1>12 DEF Knows, LayersKnown, at
<1>18. \A u \in Running \ {t} : Apart(y, tx[u])
  <2>1. HeldBy(y) \subseteq HeldBy(x) \cup {w}
    BY <1>5, <1>9, <1>12 DEF HeldBy
  <2>2. \A u \in Running \ {t} : w \notin HeldBy(tx[u])
    BY <1>1, HeldIs DEF HeldByOther
  <2> QED BY <1>11, <1>12, <2>1, <2>2, KnowsMine DEF Apart
<1> QED BY <1>10, <1>13, <1>14, <1>15, <1>16, <1>17, <1>18, StepPreserves DEF Knows

LEMMA WriteDestinationPreserves ==
    ASSUME IInv, NEW t \in Running, WriteDestination(t)
    PROVE  IInv'
<1> DEFINE x == tx[t]
           n == Head(x.lines)
           w == x.to
           new == [stock[w] EXCEPT !.quantity = @ - n, !.version = @ + 1]
           rows == With(x.rows, w, new)
           y == [x EXCEPT !.at = "commit", !.rows = rows]
<1>1. x.at = "writeTo" /\ ~HeldByOther(t, w) /\ (Becomes(t, y) \/ Abort(t))
  BY DEF WriteDestination, At
<1> SUFFICES ASSUME Becomes(t, y) PROVE IInv'
  BY <1>1, AbortPreserves
<1>2. /\ Knows(x, stock, layers, count, drifted) /\ Shaped(x) /\ HoldsRows(x)
      /\ x \in Transactions /\ x.rows \in RowMaps /\ x.from \in Warehouses
      /\ x.units \in Int /\ x.kind = "transfer"
  BY <1>1, KnowsMine, Fields DEF Knows, StepsOf, Kinds
<1>3. w \in Warehouses /\ w # x.from /\ stock[w] \in StockRows /\ stock[x.from] \in StockRows
      /\ DOMAIN x.rows = {x.from} /\ x.rows[x.from] \in StockRows
  BY <1>1, <1>2, Rows DEF Shaped, HoldsRows, IInv, DataInv
<1>4. n \in Int /\ n < 0
  BY <1>1, <1>2, FirstLine DEF Moves
<1>5. /\ new \in StockRows /\ new.quantity = stock[w].quantity - n /\ new.reserved = stock[w].reserved
      /\ new.version = stock[w].version + 1
  <2> DEFINE row == stock[w]
             n2 == row.quantity - n
             n3 == row.version + 1
  <2>1. row \in StockRows /\ n2 \in Nat /\ n3 \in Nat
    BY <1>3, <1>4 DEF StockRows
  <2>2. new = [row EXCEPT !.quantity = n2, !.version = n3]
    OBVIOUS
  <2> HIDE DEF row, n2, n3, new
  <2>3. new \in StockRows /\ new.quantity = n2 /\ new.reserved = row.reserved /\ new.version = n3
    BY <2>1, <2>2 DEF StockRows
  <2> QED BY <2>3 DEF row, n2, n3
<1> HIDE DEF new
<1>6. /\ rows \in RowMaps
      /\ DOMAIN rows = {x.from, w}
      /\ rows[w] = new
      /\ rows[x.from] = x.rows[x.from]
  <2>1. /\ x.rows \in RowMaps
        /\ w \in Warehouses
        /\ new \in StockRows
        /\ DOMAIN x.rows \cup {w} = {x.from, w}
        /\ x.from \in DOMAIN x.rows \ {w}
    BY <1>2, <1>3, <1>5
  <2> HIDE DEF x, w
  <2>2. /\ With(x.rows, w, new) \in RowMaps /\ DOMAIN With(x.rows, w, new) = DOMAIN x.rows \cup {w}
        /\ With(x.rows, w, new)[w] = new
        /\ \A v \in DOMAIN x.rows \ {w} : With(x.rows, w, new)[v] = x.rows[v]
    BY <2>1, WithRow
  <2> QED BY <2>1, <2>2
<1>7. tx[t] = x /\ Becomes(t, y)
  OBVIOUS
<1> HIDE DEF rows, x, y
<1>8. /\ y \in Transactions /\ y.at = "commit" /\ y.rows = rows /\ y.parts = x.parts
      /\ y.kind = x.kind /\ y.lines = x.lines /\ y.from = x.from /\ y.to = x.to /\ y.count = x.count
      /\ y.saw = x.saw /\ y.sawTo = x.sawTo /\ y.units = x.units /\ y.took = x.took
  <2>1. "commit" \in Steps
    BY DEF Steps
  <2> QED BY <1>2, <1>6, <2>1 DEF Transactions, y
<1>9. Shaped(y)
  BY <1>1, <1>2, <1>8 DEF Shaped, AtLayers, StepsOf
<1>10. HoldsRows(y)
  BY <1>2, <1>6, <1>8 DEF HoldsRows, AtLayers
<1>11. RowsKnown(y, stock)
  <2>1. RowsKnown(x, stock)
    BY <1>2 DEF Knows
  <2>2. /\ new.version > stock[w].version
        /\ new.reserved <= stock[w].reserved
        /\ new.reserved = stock[w].reserved
    BY <1>3, <1>5 DEF StockRows
  <2> QED BY <1>2, <1>3, <1>6, <1>8, <2>1, <2>2 DEF RowsKnown
<1>12. MovedEvenly(y, stock, count, drifted)
  <2>1. MovedEvenly(x, stock, count, drifted)
    BY <1>2 DEF Knows
  <2>2. Delta(x, x.from, stock) = n
    BY <1>1, <1>2, <2>1, <1>7 DEF MovedEvenly, x
  <2>3. Delta(y, y.from, stock) = n
    BY <1>3, <1>6, <1>8, <2>2 DEF Delta
  <2>4. Delta(y, y.to, stock) = -n
    BY <1>3, <1>4, <1>5, <1>6, <1>8 DEF Delta, w, StockRows
  <2> QED BY <1>2, <1>4, <1>8, <2>1, <2>3, <2>4 DEF MovedEvenly
<1>13. LayersKnown(y, layers)
  BY <1>2, <1>8 DEF Knows, LayersKnown
<1>14. \A u \in Running \ {t} : Apart(y, tx[u])
  <2>1. HeldBy(y) \subseteq HeldBy(x) \cup {w}
    BY <1>2, <1>3, <1>6, <1>8 DEF HeldBy
  <2>2. \A u \in Running \ {t} : w \notin HeldBy(tx[u])
    BY <1>1, HeldIs DEF HeldByOther
  <2> QED BY <1>7, <1>8, <2>1, <2>2, KnowsMine DEF Apart
<1> QED BY <1>7, <1>9, <1>10, <1>11, <1>12, <1>13, <1>14, StepPreserves DEF Knows

(* What is left of the lines of a transaction when one is done.            *)
LEMMA LineDone ==
    ASSUME NEW x, Shaped(x), x.at \in AtLayers
    PROVE  /\ Head(x.lines) \in Int /\ Tail(x.lines) \in Seq(Int)
           /\ Head(x.lines) \in Moves(x.kind)
           /\ \A i \in 1..Len(Tail(x.lines)) : Tail(x.lines)[i] \in Moves(x.kind)
           /\ x.kind \in Single => Len(Tail(x.lines)) <= 1 /\ ~(Len(x.lines) > 1)
           /\ Len(x.lines) > 1 => Tail(x.lines) # <<>>
<1>1. x.lines \in Seq(Int) /\ x.lines # <<>>
  BY Fields DEF Shaped
<1> DEFINE s == x.lines
<1>2. s \in Seq(Int) /\ s # <<>> /\ (\A i \in 1..Len(s) : s[i] \in Moves(x.kind)) /\ (x.kind \in Single => Len(s) <= 1)
  BY <1>1 DEF Shaped
<1> HIDE DEF s
<1>3. /\ Head(s) = s[1] /\ Len(s) \in Nat /\ Len(s) >= 1 /\ Tail(s) \in Seq(Int) /\ Len(Tail(s)) = Len(s) - 1
      /\ \A i \in 1..Len(Tail(s)) : Tail(s)[i] = s[i + 1]
  BY <1>2, HeadTailProperties
<1>4. \A i \in 1..Len(Tail(s)) : i + 1 \in 1..Len(s)
  BY <1>3
<1>5. Len(s) > 1 => Tail(s) # <<>>
  <2>1. Len(<<>>) = 0
    OBVIOUS
  <2>2. Tail(s) = <<>> => Len(Tail(s)) = 0
    BY <2>1, Zenon
  <2> QED BY <1>3, <2>2
<1> QED BY <1>2, <1>3, <1>4, <1>5 DEF s

(* The last statement of a line leaves a transaction that knows what it    *)
(* must, if it has moved as much in the layers as in its row.              *)
Moved(x, z, m, took) ==
    /\ z.units = x.units + m /\ z.took = took /\ z.lines = x.lines
    /\ z.kind = x.kind /\ z.from = x.from /\ z.to = x.to /\ z.count = x.count
    /\ z.rows = x.rows /\ z.parts = x.parts

LEMMA LineDoneKnows ==
    ASSUME IInv, NEW t \in Running, tx[t].at \in {"add", "take"}, NEW m \in Int, NEW took \in BOOLEAN,
           tx[t].took => took,
           ~tx[t].parts /\ ~drifted => m = Head(tx[t].lines),
           took \/ m >= 0, layers.units + tx[t].units + m >= 0,
           NEW z \in Transactions, Moved(tx[t], z, m, took)
    PROVE  LET y == Done(z) IN
           Knows(y, stock, layers, count, drifted) /\ HeldBy(y) \subseteq HeldBy(tx[t]) /\ y.took = took
<1> DEFINE x == tx[t]
           y == Done(z)
<1>1. /\ Knows(x, stock, layers, count, drifted) /\ Shaped(x) /\ HoldsRows(x) /\ x \in Transactions
      /\ x.kind \in Kinds /\ x.at \in StepsOf(x.kind) /\ x.units \in Int /\ x.lines \in Seq(Int)
  BY KnowsMine, Fields DEF Knows
<1>2. x.at \in {"add", "take"} /\ x.kind \notin {"transfer", "reconcile", "reserve", "release"}
      /\ "read" \in StepsOf(x.kind) /\ "commit" \in StepsOf(x.kind)
  BY <1>1 DEF StepsOf, Kinds
<1> HIDE DEF x
<1>3. /\ Head(x.lines) \in Int /\ Tail(x.lines) \in Seq(Int)
      /\ \A i \in 1..Len(Tail(x.lines)) : Tail(x.lines)[i] \in Moves(x.kind)
      /\ x.kind \in Single => Len(Tail(x.lines)) <= 1 /\ ~(Len(x.lines) > 1)
      /\ Len(x.lines) > 1 => Tail(x.lines) # <<>>
  BY <1>1, <1>2, LineDone DEF AtLayers
<1>4. /\ z.units = x.units + m /\ z.took = took /\ z.lines = x.lines
      /\ z.kind = x.kind /\ z.from = x.from /\ z.to = x.to /\ z.count = x.count
      /\ z.rows = x.rows /\ z.parts = x.parts
  BY DEF Moved, x
<1>5. /\ y \in Transactions /\ y.units = x.units + m /\ y.took = took /\ y.lines = Tail(x.lines)
      /\ y.at = (IF Len(x.lines) > 1 THEN "read" ELSE "commit")
      /\ y.kind = x.kind /\ y.from = x.from /\ y.to = x.to /\ y.count = x.count
      /\ y.rows = x.rows /\ y.parts = x.parts
  <2>1. /\ (IF Len(z.lines) > 1 THEN "read" ELSE "commit") \in Steps
        /\ None \in StockRows \cup {None} /\ None \in LayerPools \cup {None}
        /\ Tail(z.lines) \in Seq(Int)
    BY <1>3, <1>4 DEF Steps
  <2> QED BY <1>4, <2>1 DEF Transactions, Done
<1> HIDE DEF y
<1>6. Shaped(y)
  BY <1>1, <1>2, <1>3, <1>5 DEF Shaped, AtLayers
<1>7. HoldsRows(y)
  BY <1>1, <1>2, <1>3, <1>5 DEF HoldsRows, AtLayers
<1>8. RowsKnown(y, stock)
  BY <1>1, <1>2, <1>5 DEF Knows, RowsKnown
<1>9. MovedEvenly(y, stock, count, drifted)
  <2>1. MovedEvenly(x, stock, count, drifted) /\ ToDo(x) = Head(x.lines) /\ ToDo(y) = 0
    BY <1>1, <1>2, <1>5 DEF Knows, ToDo, AtLayers
  <2>2. Delta(y, y.from, stock) = Delta(x, x.from, stock)
    BY <1>5 DEF Delta
  <2>3. ~y.parts /\ ~drifted => Delta(y, y.from, stock) = y.units + ToDo(y)
    BY <1>1, <1>2, <1>3, <1>5, <2>1, <2>2 DEF MovedEvenly, x
  <2>4. y.kind = "count" => y.at = "commit" /\ count[y.count] # None
    BY <1>3, <1>5, <2>1 DEF MovedEvenly, Single
  <2> QED BY <1>2, <1>5, <2>1, <2>3, <2>4 DEF MovedEvenly
<1>10. LayersKnown(y, layers)
  <2>1. LayersKnown(x, layers) /\ layers.units \in Nat
    BY <1>1 DEF Knows, IInv, DataInv, LayerPools
  <2>2. ~y.took => y.units >= 0
    BY <1>1, <1>5, <2>1 DEF LayersKnown, x
  <2>3. layers.units + y.units >= 0
    BY <1>1, <1>5, <2>1 DEF x
  <2> QED BY <1>2, <1>5, <2>2, <2>3 DEF LayersKnown
<1>11. HeldBy(y) \subseteq HeldBy(x)
  BY <1>2, <1>5 DEF HeldBy
<1> QED BY <1>5, <1>6, <1>7, <1>8, <1>9, <1>10, <1>11 DEF Knows, x, y

LEMMA AddLayerPreserves == ASSUME IInv, NEW t \in Running, AddLayer(t) PROVE IInv'
<1> DEFINE x == tx[t]
           m == IF x.kind = "legacyRefund" THEN 0 ELSE Head(x.lines)
           z == [x EXCEPT !.units = @ + m]
<1>1. x.at = "add" /\ (Becomes(t, Done(z)) \/ Abort(t))
  BY DEF AddLayer, At
<1> SUFFICES ASSUME Becomes(t, Done(z)) PROVE IInv'
  BY <1>1, AbortPreserves
<1>2. /\ Knows(x, stock, layers, count, drifted) /\ Shaped(x) /\ HoldsRows(x) /\ x \in Transactions
      /\ x.units \in Int /\ x.took \in BOOLEAN
  BY KnowsMine, Fields DEF Knows
<1>3. Head(x.lines) \in Int /\ Head(x.lines) > 0
  BY <1>1, <1>2, LineDone DEF AtLayers, Shaped
<1>4. x.kind = "legacyRefund" => x.parts
  BY <1>1, <1>2 DEF Knows, HoldsRows, MovedEvenly, AtLayers
<1>5. m \in Int /\ m >= 0 /\ layers.units + x.units + m >= 0 /\ (~x.parts /\ ~drifted => m = Head(x.lines))
  <2>1. layers.units + x.units >= 0 /\ layers.units \in Nat
    BY <1>2 DEF Knows, LayersKnown, IInv, DataInv, LayerPools
  <2> QED BY <1>2, <1>3, <1>4, <2>1
<1> HIDE DEF m
<1>6. z \in Transactions /\ Moved(x, z, m, x.took)
  <2>1. x.units + m \in Int
    BY <1>2, <1>5
  <2> HIDE DEF x
  <2> QED BY <1>2, <2>1 DEF Transactions, Moved
<1> DEFINE y == Done(z)
<1>7. /\ Knows(y, stock, layers, count, drifted)
      /\ HeldBy(y) \subseteq HeldBy(tx[t])
      /\ y.took = x.took
  <2> HIDE DEF z
  <2> QED BY <1>1, <1>2, <1>5, <1>6, LineDoneKnows
<1>8. Becomes(t, y)
  OBVIOUS
<1> HIDE DEF y
<1> QED BY <1>7, <1>8, HoldingNoMore, StepPreserves

(* The layers a transaction takes from are those of the commit it follows. *)
LEMMA TakeLayersPreserves == ASSUME IInv, NEW t \in Running, TakeLayers(t) PROVE IInv'
<1> DEFINE x == tx[t]
           n == -Head(x.lines)
           taken == Min({n, x.sawLayers.units})
           z == [x EXCEPT !.units = @ - taken, !.took = @ \/ taken > 0]
<1>1. /\ x.at = "take" /\ (x.sawLayers.units > 0 => ~LayersHeldByOther(t))
      /\ \/ (taken = 0 \/ layers.takes = x.sawLayers.takes) /\ Becomes(t, Done(z))
         \/ Abort(t)
  BY DEF TakeLayers, At
<1> SUFFICES ASSUME taken = 0 \/ layers.takes = x.sawLayers.takes, Becomes(t, Done(z)) PROVE IInv'
  BY <1>1, AbortPreserves
<1>2. /\ Knows(x, stock, layers, count, drifted) /\ Shaped(x) /\ HoldsRows(x) /\ x \in Transactions
      /\ x.units \in Int /\ x.took \in BOOLEAN
  BY KnowsMine, Fields DEF Knows
<1>3. Head(x.lines) \in Int /\ n \in Int /\ n > 0
  BY <1>1, <1>2, LineDone DEF AtLayers, Shaped
<1>4. /\ x.sawLayers \in LayerPools /\ x.sawLayers.units \in Nat /\ layers.units \in Nat
      /\ layers.units + x.units >= 0
      /\ layers.takes = x.sawLayers.takes => layers.units + x.units >= x.sawLayers.units
      /\ ~x.parts /\ ~drifted => x.sawLayers.units >= n
  BY <1>1, <1>2, <1>3 DEF Knows, LayersKnown, MovedEvenly, IInv, DataInv, LayerPools
<1>5. taken \in {n, x.sawLayers.units} /\ taken <= n /\ taken <= x.sawLayers.units
  <2>1. n \in Int /\ x.sawLayers.units \in Int
    BY <1>3, <1>4
  <2> HIDE DEF n, x
  <2> QED BY <2>1, Smaller, Zenon
<1>6. tx[t] = x /\ (taken = 0 \/ layers.takes = x.sawLayers.takes) /\ n = -Head(x.lines)
  OBVIOUS
<1> DEFINE y == Done(z)
<1>7. Becomes(t, y)
  OBVIOUS
<1> HIDE DEF taken, x, n
<1>8. taken \in Nat /\ -taken \in Int /\ (~x.parts /\ ~drifted => -taken = Head(x.lines))
      /\ layers.units + x.units + (-taken) >= 0
  BY <1>2, <1>3, <1>4, <1>5, <1>6
<1> DEFINE took == x.took \/ taken > 0
<1>9. took \in BOOLEAN /\ (x.took => took) /\ (took \/ -taken >= 0)
  BY <1>2, <1>8
<1>10. z \in Transactions /\ Moved(x, z, -taken, took)
  <2>1. x.units - taken \in Int /\ x.units - taken = x.units + (-taken)
    BY <1>2, <1>8
  <2> QED BY <1>2, <1>9, <2>1 DEF Transactions, Moved
<1> HIDE DEF took
<1>11. Knows(y, stock, layers, count, drifted) /\ HeldBy(y) \subseteq HeldBy(x) /\ y.took = took
  <2> DEFINE m == -taken
  <2>1. m \in Int /\ (~x.parts /\ ~drifted => m = Head(x.lines)) /\ layers.units + x.units + m >= 0
        /\ (took \/ m >= 0) /\ Moved(x, z, m, took)
    BY <1>8, <1>9, <1>10
  <2> HIDE DEF z, m
  <2> QED BY <1>1, <1>6, <1>9, <1>10, <2>1, LineDoneKnows
<1> HIDE DEF y
<1>12. ASSUME NEW u \in Running \ {t} PROVE Apart(y, tx[u])
  <2>1. Apart(x, tx[u])
    BY <1>6, KnowsMine
  <2>2. took => x.took \/ ~tx[u].took
    BY <1>1, <1>4, <1>5, <1>8 DEF took, LayersHeldByOther
  <2> QED BY <1>11, <2>1, <2>2 DEF Apart
<1> QED BY <1>7, <1>11, <1>12, StepPreserves

(* The units in stock.                                                     *)
LEMMA Totals ==
    ASSUME stock \in [Warehouses -> StockRows]
    PROVE  Total \in Nat /\ \A w \in Warehouses : stock[w].quantity \in Nat /\ stock[w].quantity <= Total
<1> DEFINE q == [w \in Warehouses |-> stock[w].quantity]
<1>1. \A w \in Warehouses : q[w] = stock[w].quantity /\ q[w] \in Nat
  BY DEF StockRows
<1>2. Total = SumFunctionOnSet(q, Warehouses)
  BY DEF Total, SumFunction
<1> HIDE DEF q
<1> QED BY <1>1, <1>2, NotNone, SumNat

LEMMA ReadLayersPreserves == ASSUME IInv, NEW t \in Running, ReadLayers(t) PROVE IInv'
<1> DEFINE x == tx[t]
           y == [x EXCEPT !.at = "take", !.sawLayers = LayersSeen(t)]
<1>1. x.at = "readLayers" /\ Becomes(t, y)
  BY DEF ReadLayers, At
<1>2. /\ Knows(x, stock, layers, count, drifted) /\ Shaped(x) /\ HoldsRows(x) /\ x \in Transactions
      /\ x.units \in Int /\ x.rows \in RowMaps /\ x.from \in Warehouses
  BY KnowsMine, Fields DEF Knows
<1>3. x.kind \in {"adjust", "sale", "return", "count"}
  BY <1>1, <1>2, Fields DEF StepsOf, Kinds
<1> DEFINE seen == LayersSeen(t)
<1>4. /\ layers.units + x.units \in Nat /\ layers.takes \in Nat
      /\ seen \in LayerPools /\ seen.units = layers.units + x.units /\ seen.takes = layers.takes
  <2>1. layers.units \in Nat /\ layers.takes \in Nat /\ layers.units + x.units >= 0
    BY <1>2 DEF Knows, LayersKnown, IInv, DataInv, LayerPools
  <2>2. layers.units + x.units \in Nat
    BY <1>2, <2>1
  <2> QED BY <2>1, <2>2 DEF LayersSeen, LayerPools
<1>5. Head(x.lines) \in Int /\ Head(x.lines) < 0
  BY <1>1, <1>2, LineDone DEF AtLayers, Shaped
<1>6. tx[t] = x
  OBVIOUS
<1> HIDE DEF x, seen
<1>7. /\ y \in Transactions /\ y.at = "take" /\ y.sawLayers = seen
      /\ y.kind = x.kind /\ y.lines = x.lines /\ y.from = x.from /\ y.to = x.to /\ y.count = x.count
      /\ y.rows = x.rows /\ y.units = x.units /\ y.took = x.took /\ y.parts = x.parts
  <2>1. /\ "take" \in Steps
        /\ seen \in LayerPools \cup {None}
        /\ y = [x EXCEPT !.at = "take", !.sawLayers = seen]
    BY <1>4 DEF Steps, seen
  <2> HIDE DEF y
  <2> QED BY <1>2, <2>1 DEF Transactions
<1> HIDE DEF y
<1>8. Shaped(y)
  BY <1>1, <1>2, <1>3, <1>7 DEF Shaped, AtLayers, StepsOf
<1>9. HoldsRows(y) /\ DOMAIN x.rows = {x.from}
  BY <1>1, <1>2, <1>7 DEF HoldsRows, AtLayers
<1>10. RowsKnown(y, stock)
  BY <1>1, <1>2, <1>3, <1>7 DEF Knows, RowsKnown
<1>11. MovedEvenly(y, stock, count, drifted)
  <2>1. MovedEvenly(x, stock, count, drifted) /\ ToDo(x) = Head(x.lines) /\ ToDo(y) = ToDo(x)
    BY <1>1, <1>2, <1>7 DEF Knows, ToDo, AtLayers
  <2>2. Delta(y, y.from, stock) = Delta(x, x.from, stock)
    BY <1>7 DEF Delta
  <2>3. ~x.parts /\ ~drifted => Delta(x, x.from, stock) = x.units + Head(x.lines)
    BY <1>3, <2>1 DEF MovedEvenly
  <2>4. ASSUME ~x.parts, ~drifted PROVE seen.units >= -Head(x.lines)
    <3>1. layers.units = Total
      BY <2>4 DEF IInv, DataInv, UnitsValued
    <3>2. Total \in Nat /\ stock[x.from].quantity \in Nat /\ stock[x.from].quantity <= Total
      BY <1>2, Totals DEF IInv, DataInv
    <3>3. x.rows[x.from].quantity \in Nat /\ Delta(x, x.from, stock) = x.rows[x.from].quantity - stock[x.from].quantity
      BY <1>2, <1>9, Rows DEF Delta, StockRows
    <3> QED BY <1>2, <1>4, <1>5, <2>3, <2>4, <3>1, <3>2, <3>3
  <2> QED BY <1>3, <1>7, <2>1, <2>2, <2>3, <2>4 DEF MovedEvenly
<1>12. LayersKnown(y, layers)
  BY <1>2, <1>3, <1>4, <1>7 DEF Knows, LayersKnown
<1>13. HeldBy(y) \subseteq HeldBy(x) /\ (y.took => x.took)
  BY <1>3, <1>7 DEF HeldBy
<1> QED BY <1>1, <1>6, <1>8, <1>9, <1>10, <1>11, <1>12, <1>13, HoldingNoMore,
           StepPreserves DEF Knows

-----------------------------------------------------------------------------
(* A commit, seen by another transaction.                                  *)
Grown(x, st, la, co, st2, la2, co2) ==
    /\ \A w \in Warehouses \ DOMAIN x.rows : st2[w] = st[w]
    /\ \A w \in DOMAIN x.rows : st2[w] = x.rows[w]
    /\ la2.units = la.units + x.units
    /\ la2.takes = la.takes + (IF x.took THEN 1 ELSE 0)
    /\ \A c \in Counts : co[c] # None =>
        co2[c] # None /\ co2[c].actual = co[c].actual /\ co2[c].expected = co[c].expected

LEMMA KnowsStays ==
    ASSUME NEW st \in [Warehouses -> StockRows], NEW la \in LayerPools, NEW co, NEW dr \in BOOLEAN,
           NEW st2, NEW la2, NEW co2, NEW dr2 \in BOOLEAN, dr => dr2,
           NEW x, Knows(x, st, la, co, dr), x.at = "commit", Grown(x, st, la, co, st2, la2, co2),
           NEW z, Knows(z, st, la, co, dr), Apart(x, z)
    PROVE  Knows(z, st2, la2, co2, dr2)
<1>1. /\ Shaped(x) /\ HoldsRows(x) /\ x.rows \in RowMaps /\ x.from \in Warehouses /\ x.units \in Int
      /\ x.took \in BOOLEAN /\ DOMAIN x.rows \subseteq Warehouses
      /\ \A w \in DOMAIN x.rows : x.rows[w] \in StockRows
  BY Fields, Rows DEF Knows
<1>2. /\ Shaped(z) /\ HoldsRows(z) /\ z.rows \in RowMaps /\ z.from \in Warehouses /\ z.units \in Int
      /\ z.took \in BOOLEAN /\ DOMAIN z.rows \subseteq Warehouses
      /\ \A w \in DOMAIN z.rows : z.rows[w] \in StockRows
  BY Fields, Rows DEF Knows
<1>3. /\ DOMAIN x.rows \cap DOMAIN z.rows = {} /\ ~(x.took /\ z.took)
      /\ z.kind = "reconcile" /\ z.at # "read" => DOMAIN x.rows = {} /\ x.kind # "reconcile"
  BY <1>1 DEF Apart, HeldBy
<1>4. \A w \in DOMAIN z.rows : st2[w] = st[w]
  BY <1>2, <1>3 DEF Grown
<1>5. z.kind = "reconcile" /\ z.at # "read" => st2[z.from] = st[z.from] /\ x.units = 0 /\ ~x.took
  BY <1>1, <1>2, <1>3 DEF Grown, HoldsRows
<1>6. RowsKnown(z, st2)
  <2>1. RowsKnown(z, st) /\ RowsKnown(x, st)
    BY DEF Knows
  <2>2. ASSUME z.at = "write", z.from \notin DOMAIN z.rows
        PROVE  Recent(z.saw, st2[z.from])
    <3>1. Recent(z.saw, st[z.from]) /\ z.saw.version \in Nat /\ st[z.from].version \in Nat
      BY <1>2, <2>1, <2>2 DEF RowsKnown, StockRows
    <3>2. CASE z.from \notin DOMAIN x.rows
      BY <1>2, <3>1, <3>2 DEF Grown
    <3>3. CASE z.from \in DOMAIN x.rows
      <4>1. st2[z.from] = x.rows[z.from] /\ x.rows[z.from].version \in Nat
            /\ x.rows[z.from].version > st[z.from].version
        BY <1>1, <2>1, <3>3 DEF Grown, RowsKnown, StockRows
      <4> QED BY <3>1, <4>1 DEF Recent
    <3> QED BY <3>2, <3>3
  <2> QED BY <1>4, <1>5, <2>1, <2>2 DEF RowsKnown
<1>7. MovedEvenly(z, st2, co2, dr2)
  <2>1. MovedEvenly(z, st, co, dr)
    BY DEF Knows
  <2>2. \A w : Delta(z, w, st2) = Delta(z, w, st)
    BY <1>4 DEF Delta
  <2>3. z.kind = "count" => co2[z.count] # None /\ co2[z.count].actual = co[z.count].actual
                            /\ co2[z.count].expected = co[z.count].expected
    BY <1>2, <2>1 DEF MovedEvenly, Shaped, Grown
  <2> QED BY <2>1, <2>2, <2>3 DEF MovedEvenly
<1>8. LayersKnown(z, la2)
  <2>1. LayersKnown(z, la) /\ LayersKnown(x, la)
    BY DEF Knows
  <2>2. /\ la.units \in Nat /\ la.takes \in Nat
        /\ la2.units = la.units + x.units /\ la2.takes = la.takes + (IF x.took THEN 1 ELSE 0)
    BY DEF LayerPools, Grown
  <2>3. la2.units + z.units >= 0
    BY <1>1, <1>2, <1>3, <2>1, <2>2 DEF LayersKnown
  <2>4. ASSUME z.at = "take"
        PROVE  /\ z.sawLayers \in LayerPools /\ z.sawLayers.takes <= la2.takes
               /\ z.sawLayers.takes = la2.takes => la2.units + z.units >= z.sawLayers.units
    <3>1. z.sawLayers \in LayerPools /\ z.sawLayers.takes \in Nat /\ z.sawLayers.units \in Nat
      BY <2>1, <2>4 DEF LayersKnown, LayerPools
    <3> QED BY <1>1, <1>2, <2>1, <2>2, <2>4, <3>1 DEF LayersKnown
  <2>5. z.kind = "reconcile" /\ z.at = "commit" => la2.units + z.units = z.saw.quantity
    BY <1>5, <2>1, <2>2 DEF LayersKnown
  <2> QED BY <2>1, <2>3, <2>4, <2>5 DEF LayersKnown
<1> QED BY <1>2, <1>6, <1>7, <1>8 DEF Knows

UnitsIn(st) == SumFunctionOnSet([w \in Warehouses |-> st[w].quantity], Warehouses)

LEMMA UnitsOfRow ==
    ASSUME NEW st \in [Warehouses -> StockRows], NEW st2 \in [Warehouses -> StockRows],
           NEW v \in Warehouses, \A w \in Warehouses \ {v} : st2[w] = st[w]
    PROVE  UnitsIn(st2) = UnitsIn(st) + (st2[v].quantity - st[v].quantity)
<1> DEFINE f == [w \in Warehouses |-> st[w].quantity]
           h == [w \in Warehouses |-> st2[w].quantity]
<1>1. \A w \in Warehouses : f[w] = st[w].quantity /\ h[w] = st2[w].quantity /\ f[w] \in Int /\ h[w] \in Int
  BY DEF StockRows
<1>2. /\ UnitsIn(st) = SumFunctionOnSet(f, Warehouses)
      /\ UnitsIn(st2) = SumFunctionOnSet(h, Warehouses)
  BY DEF UnitsIn
<1> HIDE DEF f, h
<1>3. \A w \in Warehouses : w # v => f[w] = h[w]
  BY <1>1
<1>4. IsFiniteSet(Warehouses)
  BY NotNone
<1> QED BY <1>1, <1>2, <1>3, <1>4, SumUpdate

LEMMA TotalIs == Total = UnitsIn(stock)
BY DEF Total, SumFunction, UnitsIn

(* What a commit adds to the units in stock is what it adds to the layers. *)
LEMMA CommitValued ==
    ASSUME IInv, NEW t \in Running, tx[t].at = "commit", ~drifted, ~tx[t].parts,
           NEW st2 \in [Warehouses -> StockRows],
           \A w \in Warehouses \ DOMAIN tx[t].rows : st2[w] = stock[w],
           \A w \in DOMAIN tx[t].rows : st2[w] = tx[t].rows[w]
    PROVE  layers.units + tx[t].units = UnitsIn(st2)
<1> DEFINE x == tx[t]
<1>1. /\ Knows(x, stock, layers, count, drifted) /\ Shaped(x) /\ HoldsRows(x)
      /\ x.units \in Int /\ x.rows \in RowMaps /\ x.from \in Warehouses /\ x.at = "commit"
      /\ DOMAIN x.rows \subseteq Warehouses
  BY KnowsMine, Fields, Rows DEF Knows
<1>2. stock \in [Warehouses -> StockRows] /\ layers.units = UnitsIn(stock) /\ layers.units \in Nat
      /\ \A w \in Warehouses : stock[w].quantity \in Nat /\ stock[w].quantity <= UnitsIn(stock)
  BY TotalIs, Totals DEF IInv, DataInv, UnitsValued, LayerPools
<1>3. /\ \A w \in Warehouses \ DOMAIN x.rows : st2[w] = stock[w]
      /\ \A w \in DOMAIN x.rows : st2[w] = x.rows[w]
      /\ ~x.parts
  OBVIOUS
<1> HIDE DEF x
<1>4. \A w \in Warehouses : st2[w].quantity \in Nat /\ Delta(x, w, stock) = st2[w].quantity - stock[w].quantity
  BY <1>2, <1>3 DEF Delta, StockRows
<1>5. x.kind # "reconcile"
  <2> SUFFICES ASSUME x.kind = "reconcile" PROVE FALSE
    OBVIOUS
  <2>1. x.saw = stock[x.from] /\ layers.units + x.units = x.saw.quantity /\ x.units > 0
    BY <1>1 DEF Knows, RowsKnown, LayersKnown
  <2> QED BY <1>1, <1>2, <2>1
<1>6. CASE x.kind = "transfer"
  <2>1. /\ DOMAIN x.rows = {x.from, x.to} /\ x.to \in Warehouses /\ x.to # x.from /\ x.units = 0
        /\ Delta(x, x.to, stock) = -Delta(x, x.from, stock)
    BY <1>1, <1>6 DEF HoldsRows, Shaped, Knows, MovedEvenly
  <2> DEFINE st1 == [stock EXCEPT ![x.from] = st2[x.from]]
  <2>2. /\ st1 \in [Warehouses -> StockRows] /\ st1[x.from] = st2[x.from] /\ st1[x.to] = stock[x.to]
        /\ \A w \in Warehouses \ {x.from} : st1[w] = stock[w]
        /\ \A w \in Warehouses \ {x.to} : st2[w] = st1[w]
    BY <1>1, <1>2, <1>3, <2>1
  <2> HIDE DEF st1
  <2>3. UnitsIn(st1) = UnitsIn(stock) + (st1[x.from].quantity - stock[x.from].quantity)
    BY <1>1, <1>2, <2>2, UnitsOfRow
  <2>4. UnitsIn(st2) = UnitsIn(st1) + (st2[x.to].quantity - st1[x.to].quantity)
    BY <2>1, <2>2, UnitsOfRow
  <2> QED BY <1>1, <1>2, <1>4, <2>1, <2>2, <2>3, <2>4 DEF x
<1>7. CASE x.kind # "transfer"
  <2>1. DOMAIN x.rows \subseteq {x.from}
    BY <1>1, <1>7 DEF HoldsRows
  <2>2. Delta(x, x.from, stock) = x.units
    BY <1>1, <1>3, <1>5, <1>7 DEF Knows, MovedEvenly, ToDo, AtLayers
  <2>3. UnitsIn(st2) = UnitsIn(stock) + (st2[x.from].quantity - stock[x.from].quantity)
    BY <1>1, <1>2, <1>3, <2>1, UnitsOfRow
  <2> QED BY <1>1, <1>2, <1>4, <2>2, <2>3 DEF x
<1> QED BY <1>6, <1>7 DEF x

LEMMA CommitPreserves == ASSUME IInv, NEW t \in Running, Commit(t) PROVE IInv'
<1> DEFINE x == tx[t]
<1>1. /\ x.at = "commit" /\ t \in Txns
      /\ stock' = [w \in Warehouses |-> Row(t, w)]
      /\ layers' = [units |-> layers.units + x.units, takes |-> layers.takes + (IF x.took THEN 1 ELSE 0)]
      /\ count' = IF x.kind = "count" THEN [count EXCEPT ![x.count].status = "COMPLETED"] ELSE count
      /\ drifted' = (drifted \/ x.parts)
      /\ tx' = [tx EXCEPT ![t] = None] /\ requests' = requests
  BY DEF Commit, At, Running
<1>2. /\ Knows(x, stock, layers, count, drifted) /\ Shaped(x) /\ HoldsRows(x)
      /\ x.units \in Int /\ x.took \in BOOLEAN /\ x.parts \in BOOLEAN
      /\ x.rows \in RowMaps /\ DOMAIN x.rows \subseteq Warehouses
  BY KnowsMine, Fields, Rows DEF Knows
<1>3. stock' \in [Warehouses -> StockRows]
  BY <1>1, RowTyped
<1>4. /\ \A w \in Warehouses \ DOMAIN x.rows : stock'[w] = stock[w]
      /\ \A w \in DOMAIN x.rows : stock'[w] = x.rows[w]
  BY <1>1, <1>2 DEF Row
<1>5. layers' \in LayerPools /\ drifted' \in BOOLEAN
  <2>1. /\ layers.units \in Nat
        /\ layers.takes \in Nat
        /\ layers.units + x.units >= 0
        /\ drifted \in BOOLEAN
    BY <1>2 DEF Knows, LayersKnown, IInv, DataInv, LayerPools
  <2>2. layers.units + x.units \in Nat /\ layers.takes + (IF x.took THEN 1 ELSE 0) \in Nat
    BY <1>2, <2>1
  <2> QED BY <1>1, <1>2, <2>1, <2>2 DEF LayerPools
<1>6. /\ count' \in [Counts -> CountRows \cup {None}]
      /\ \A c \in Counts : count[c] # None =>
            count'[c] # None /\ count'[c].actual = count[c].actual /\ count'[c].expected = count[c].expected
  <2>1. count \in [Counts -> CountRows \cup {None}]
    BY DEF IInv, DataInv
  <2>2. CASE x.kind # "count"
    BY <1>1, <2>1, <2>2
  <2>3. CASE x.kind = "count"
    <3>1. x.count \in Counts /\ count[x.count] # None
      BY <1>2, <2>3 DEF Knows, Shaped, MovedEvenly
    <3> DEFINE r == count[x.count]
               r2 == [r EXCEPT !.status = "COMPLETED"]
    <3>2. count' = [count EXCEPT ![x.count] = r2] /\ r \in CountRows
      BY <1>1, <2>1, <2>3, <3>1
    <3> HIDE DEF r
    <3>3. r2 \in CountRows /\ r2.actual = r.actual /\ r2.expected = r.expected /\ r2 # None
      <4>1. r2 \in CountRows /\ r2.actual = r.actual /\ r2.expected = r.expected /\ r2.status = "COMPLETED"
        BY <3>2 DEF CountRows
      <4> QED BY <4>1, NotNone
    <3> HIDE DEF r2
    <3> QED BY <2>1, <3>1, <3>2, <3>3 DEF r
  <2> QED BY <2>2, <2>3
<1>7. UnitsValued'
  <2> SUFFICES ASSUME ~drifted' PROVE layers'.units = UnitsIn(stock')
    BY TotalIs DEF UnitsValued, Total, SumFunction, UnitsIn
  <2>1. ~drifted /\ ~x.parts /\ layers'.units = layers.units + x.units
    BY <1>1, <1>2
  <2> QED BY <1>1, <1>3, <1>4, <2>1, CommitValued
<1>8. DataInv'
  BY <1>1, <1>3, <1>5, <1>6, <1>7 DEF IInv, DataInv
<1>9. Grown(x, stock, layers, count, stock', layers', count')
  BY <1>1, <1>4, <1>6 DEF Grown
<1>10. AllKnow' /\ AllApart'
  <2>1. /\ DOMAIN tx' = Txns /\ AllApart'
        /\ \A u \in Running' : tx'[u] = tx[u] /\ u \in Running \ {t}
    BY <1>1, Dropped
  <2> SUFFICES ASSUME NEW u \in Running' PROVE Knows(tx'[u], stock', layers', count', drifted')
    BY <2>1 DEF AllKnow
  <2>2. tx'[u] = tx[u] /\ Knows(tx[u], stock, layers, count, drifted) /\ Apart(x, tx[u])
    BY <2>1, KnowsMine
  <2>3. /\ stock \in [Warehouses -> StockRows] /\ layers \in LayerPools /\ drifted \in BOOLEAN
        /\ drifted => drifted'
    BY <1>1 DEF IInv, DataInv
  <2> HIDE DEF x
  <2> QED BY <1>1, <1>2, <1>5, <1>9, <2>2, <2>3, KnowsStays
<1> QED BY <1>8, <1>10 DEF IInv

-----------------------------------------------------------------------------
LEMMA StatementPreserves == ASSUME IInv, NEW t \in Txns, Statement(t) PROVE IInv'
<1>1. t \in Running
  BY DEF Statement, ClaimCount, ReadRows, LockRows, FillLayers, WriteRow,
     WriteDestination, AddLayer, ReadLayers, TakeLayers, Commit, Fail, At
<1> QED
  BY <1>1, ClaimCountPreserves, ReadRowsPreserves, LockRowsPreserves,
     FillLayersPreserves, WriteRowPreserves, WriteDestinationPreserves,
     AddLayerPreserves, ReadLayersPreserves, TakeLayersPreserves, CommitPreserves,
     AbortPreserves DEF Statement, Fail

LEMMA NextPreserves == ASSUME IInv, [Next]_vars PROVE IInv'
<1>1. CASE Next
  BY <1>1, RequestPreserves, StatementPreserves, CreateCountPreserves DEF Next
<1>2. CASE UNCHANGED vars
  BY <1>2 DEF vars, IInv, DataInv, UnitsValued, Total, AllKnow, AllApart, Running
<1> QED BY <1>1, <1>2

LEMMA InitHolds == ASSUME Init PROVE IInv
<1>1. stock \in [Warehouses -> StockRows]
  <2>1. \A w \in Warehouses : stock[w] \in [quantity : 0..Units, reserved : {0}, version : {0}]
    BY DEF Init
  <2>2. \A r \in [quantity : 0..Units, reserved : {0}, version : {0}] : r \in StockRows
    BY StockAssumption DEF StockRows
  <2>3. stock \in [Warehouses -> [quantity : 0..Units, reserved : {0}, version : {0}]]
    BY DEF Init
  <2> QED BY <2>1, <2>2, <2>3
<1>2. Total \in Nat
  BY <1>1, Totals
<1>3. layers \in LayerPools /\ UnitsValued /\ drifted \in BOOLEAN
  <2>1. PICK n \in {Total, 0} : layers = [units |-> n, takes |-> 0]
    BY DEF Init
  <2>2. n \in Nat /\ drifted = (layers.units # Total)
    BY <1>2, <2>1 DEF Init
  <2> QED BY <2>1, <2>2 DEF LayerPools, UnitsValued
<1>4. count \in [Counts -> CountRows \cup {None}] /\ requests \in 0..MaxRequests
  BY StockAssumption DEF Init
<1>5. Running = {} /\ DOMAIN tx = Txns
  BY DEF Init, Running
<1> QED BY <1>1, <1>3, <1>4, <1>5 DEF IInv, DataInv, AllKnow, AllApart

(* In every state each transaction is right about the rows and layers it   *)
(* has read or written, no row and no layer is held by two, and the units  *)
(* in stock stand in layers.                                               *)
THEOREM Invariance == Spec => []IInv
<1> QED BY InitHolds, NextPreserves, PTL DEF Spec

(* Strict stock, for any warehouses and quantities: no row, reservation or *)
(* pool of layers becomes negative. The update is made on the version that *)
(* was compared with zero, or, for sales and returns, compares by itself   *)
(* (sale-completed.handler.ts).                                            *)
THEOREM TypeCorrect == Spec => []TypeOK
<1>1. IInv => TypeOK
  <2> SUFFICES ASSUME IInv PROVE TypeOK
    OBVIOUS
  <2>1. \A w \in Warehouses : stock[w] \in [quantity : Nat, reserved : Nat, version : Nat]
    BY DEF IInv, DataInv, StockRows
  <2>2. \A c \in Counts : count[c] # None => count[c].at \in Warehouses /\ count[c].status \in {"DRAFT", "COMPLETED"}
    BY DEF IInv, DataInv, CountRows
  <2> QED BY <2>1, <2>2 DEF IInv, DataInv, TypeOK, LayerPools
<1> QED BY <1>1, Invariance, PTL

(* Whatever moves stock moves as many units of its cost layers             *)
(* (StockService with CostingService), unless layers were missing from the *)
(* start or a count has overwritten a quantity it did not expect.          *)
THEOREM Valued == Spec => []UnitsValued
<1>1. IInv => UnitsValued
  BY DEF IInv, DataInv
<1> QED BY <1>1, Invariance, PTL

-----------------------------------------------------------------------------
LEMMA Mine ==
    ASSUME IInv, NEW t \in Running
    PROVE  LET x == tx[t] IN
           /\ Knows(x, stock, layers, count, drifted) /\ Shaped(x) /\ HoldsRows(x)
           /\ x.at \in StepsOf(x.kind) /\ x.kind \in Kinds /\ x.from \in Warehouses
           /\ DOMAIN x.rows \subseteq Warehouses
BY KnowsMine, Fields, Rows DEF Knows

(* Who holds a row, or layers, and is no transfer, waits for layers only.  *)
LEMMA HolderWaits ==
    ASSUME IInv, NEW t \in Running, tx[t].kind # "transfer", Holds(t) # {} \/ tx[t].took,
           NEW u \in Running, WaitsFor(t, u)
    PROVE  tx[t].at = "take" /\ tx[u].took /\ ~tx[t].took
<1> DEFINE x == tx[t]
<1>1. /\ Shaped(x) /\ HoldsRows(x) /\ x.at \in StepsOf(x.kind) /\ x.kind \in Kinds /\ x.from \in Warehouses
  BY Mine
<1>2. Apart(x, tx[u]) /\ Holds(t) = HeldBy(x) /\ Holds(u) = HeldBy(tx[u])
  BY KnowsMine, HeldIs DEF WaitsFor
<1>3. x.kind # "transfer" /\ (HeldBy(x) # {} \/ x.took)
  BY <1>2
<1>4. /\ Wants(t) = CASE x.at = "write" -> {x.from}
                      [] x.at = "writeTo" -> {x.to}
                      [] x.at = "read" /\ x.kind = "reconcile" -> Warehouses
                      [] OTHER -> {}
      /\ Wants(t) \cap Holds(u) # {} \/ (x.at = "take" /\ tx[u].took) \/ x.at = "claim"
  BY DEF Wants, WaitsFor
<1> HIDE DEF x
<1>5. CASE x.kind = "reconcile"
  <2>1. x.at \in {"aggregate", "commit"}
    BY <1>1, <1>3, <1>5 DEF HoldsRows, HeldBy, StepsOf, Kinds
  <2> QED BY <1>4, <2>1
<1>6. CASE x.kind # "reconcile"
  <2>1. DOMAIN x.rows = {x.from} /\ HeldBy(x) = {x.from}
    BY <1>1, <1>3, <1>6 DEF HoldsRows, HeldBy
  <2>2. x.at # "claim" /\ x.at # "writeTo"
    BY <1>1, <1>3, <2>1 DEF HoldsRows, StepsOf, Kinds, Single
  <2>3. Wants(t) \subseteq {x.from}
    BY <1>4, <1>6, <2>2
  <2>4. x.at = "take" /\ tx[u].took
    BY <1>2, <1>4, <2>1, <2>2, <2>3 DEF Apart
  <2> QED BY <1>2, <2>4 DEF Apart, x
<1> QED BY <1>5, <1>6

(* Requests on stock wait for one another in a circle only if one of them  *)
(* is a transfer. Who has a row and waits is a transfer or waits for       *)
(* layers, and who has taken layers waits for nobody.                      *)
THEOREM Deadlocks == Spec => []OnlyTransfersDeadlock
<1>1. IInv => OnlyTransfersDeadlock
  <2> SUFFICES ASSUME IInv, NEW ring \in SUBSET Running, ring # {},
                      \A t \in ring : \E u \in ring : WaitsFor(t, u),
                      \A t \in ring : tx[t].kind # "transfer"
               PROVE  FALSE
    BY DEF OnlyTransfersDeadlock
  <2>1. \A t \in ring : ~tx[t].took
    BY HolderWaits
  <2>2. \A t \in ring : Holds(t) = {}
    BY <2>1, HolderWaits
  <2>3. \A t, u \in ring : WaitsFor(t, u) => tx[t].at = "claim" /\ tx[u].at # "claim"
    BY <2>1, <2>2 DEF WaitsFor, Claimed
  <2> QED BY <2>3
<1> QED BY <1>1, Invariance, PTL

(* Only a commit moves stock, or layers.                                   *)
LEMMA CommitsMove ==
    ASSUME IInv, [Next]_vars, stock' # stock \/ layers' # layers
    PROVE  \E t \in Running : Commit(t)
<1>1. Next
  BY DEF vars
<1>2. \A t \in Txns : Request(t) => UNCHANGED <<stock, layers>>
  BY DEF Request, Begin, Adjust, Transfer, Reserve, Release, SaleCompleted,
     SaleRefunded, SalePartiallyRefunded, PurchaseReceived, CompleteReturn,
     CancelReturn, CompleteCount, Reconcile
<1>3. \A c \in Counts : CreateCount(c) => UNCHANGED <<stock, layers>>
  BY DEF CreateCount
<1>4. \A t \in Txns : Statement(t) => Commit(t) \/ UNCHANGED <<stock, layers>>
  BY DEF Statement, ClaimCount, ReadRows, LockRows, FillLayers, WriteRow,
     WriteDestination, AddLayer, ReadLayers, TakeLayers, Fail, Becomes, Abort, Stay
<1> QED BY <1>1, <1>2, <1>3, <1>4 DEF Next, Commit, At

LEMMA Committed ==
    ASSUME IInv, NEW t \in Running, Commit(t)
    PROVE  LET x == tx[t] IN
           /\ Knows(x, stock, layers, count, drifted) /\ HoldsRows(x) /\ x.at = "commit" /\ x.from \in Warehouses
           /\ DOMAIN x.rows \subseteq Warehouses
           /\ \A w \in Warehouses : stock'[w] = IF w \in DOMAIN x.rows THEN x.rows[w] ELSE stock[w]
           /\ layers'.units = layers.units + x.units
BY Mine DEF Commit, At, Row

(* A reservation that commits leaves no more reserved than there is in     *)
(* stock (ReservationService.reserve): nothing has moved the row since it  *)
(* was compared.                                                           *)
THEOREM ReservationsFit == Spec => ReserveWithinStock
<1> DEFINE A == \A w \in Warehouses :
                   stock'[w].reserved > stock[w].reserved => stock'[w].reserved <= stock'[w].quantity
<1>1. IInv /\ [Next]_vars => [A]_vars
  <2> SUFFICES ASSUME IInv, [Next]_vars, NEW w \in Warehouses, stock'[w].reserved > stock[w].reserved
               PROVE  stock'[w].reserved <= stock'[w].quantity
    OBVIOUS
  <2>1. stock[w] \in StockRows /\ stock[w].reserved \in Nat
    BY DEF IInv, DataInv, StockRows
  <2>2. stock' # stock
    BY <2>1
  <2>3. PICK t \in Running : Commit(t)
    BY <2>2, CommitsMove
  <2>4. w \in DOMAIN tx[t].rows /\ stock'[w] = tx[t].rows[w]
    BY <2>1, <2>3, Committed
  <2>5. tx[t].rows[w].reserved <= stock[w].reserved \/ tx[t].rows[w].reserved <= tx[t].rows[w].quantity
    BY <2>3, <2>4, Committed DEF Knows, RowsKnown
  <2>6. tx[t].rows[w] \in StockRows
    BY <2>4, KnowsMine, Fields, Rows DEF Knows
  <2>7. tx[t].rows[w].reserved \in Nat
    BY <2>6 DEF StockRows
  <2> QED BY <2>1, <2>4, <2>5, <2>7
<1> QED BY <1>1, Invariance, PTL DEF Spec, ReserveWithinStock

(* A reconciliation adds layers for no more units than there are in stock: *)
(* it has locked every row of the product before it sums the layers        *)
(* (reconcilePairInTx).                                                    *)
THEOREM ReconciliationsFit == Spec => ReconcileWithinStock
<1> DEFINE A == \A t \in Running :
                   tx[t].kind = "reconcile" /\ layers'.units > layers.units /\ stock' = stock
                       => layers'.units <= Total
<1>1. IInv /\ [Next]_vars => [A]_vars
  <2> SUFFICES ASSUME IInv, [Next]_vars, layers'.units > layers.units, stock' = stock
               PROVE  layers'.units <= Total
    OBVIOUS
  <2>1. layers.units \in Nat
    BY DEF IInv, DataInv, LayerPools
  <2>2. layers' # layers
    BY <2>1
  <2>3. PICK t \in Running : Commit(t)
    BY <2>2, CommitsMove
  <2> DEFINE x == tx[t]
  <2>4. /\ Knows(x, stock, layers, count, drifted) /\ HoldsRows(x) /\ x.at = "commit" /\ x.from \in Warehouses
        /\ DOMAIN x.rows \subseteq Warehouses
        /\ \A w \in Warehouses : stock[w] = IF w \in DOMAIN x.rows THEN x.rows[w] ELSE stock[w]
        /\ layers'.units = layers.units + x.units /\ x.units \in Int
    BY <2>3, Committed, KnowsMine, Fields DEF Knows
  <2> HIDE DEF x
  <2>5. DOMAIN x.rows = {}
    <3> SUFFICES ASSUME NEW w \in DOMAIN x.rows PROVE FALSE
      OBVIOUS
    <3>1. stock[w] \in StockRows /\ stock[w].version \in Nat /\ stock[w] = x.rows[w]
      BY <2>4 DEF IInv, DataInv, StockRows
    <3> QED BY <2>4, <3>1 DEF Knows, RowsKnown
  <2>6. x.kind = "reconcile"
    BY <2>1, <2>4, <2>5 DEF HoldsRows
  <2>7. layers'.units = stock[x.from].quantity
    BY <2>4, <2>6 DEF Knows, LayersKnown, RowsKnown
  <2> QED BY <2>4, <2>7, Totals DEF IInv, DataInv
<1> QED BY <1>1, Invariance, PTL DEF Spec, ReconcileWithinStock
=============================================================================

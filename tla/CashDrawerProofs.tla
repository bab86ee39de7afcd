-------------------------- MODULE CashDrawerProofs --------------------------
(***************************************************************************)
(* The books of a drawer are consistent for every number of shifts, sales  *)
(* and units: what DrawerBooks.tla promises about totals, refunds and      *)
(* closed shifts (first part).  And the concurrent transactions of         *)
(* CashDrawer.tla implement the books, for every number of transactions,   *)
(* and never wait for one another in a circle (second part).               *)
(***************************************************************************)
EXTENDS CashDrawer, FiniteSetTheorems, TLAPS

(* A sale that is not completed is in no shift and nothing of it is back.  *)
Untaken ==
    \A s \in SaleIds : sale[s].status \in {"DRAFT", "PENDING", "CANCELLED"} =>
        sale[s].link = None /\ back[s] = 0 /\ allocated[s] = 0

(* Sales are linked to shifts that exist, and only those have entries.     *)
LinksExist ==
    /\ \A s \in SaleIds : sale[s].link # None => shift[sale[s].link] # None
    /\ \A h \in Shifts : shift[h] = None => posted[h].in = 0 /\ posted[h].out = 0

IInv == BooksTypeOK /\ Untaken /\ LinksExist /\ RefundsAgree /\ DrawerReconciles

Linked(h) == {s \in SaleIds : sale[s].link = h}
Kept(h) == {s \in Linked(h) : ~TakenWhole(s)}

-----------------------------------------------------------------------------
(* What DrawerReconciles says, over Linked and Kept.                       *)
LEMMA Reconciles ==
    DrawerReconciles <=>
      \A h \in Shifts : shift[h] # None =>
        /\ shift[h].in = posted[h].in /\ shift[h].out = posted[h].out
        /\ Cardinality(Kept(h)) <= shift[h].sales
        /\ shift[h].sales <= Cardinality(Linked(h))
        /\ shift[h].status = "OPEN" => shift[h].sales = Cardinality(Kept(h))
BY DEF DrawerReconciles, Linked, Kept

(* The sales of a shift can be counted.                                    *)
LEMMA FiniteSales ==
    \A h : /\ IsFiniteSet(Linked(h)) /\ Cardinality(Linked(h)) \in Nat
           /\ IsFiniteSet(Kept(h)) /\ Cardinality(Kept(h)) \in Nat
<1> SUFFICES ASSUME NEW h
             PROVE  /\ IsFiniteSet(Linked(h)) /\ Cardinality(Linked(h)) \in Nat
                    /\ IsFiniteSet(Kept(h)) /\ Cardinality(Kept(h)) \in Nat
  OBVIOUS
<1>1. Linked(h) \subseteq SaleIds /\ Kept(h) \subseteq SaleIds
  BY DEF Linked, Kept
<1>2. IsFiniteSet(SaleIds)
  BY BooksAssumption
<1>3. IsFiniteSet(Linked(h))
  BY <1>1, <1>2, FS_Subset
<1>4. IsFiniteSet(Kept(h))
  BY <1>1, <1>2, FS_Subset
<1> QED
  BY <1>3, <1>4, FS_CardinalityType

(* The books start consistent.                                             *)
LEMMA InitEstablishes == Init => IInv
<1> SUFFICES ASSUME Init PROVE IInv
  OBVIOUS
<1> USE DEF Init
<1>1. BooksTypeOK
  <2>1. 0 \in 0..Units
    BY BooksAssumption
  <2> QED
    BY <2>1 DEF BooksTypeOK, Statuses
<1>2. Untaken /\ LinksExist /\ RefundsAgree
  BY BooksAssumption DEF Untaken, LinksExist, RefundsAgree
<1>3. DrawerReconciles
  BY DEF DrawerReconciles
<1> QED
  BY <1>1, <1>2, <1>3 DEF IInv

(* A step that leaves the sales and the refunds alone keeps every count.   *)
LEMMA SameSales ==
    ASSUME UNCHANGED <<sale, allocated>>
    PROVE  \A h : Linked(h)' = Linked(h) /\ Kept(h)' = Kept(h)
BY DEF Linked, Kept, TakenWhole

-----------------------------------------------------------------------------
(* Requests on the shift.                                                  *)

(* What such a request leaves alone: the sales, and other shifts.          *)
LEMMA ShiftTyped ==
    ASSUME IInv, NEW h \in Shifts
    PROVE  /\ shift[h] \in Row \cup {None}
           /\ shift[h] # None => /\ shift[h] \in Row
                                 /\ shift[h].in \in Nat /\ shift[h].out \in Nat
                                 /\ shift[h].sales \in Nat
           /\ posted[h] \in [in : Nat, out : Nat]
BY DEF IInv, BooksTypeOK, Row

(* Opening a shift: no sale is linked to it yet.                           *)
LEMMA OpenKeeps == ASSUME IInv, NEW h \in Shifts, Open(h) PROVE IInv'
<1>1. NewShift \in Row /\ NewShift # None
  BY BooksAssumption DEF NewShift, Row
<1>2. /\ shift \in [Shifts -> Row \cup {None}]
      /\ shift' = [shift EXCEPT ![h] = NewShift] /\ shift[h] = None
      /\ UNCHANGED <<sale, back, allocated, posted>>
  BY DEF Open, IInv, BooksTypeOK
<1>3. shift'[h] = NewShift /\ \A g \in Shifts \ {h} : shift'[g] = shift[g]
  BY <1>2
<1>4. BooksTypeOK'
  BY <1>1, <1>2 DEF IInv, BooksTypeOK
<1>5. Untaken' /\ RefundsAgree'
  BY <1>2 DEF IInv, Untaken, RefundsAgree
<1>6. LinksExist'
  BY <1>1, <1>2, <1>3 DEF IInv, LinksExist, BooksTypeOK
<1>7. DrawerReconciles'
  <2>1. \A g \in Shifts : Linked(g)' = Linked(g) /\ Kept(g)' = Kept(g)
    BY <1>2, SameSales
  <2>2. Linked(h) = {} /\ Kept(h) = {}
    BY <1>2, BooksAssumption DEF IInv, LinksExist, Linked, Kept
  <2>3. Cardinality(Linked(h)) = 0 /\ Cardinality(Kept(h)) = 0
    BY <2>2, FS_EmptySet
  <2>4. /\ NewShift.in = 0 /\ NewShift.out = 0 /\ NewShift.sales = 0
        /\ posted'[h].in = 0 /\ posted'[h].out = 0
    BY <1>2 DEF IInv, LinksExist, NewShift
  <2>5. ASSUME NEW g \in Shifts, shift'[g] # None
        PROVE  /\ shift'[g].in = posted'[g].in /\ shift'[g].out = posted'[g].out
               /\ Cardinality(Kept(g)') <= shift'[g].sales
               /\ shift'[g].sales <= Cardinality(Linked(g)')
               /\ shift'[g].status = "OPEN" => shift'[g].sales = Cardinality(Kept(g)')
    <3>1. CASE g = h
      BY <2>1, <2>3, <2>4, <1>3, <3>1
    <3>2. CASE g # h
      BY <2>1, <2>5, <1>2, <1>3, <3>2, Reconciles DEF IInv
    <3> QED
      BY <3>1, <3>2
  <2> QED
    BY <2>5 DEF DrawerReconciles, Linked, Kept, TakenWhole
<1> QED
  BY <1>4, <1>5, <1>6, <1>7 DEF IInv

(* A request on an open shift that changes its row but not its sales, and  *)
(* posts what it adds.                                                     *)
LEMMA RowKeeps ==
    ASSUME IInv, NEW h \in Shifts, shift[h] # None,
           UNCHANGED <<sale, back, allocated>>,
           NEW row \in Row, shift' = [shift EXCEPT ![h] = row],
           row.sales = shift[h].sales,
           row.status = "OPEN" => shift[h].status = "OPEN",
           posted' \in [Shifts -> [in : Nat, out : Nat]],
           posted'[h].in = row.in, posted'[h].out = row.out,
           \A g \in Shifts \ {h} : posted'[g] = posted[g]
    PROVE  IInv'
<1>1. row # None
  BY BooksAssumption
<1>2. /\ shift' \in [Shifts -> Row \cup {None}] /\ shift'[h] = row
      /\ \A g \in Shifts \ {h} : shift'[g] = shift[g]
  BY DEF IInv, BooksTypeOK
<1>3. BooksTypeOK'
  BY <1>2 DEF IInv, BooksTypeOK
<1>4. Untaken' /\ RefundsAgree' /\ LinksExist'
  BY <1>1, <1>2 DEF IInv, Untaken, RefundsAgree, LinksExist
<1>5. DrawerReconciles'
  <2>1. \A g \in Shifts : Linked(g)' = Linked(g) /\ Kept(g)' = Kept(g)
    BY SameSales
  <2>2. ASSUME NEW g \in Shifts, shift'[g] # None
        PROVE  /\ shift'[g].in = posted'[g].in /\ shift'[g].out = posted'[g].out
               /\ Cardinality(Kept(g)') <= shift'[g].sales
               /\ shift'[g].sales <= Cardinality(Linked(g)')
               /\ shift'[g].status = "OPEN" => shift'[g].sales = Cardinality(Kept(g)')
    BY <2>1, <2>2, <1>2, Reconciles DEF IInv
  <2> QED
    BY <2>2 DEF DrawerReconciles, Linked, Kept, TakenWhole
<1> QED
  BY <1>3, <1>4, <1>5 DEF IInv

(* Closing a shift leaves its totals as they are.                          *)
LEMMA CloseKeeps ==
    ASSUME IInv, NEW h \in Shifts, NEW netted \in [SaleIds -> 0..Units], Close(h, netted)
    PROVE  IInv'
<1> DEFINE row == [shift[h] EXCEPT !.status = "CLOSED", !.netted = netted]
<1>1. shift[h] # None /\ shift[h] \in Row
  BY ShiftTyped DEF Close, OpenShifts
<1>2. /\ row \in Row /\ row.sales = shift[h].sales
      /\ row.in = shift[h].in /\ row.out = shift[h].out /\ row.status = "CLOSED"
  BY <1>1 DEF Row
<1>3. /\ shift' = [shift EXCEPT ![h] = row]
      /\ UNCHANGED <<sale, back, allocated, posted>>
  BY DEF Close, IInv, BooksTypeOK
<1>4. posted[h].in = row.in /\ posted[h].out = row.out
  BY <1>1, <1>2 DEF IInv, DrawerReconciles
<1>5. posted' \in [Shifts -> [in : Nat, out : Nat]]
  BY <1>3 DEF IInv, BooksTypeOK
<1> HIDE DEF row
<1> QED
  BY <1>1, <1>2, <1>3, <1>4, <1>5, RowKeeps

(* Cash put in is counted once in the row and posted once.                 *)
LEMMA CashInKeeps == ASSUME IInv, NEW h \in Shifts, CashIn(h) PROVE IInv'
<1> DEFINE row == [shift[h] EXCEPT !.in = @ + 1]
<1>1. shift[h] # None /\ shift[h] \in Row /\ posted[h] \in [in : Nat, out : Nat]
  BY ShiftTyped DEF CashIn, OpenShifts
<1>2. /\ row \in Row /\ row.sales = shift[h].sales /\ row.status = shift[h].status
      /\ row.in = shift[h].in + 1 /\ row.out = shift[h].out
  BY <1>1 DEF Row
<1>3. /\ shift' = [shift EXCEPT ![h] = row]
      /\ posted' = [posted EXCEPT ![h].in = posted[h].in + 1]
      /\ UNCHANGED <<sale, back, allocated>>
  BY DEF CashIn, IInv, BooksTypeOK
<1>4. /\ posted' \in [Shifts -> [in : Nat, out : Nat]]
      /\ posted'[h].in = posted[h].in + 1 /\ posted'[h].out = posted[h].out
      /\ \A g \in Shifts \ {h} : posted'[g] = posted[g]
  BY <1>1, <1>3 DEF IInv, BooksTypeOK
<1>5. posted[h].in = shift[h].in /\ posted[h].out = shift[h].out
  BY <1>1 DEF IInv, DrawerReconciles
<1> HIDE DEF row
<1> QED
  BY <1>1, <1>2, <1>3, <1>4, <1>5, RowKeeps

(* Cash taken out is counted once in the row and posted once.              *)
LEMMA CashOutKeeps == ASSUME IInv, NEW h \in Shifts, CashOut(h) PROVE IInv'
<1> DEFINE row == [shift[h] EXCEPT !.out = @ + 1]
<1>1. shift[h] # None /\ shift[h] \in Row /\ posted[h] \in [in : Nat, out : Nat]
  BY ShiftTyped DEF CashOut, OpenShifts
<1>2. /\ row \in Row /\ row.sales = shift[h].sales /\ row.status = shift[h].status
      /\ row.in = shift[h].in /\ row.out = shift[h].out + 1
  BY <1>1 DEF Row
<1>3. /\ shift' = [shift EXCEPT ![h] = row]
      /\ posted' = [posted EXCEPT ![h].out = posted[h].out + 1]
      /\ UNCHANGED <<sale, back, allocated>>
  BY DEF CashOut, IInv, BooksTypeOK
<1>4. /\ posted' \in [Shifts -> [in : Nat, out : Nat]]
      /\ posted'[h].in = posted[h].in /\ posted'[h].out = posted[h].out + 1
      /\ \A g \in Shifts \ {h} : posted'[g] = posted[g]
  BY <1>1, <1>3 DEF IInv, BooksTypeOK
<1>5. posted[h].in = shift[h].in /\ posted[h].out = shift[h].out
  BY <1>1 DEF IInv, DrawerReconciles
<1> HIDE DEF row
<1> QED
  BY <1>1, <1>2, <1>3, <1>4, <1>5, RowKeeps
-----------------------------------------------------------------------------
(* Requests on a sale.                                                     *)

SaleRows == [status : Statuses, link : Shifts \cup {None}, deleted : BOOLEAN]

(* A request on a sale replaces its row.                                   *)
LEMMA SaleReplaced ==
    ASSUME IInv, NEW s \in SaleIds, NEW row \in SaleRows,
           sale' = [sale EXCEPT ![s] = row]
    PROVE  /\ sale' \in [SaleIds -> SaleRows] /\ sale'[s] = row
           /\ \A r \in SaleIds \ {s} : sale'[r] = sale[r]
BY DEF IInv, BooksTypeOK, SaleRows

(* What is left to show when neither the links of sales nor what was taken *)
(* back in one piece changes, and the shifts stay as they are.             *)
LEMMA CountsKept ==
    ASSUME IInv, UNCHANGED <<shift, posted>>,
           \A r \in SaleIds : sale'[r].link = sale[r].link /\ TakenWhole(r)' = TakenWhole(r)
    PROVE  DrawerReconciles' /\ LinksExist'
<1>1. \A g : Linked(g)' = Linked(g)
  BY DEF Linked
<1>2. \A g : Kept(g)' = Kept(g)
  BY <1>1 DEF Kept, Linked
<1>3. DrawerReconciles'
  BY <1>1, <1>2 DEF IInv, DrawerReconciles, Linked, Kept
<1>4. LinksExist'
  BY DEF IInv, LinksExist
<1> QED
  BY <1>3, <1>4

(* A sale parked or cancelled is in no shift, before and after.            *)
LEMMA ChangeKeeps ==
    ASSUME IInv, NEW s \in SaleIds, NEW status \in {"PENDING", "CANCELLED"},
           Change(s, status)
    PROVE  IInv'
<1> DEFINE row == [sale[s] EXCEPT !.status = status]
<1>1. /\ sale[s] \in SaleRows /\ sale[s].status \in {"DRAFT", "PENDING"}
      /\ sale[s].link = None /\ back[s] = 0 /\ allocated[s] = 0
  BY DEF IInv, BooksTypeOK, SaleRows, Change, May, Untaken
<1>2. row \in SaleRows /\ row.link = sale[s].link /\ row.status = status
  BY <1>1 DEF SaleRows, Statuses
<1>3. sale' = [sale EXCEPT ![s] = row] /\ UNCHANGED <<shift, back, allocated, posted>>
  BY DEF Change, IInv, BooksTypeOK
<1> HIDE DEF row
<1>4. /\ sale' \in [SaleIds -> SaleRows] /\ sale'[s] = row
      /\ \A r \in SaleIds \ {s} : sale'[r] = sale[r]
  BY <1>2, <1>3, SaleReplaced
<1>5. BooksTypeOK'
  BY <1>3, <1>4 DEF IInv, BooksTypeOK, SaleRows
<1>6. Untaken' /\ RefundsAgree'
  BY <1>1, <1>2, <1>3, <1>4, BooksAssumption DEF IInv, Untaken, RefundsAgree
<1>7. DrawerReconciles' /\ LinksExist'
  <2>1. \A r \in SaleIds : sale'[r].link = sale[r].link
                          /\ (TakenWhole(r)' <=> TakenWhole(r))
    BY <1>1, <1>2, <1>3, <1>4 DEF TakenWhole
  <2> QED
    BY <2>1, <1>3, CountsKept DEF TakenWhole
<1> QED
  BY <1>5, <1>6, <1>7 DEF IInv

(* A deleted draft keeps its status and its link.                          *)
LEMMA DeleteKeeps == ASSUME IInv, NEW s \in SaleIds, Delete(s) PROVE IInv'
<1> DEFINE row == [sale[s] EXCEPT !.deleted = TRUE]
<1>1. sale[s] \in SaleRows
  BY DEF IInv, BooksTypeOK, SaleRows
<1>2. row \in SaleRows /\ row.link = sale[s].link /\ row.status = sale[s].status
  BY <1>1 DEF SaleRows
<1>3. sale' = [sale EXCEPT ![s] = row] /\ UNCHANGED <<shift, back, allocated, posted>>
  BY DEF Delete, IInv, BooksTypeOK
<1> HIDE DEF row
<1>4. /\ sale' \in [SaleIds -> SaleRows] /\ sale'[s] = row
      /\ \A r \in SaleIds \ {s} : sale'[r] = sale[r]
  BY <1>2, <1>3, SaleReplaced
<1>5. \A r \in SaleIds : sale'[r].link = sale[r].link /\ sale'[r].status = sale[r].status
  BY <1>2, <1>4
<1>6. BooksTypeOK'
  BY <1>3, <1>4 DEF IInv, BooksTypeOK, SaleRows
<1>7. Untaken' /\ RefundsAgree'
  BY <1>3, <1>5 DEF IInv, Untaken, RefundsAgree
<1>8. DrawerReconciles' /\ LinksExist'
  BY <1>3, <1>5, CountsKept DEF TakenWhole
<1> QED
  BY <1>6, <1>7, <1>8 DEF IInv
(* A partial refund stays within the sale and out of the shift's sales.    *)
LEMMA RefundPartKeeps ==
    ASSUME IInv, NEW s \in SaleIds, NEW n \in 1..Units, RefundPart(s, n)
    PROVE  IInv'
<1> DEFINE row == [sale[s] EXCEPT !.status =
                     IF back[s] + n = Units THEN "REFUNDED" ELSE "PARTIALLY_REFUNDED"]
<1>1. /\ sale[s] \in SaleRows /\ back[s] \in 0..Units /\ allocated[s] \in 0..Units
      /\ sale[s].status \in {"COMPLETED", "PARTIALLY_REFUNDED"}
      /\ Units \in Nat /\ n \in 1..(Units - back[s])
  BY BooksAssumption DEF IInv, BooksTypeOK, SaleRows, RefundPart
<1>2. allocated[s] = back[s] /\ back[s] + n \in 1..Units
  BY <1>1, BooksAssumption DEF IInv, RefundsAgree
<1>3. /\ row \in SaleRows /\ row.link = sale[s].link
      /\ row.status = IF back[s] + n = Units THEN "REFUNDED" ELSE "PARTIALLY_REFUNDED"
  BY <1>1 DEF SaleRows, Statuses
<1>4. /\ sale' = [sale EXCEPT ![s] = row]
      /\ back' = [back EXCEPT ![s] = back[s] + n]
      /\ allocated' = [allocated EXCEPT ![s] = allocated[s] + n]
      /\ UNCHANGED <<shift, posted>>
  BY DEF RefundPart, IInv, BooksTypeOK
<1> HIDE DEF row
<1>5. /\ sale' \in [SaleIds -> SaleRows] /\ sale'[s] = row
      /\ \A r \in SaleIds \ {s} : sale'[r] = sale[r]
  BY <1>3, <1>4, SaleReplaced
<1>6. /\ back' \in [SaleIds -> 0..Units] /\ back'[s] = back[s] + n
      /\ allocated' \in [SaleIds -> 0..Units] /\ allocated'[s] = back[s] + n
      /\ \A r \in SaleIds \ {s} : back'[r] = back[r] /\ allocated'[r] = allocated[r]
  BY <1>1, <1>2, <1>4 DEF IInv, BooksTypeOK
<1>7. BooksTypeOK'
  BY <1>4, <1>5, <1>6 DEF IInv, BooksTypeOK, SaleRows
<1>8. Untaken'
  BY <1>3, <1>5, <1>6 DEF IInv, Untaken
<1>9. RefundsAgree'
  <2>1. ASSUME NEW r \in SaleIds
        PROVE  /\ sale'[r].status = "REFUNDED" <=> back'[r] = Units
               /\ sale'[r].status = "PARTIALLY_REFUNDED" <=> back'[r] \in 1..(Units - 1)
               /\ allocated'[r] = back'[r] \/ (allocated'[r] = 0 /\ back'[r] = Units)
    <3>1. CASE r = s
      BY <1>1, <1>2, <1>3, <1>5, <1>6, <3>1
    <3>2. CASE r # s
      BY <1>5, <1>6, <3>2 DEF IInv, RefundsAgree
    <3> QED
      BY <3>1, <3>2
  <2> QED
    BY <2>1 DEF RefundsAgree
<1>10. DrawerReconciles' /\ LinksExist'
  <2>1. ~TakenWhole(s) /\ ~TakenWhole(s)'
    BY <1>1, <1>2, <1>6 DEF TakenWhole
  <2>2. \A r \in SaleIds : sale'[r].link = sale[r].link
                          /\ (TakenWhole(r)' <=> TakenWhole(r))
    BY <1>3, <1>5, <1>6, <2>1 DEF TakenWhole
  <2> QED
    BY <1>4, <2>2, CountsKept DEF TakenWhole
<1> QED
  BY <1>7, <1>8, <1>9, <1>10 DEF IInv

(* What a request shows for each shift.                                    *)
Tallied(h) ==
    shift[h] # None =>
      /\ shift[h].in = posted[h].in /\ shift[h].out = posted[h].out
      /\ Cardinality(Kept(h)) <= shift[h].sales
      /\ shift[h].sales <= Cardinality(Linked(h))
      /\ shift[h].status = "OPEN" => shift[h].sales = Cardinality(Kept(h))

(* A shift none of whose sales, and nothing of whose row, changes.         *)
LEMMA TalliedStill ==
    ASSUME IInv, NEW h \in Shifts, Linked(h)' = Linked(h), Kept(h)' = Kept(h),
           shift'[h] = shift[h], UNCHANGED posted
    PROVE  Tallied(h)'
BY Reconciles DEF IInv, Tallied

(* Every shift tallied is the books reconciled.                            *)
LEMMA AllTallied ==
    ASSUME \A h \in Shifts : Tallied(h)'
    PROVE  DrawerReconciles'
BY DEF Tallied, DrawerReconciles, Linked, Kept

(* A completed sale joins the sales of one shift and is counted there.     *)
LEMMA CompleteKeeps ==
    ASSUME IInv, NEW s \in SaleIds, NEW h \in Shifts \cup {None}, Complete(s, h)
    PROVE  IInv'
<1> DEFINE row == [sale[s] EXCEPT !.status = "COMPLETED", !.link = h]
<1>1. /\ sale[s] \in SaleRows /\ sale[s].status \in {"DRAFT", "PENDING"}
      /\ sale[s].link = None /\ back[s] = 0 /\ allocated[s] = 0
  BY DEF IInv, BooksTypeOK, SaleRows, Complete, May, Untaken
<1>2. row \in SaleRows /\ row.link = h /\ row.status = "COMPLETED"
  BY <1>1 DEF SaleRows, Statuses
<1>3. /\ sale' = [sale EXCEPT ![s] = row] /\ UNCHANGED <<back, allocated, posted>>
      /\ IF h = None THEN shift' = shift
                     ELSE shift' = [shift EXCEPT ![h].sales = shift[h].sales + 1]
      /\ h = None \/ (h \in Shifts /\ shift[h] # None /\ shift[h].status = "OPEN")
  BY DEF Complete, OpenShifts, IInv, BooksTypeOK
<1> HIDE DEF row
<1>4. /\ sale' \in [SaleIds -> SaleRows] /\ sale'[s] = row
      /\ \A r \in SaleIds \ {s} : sale'[r] = sale[r]
  BY <1>2, <1>3, SaleReplaced
<1>5. Untaken' /\ RefundsAgree'
  BY <1>1, <1>2, <1>3, <1>4, BooksAssumption DEF IInv, Untaken, RefundsAgree
<1>6. ~TakenWhole(s) /\ ~TakenWhole(s)'
  BY <1>1, <1>2, <1>4 DEF TakenWhole
<1>7. \A r \in SaleIds : TakenWhole(r)' <=> TakenWhole(r)
  BY <1>3, <1>4, <1>6 DEF TakenWhole
<1>8. \A g \in Shifts \ {h} : Linked(g)' = Linked(g) /\ Kept(g)' = Kept(g)
  <2> SUFFICES ASSUME NEW g \in Shifts \ {h}
               PROVE  Linked(g)' = Linked(g) /\ Kept(g)' = Kept(g)
    OBVIOUS
  <2>1. g # None
    BY BooksAssumption
  <2>2. Linked(g)' = Linked(g)
    BY <1>1, <1>2, <1>4, <2>1 DEF Linked
  <2> QED
    BY <2>2, <1>7 DEF Kept, Linked
<1>9. CASE h = None
  <2>1. BooksTypeOK' /\ LinksExist'
    BY <1>2, <1>3, <1>4, <1>9 DEF IInv, BooksTypeOK, SaleRows, LinksExist
  <2>2. h \notin Shifts
    BY <1>9, BooksAssumption
  <2>3. DrawerReconciles'
    BY <1>3, <1>8, <1>9, <2>2, TalliedStill, AllTallied
  <2> QED
    BY <1>5, <2>1, <2>3 DEF IInv
<1>10. CASE h # None
  <2>1. h \in Shifts /\ shift[h] \in Row /\ shift[h] # None /\ shift[h].sales \in Nat
    BY <1>3, <1>10, ShiftTyped
  <2>2. /\ shift'[h] \in Row /\ shift'[h].sales = shift[h].sales + 1
        /\ shift'[h].status = shift[h].status
        /\ shift'[h].in = shift[h].in /\ shift'[h].out = shift[h].out
        /\ shift' \in [Shifts -> Row \cup {None}]
        /\ \A g \in Shifts \ {h} : shift'[g] = shift[g]
    BY <1>3, <1>10, <2>1 DEF IInv, BooksTypeOK, Row
  <2>3. shift'[h] # None
    BY <2>2, BooksAssumption
  <2>4. BooksTypeOK' /\ LinksExist'
    BY <1>2, <1>3, <1>4, <2>1, <2>2, <2>3 DEF IInv, BooksTypeOK, SaleRows, LinksExist
  <2>5. Linked(h)' = Linked(h) \cup {s} /\ s \notin Linked(h)
    BY <1>1, <1>2, <1>4, <1>10 DEF Linked
  <2>6. Kept(h)' = Kept(h) \cup {s} /\ s \notin Kept(h)
    BY <2>5, <1>6, <1>7 DEF Kept, Linked
  <2>7. /\ Cardinality(Linked(h)') = Cardinality(Linked(h)) + 1
        /\ Cardinality(Kept(h)') = Cardinality(Kept(h)) + 1
    BY <2>5, <2>6, FiniteSales, FS_AddElement
  <2>8. Tallied(h)'
    BY <1>3, <2>1, <2>2, <2>7, FiniteSales, Reconciles DEF IInv, Tallied
  <2>9. DrawerReconciles'
    BY <1>3, <1>8, <2>2, <2>8, TalliedStill, AllTallied
  <2> QED
    BY <1>5, <2>4, <2>9 DEF IInv
<1> QED
  BY <1>9, <1>10
(* A sale taken back whole leaves the sales of its shift, if it is open.   *)
LEMMA RefundWholeKeeps == ASSUME IInv, NEW s \in SaleIds, RefundWhole(s) PROVE IInv'
<1> DEFINE row == [sale[s] EXCEPT !.status = "REFUNDED"]
<1>0. sale[s].link \in Shifts \cup {None}
  BY DEF IInv, BooksTypeOK
<1> PICK h \in Shifts \cup {None} : h = sale[s].link
  BY <1>0
<1>1. /\ sale[s] \in SaleRows /\ sale[s].status = "COMPLETED"
      /\ back[s] \in 0..Units /\ allocated[s] \in 0..Units
  BY DEF IInv, BooksTypeOK, SaleRows, RefundWhole
<1>2. back[s] = 0 /\ allocated[s] = 0
  BY <1>1, BooksAssumption DEF IInv, RefundsAgree
<1>3. row \in SaleRows /\ row.link = h /\ row.status = "REFUNDED"
  BY <1>1 DEF SaleRows, Statuses
<1>4. /\ sale' = [sale EXCEPT ![s] = row] /\ back' = [back EXCEPT ![s] = Units]
      /\ UNCHANGED <<allocated, posted>>
      /\ IF h \in OpenShifts THEN shift' = [shift EXCEPT ![h].sales = shift[h].sales - 1]
                            ELSE shift' = shift
  BY DEF RefundWhole, OpenShifts, IInv, BooksTypeOK
<1>5. h \in OpenShifts <=> h \in Shifts /\ shift[h] # None /\ shift[h].status = "OPEN"
  BY DEF OpenShifts
<1> HIDE DEF row
<1>6. /\ sale' \in [SaleIds -> SaleRows] /\ sale'[s] = row
      /\ \A r \in SaleIds \ {s} : sale'[r] = sale[r]
  BY <1>3, <1>4, SaleReplaced
<1>7. /\ back' \in [SaleIds -> 0..Units] /\ back'[s] = Units
      /\ \A r \in SaleIds \ {s} : back'[r] = back[r]
  BY <1>4, BooksAssumption DEF IInv, BooksTypeOK
<1>8. Untaken'
  BY <1>3, <1>4, <1>6, <1>7 DEF IInv, Untaken
<1>9. RefundsAgree'
  <2>1. ASSUME NEW r \in SaleIds
        PROVE  /\ sale'[r].status = "REFUNDED" <=> back'[r] = Units
               /\ sale'[r].status = "PARTIALLY_REFUNDED" <=> back'[r] \in 1..(Units - 1)
               /\ allocated'[r] = back'[r] \/ (allocated'[r] = 0 /\ back'[r] = Units)
    <3>1. CASE r = s
      BY <1>2, <1>3, <1>4, <1>6, <1>7, <3>1, BooksAssumption
    <3>2. CASE r # s
      BY <1>4, <1>6, <1>7, <3>2 DEF IInv, RefundsAgree
    <3> QED
      BY <3>1, <3>2
  <2> QED
    BY <2>1 DEF RefundsAgree
<1>10. ~TakenWhole(s) /\ TakenWhole(s)'
  BY <1>1, <1>2, <1>3, <1>4, <1>6 DEF TakenWhole
<1>11. /\ \A r \in SaleIds : sale'[r].link = sale[r].link
       /\ \A r \in SaleIds \ {s} : TakenWhole(r)' <=> TakenWhole(r)
  BY <1>3, <1>4, <1>6 DEF TakenWhole
<1>12. \A g : Linked(g)' = Linked(g)
  BY <1>11 DEF Linked
<1>13. \A g \in Shifts \ {h} : Kept(g)' = Kept(g)
  BY <1>11, <1>12 DEF Kept, Linked
<1>14. s \in Kept(h) /\ Kept(h)' = Kept(h) \ {s}
  BY <1>10, <1>11, <1>12 DEF Kept, Linked
<1>15. Cardinality(Kept(h)') = Cardinality(Kept(h)) - 1
  BY <1>14, FiniteSales, FS_RemoveElement
<1>16. CASE h \in OpenShifts
  <2>1. /\ h \in Shifts /\ shift[h] # None /\ shift[h].status = "OPEN"
        /\ shift[h] \in Row /\ shift[h].sales \in Nat
    BY <1>5, <1>16, ShiftTyped
  <2>2. shift[h].sales = Cardinality(Kept(h)) /\ shift[h].sales <= Cardinality(Linked(h))
    BY <2>1, Reconciles DEF IInv
  <2>3. Cardinality(Kept(h)) - 1 \in Nat
    BY <1>14, FiniteSales, FS_EmptySet
  <2>4. /\ shift'[h] \in Row /\ shift'[h].sales = shift[h].sales - 1
        /\ shift'[h].status = shift[h].status
        /\ shift'[h].in = shift[h].in /\ shift'[h].out = shift[h].out
        /\ shift' \in [Shifts -> Row \cup {None}]
        /\ \A g \in Shifts \ {h} : shift'[g] = shift[g]
    <3>1. shift[h].sales - 1 \in Nat
      BY <2>2, <2>3
    <3>2. [shift[h] EXCEPT !.sales = shift[h].sales - 1] \in Row
      BY <2>1, <3>1 DEF Row
    <3>3. shift' = [shift EXCEPT ![h] = [shift[h] EXCEPT !.sales = shift[h].sales - 1]]
      BY <1>4, <1>16, <2>1 DEF IInv, BooksTypeOK
    <3> QED
      BY <2>1, <3>2, <3>3 DEF IInv, BooksTypeOK, Row
  <2>5. shift'[h] # None
    BY <2>4, BooksAssumption
  <2>6. BooksTypeOK'
    BY <1>4, <1>6, <1>7, <2>4 DEF IInv, BooksTypeOK, SaleRows
  <2>7. LinksExist'
    BY <1>4, <1>11, <2>1, <2>4, <2>5 DEF IInv, BooksTypeOK, LinksExist
  <2>8. Tallied(h)'
    BY <1>4, <1>12, <1>15, <2>1, <2>2, <2>4, FiniteSales, Reconciles DEF IInv, Tallied
  <2>9. DrawerReconciles'
    BY <1>4, <1>12, <1>13, <2>4, <2>8, TalliedStill, AllTallied
  <2> QED
    BY <1>8, <1>9, <2>6, <2>7, <2>9 DEF IInv
<1>17. CASE h \notin OpenShifts
  <2>1. BooksTypeOK' /\ LinksExist'
    BY <1>4, <1>6, <1>7, <1>11, <1>17 DEF IInv, BooksTypeOK, SaleRows, LinksExist
  <2>2. ASSUME h \in Shifts PROVE Tallied(h)'
    BY <1>4, <1>5, <1>12, <1>15, <1>17, <2>2, ShiftTyped, FiniteSales, Reconciles
       DEF IInv, Tallied
  <2>3. DrawerReconciles'
    BY <1>4, <1>12, <1>13, <1>17, <2>2, TalliedStill, AllTallied
  <2> QED
    BY <1>8, <1>9, <2>1, <2>3 DEF IInv
<1> QED
  BY <1>16, <1>17

-----------------------------------------------------------------------------
(* A step of the books keeps the inductive invariant.                      *)
LEMMA BooksKeep == IInv /\ [Next]_vars => IInv'
<1>1. ASSUME IInv, Next PROVE IInv'
  <2>1. ASSUME NEW h \in Shifts,
               Open(h) \/ CashIn(h) \/ CashOut(h)
                 \/ \E netted \in [SaleIds -> 0..Units] : Close(h, netted)
        PROVE  IInv'
    BY <1>1, <2>1, OpenKeeps, CashInKeeps, CashOutKeeps, CloseKeeps
  <2>2. ASSUME NEW s \in SaleIds,
               \/ \E h \in Shifts \cup {None} : Complete(s, h)
               \/ \E status \in {"PENDING", "CANCELLED"} : Change(s, status)
               \/ Delete(s)
               \/ RefundWhole(s)
               \/ \E n \in 1..Units : RefundPart(s, n)
        PROVE  IInv'
    BY <1>1, <2>2, CompleteKeeps, ChangeKeeps, DeleteKeeps, RefundWholeKeeps,
       RefundPartKeeps
  <2> QED
    BY <1>1, <2>1, <2>2 DEF Next
<1>2. ASSUME IInv, UNCHANGED vars PROVE IInv'
  <2>1. BooksTypeOK' /\ Untaken' /\ LinksExist' /\ RefundsAgree'
    BY <1>2 DEF vars, IInv, BooksTypeOK, Untaken, LinksExist, RefundsAgree
  <2>2. DrawerReconciles'
    BY <1>2, SameSales, TalliedStill, AllTallied DEF vars
  <2> QED
    BY <2>1, <2>2 DEF IInv
<1> QED
  BY <1>1, <1>2

(* The inductive invariant holds in every reachable state of the books.    *)
THEOREM Invariance == Spec => []IInv
BY InitEstablishes, BooksKeep, PTL DEF Spec

(* Rows keep their types whatever requests take effect.                    *)
THEOREM TypeCorrect == Spec => []BooksTypeOK
<1>1. IInv => BooksTypeOK
  BY DEF IInv
<1> QED
  BY <1>1, Invariance, PTL

(* The counters of a shift are those of its sales and journal entries.     *)
THEOREM Reconciled == Spec => []DrawerReconciles
<1>1. IInv => DrawerReconciles
  BY DEF IInv
<1> QED
  BY <1>1, Invariance, PTL

(* The cash of a sale is given back one way, and never more than it was.   *)
THEOREM RefundedOneWay == Spec => []RefundsAgree
<1>1. IInv => RefundsAgree
  BY DEF IInv
<1> QED
  BY <1>1, Invariance, PTL

(* Once closed, the row of a shift never changes again.                    *)
THEOREM ClosedIsFinal == Spec => ClosedShiftFinal
<1> DEFINE Final == \A h \in Shifts : shift[h] # None /\ shift[h].status = "CLOSED"
                                        => shift'[h] = shift[h]
<1>1. ASSUME IInv, [Next]_vars PROVE [Final]_vars
  <2> SUFFICES ASSUME Next, NEW h \in Shifts, shift[h] # None, shift[h].status = "CLOSED"
               PROVE  shift'[h] = shift[h]
    BY <1>1
  <2>1. shift \in [Shifts -> Row \cup {None}] /\ h \notin OpenShifts
    BY <1>1 DEF IInv, BooksTypeOK, OpenShifts
  <2>2. ASSUME NEW g \in Shifts,
               Open(g) \/ CashIn(g) \/ CashOut(g)
                 \/ \E netted \in [SaleIds -> 0..Units] : Close(g, netted)
        PROVE  shift'[h] = shift[h]
    BY <2>1, <2>2 DEF Open, CashIn, CashOut, Close
  <2>3. ASSUME NEW s \in SaleIds, NEW g \in Shifts \cup {None}, Complete(s, g)
        PROVE  shift'[h] = shift[h]
    BY <2>1, <2>3 DEF Complete
  <2>4. ASSUME NEW s \in SaleIds, RefundWhole(s) PROVE shift'[h] = shift[h]
    BY <2>1, <2>4 DEF RefundWhole
  <2> QED
    BY <2>2, <2>3, <2>4 DEF Next, Change, Delete, RefundPart
<1>2. IInv /\ [Next]_vars => [Final]_vars
  BY <1>1
<1> QED
  BY <1>2, Invariance, PTL DEF Spec, ClosedShiftFinal

-----------------------------------------------------------------------------
(* SECOND PART: the transactions.  What a transaction x knows about the    *)
(* committed rows is an operator of those rows, to be compared before and  *)
(* after a commit of another: the shifts sh with their versions sv, the    *)
(* sales sa with va, the units ba taken back, the cash al allocated and    *)
(* the receipts re.                                                        *)

Fields == {"sale", "kind", "at", "qty", "sawSale", "sawShift", "prior", "netted",
           "newSale", "newShift"}

ShiftKinds == {"close", "cashIn", "cashOut"}
PlainKinds == {"cancel", "hold", "edit", "delete"}
SaleKinds == PlainKinds \cup {"complete", "refund"}

SeenShifts == [id : Shifts, row : Row, version : Nat]
SeenSales == [row : SaleRows, version : Nat]

NoneOpen(sh) == \A h \in Shifts : sh[h] # None => sh[h].status # "OPEN"

(* The shift was open when it was read, and is as it was while its version *)
(* stands.                                                                 *)
SeesShift(x, sh, sv) ==
    /\ x.sawShift \in SeenShifts /\ x.sawShift.row.status = "OPEN"
    /\ sh[x.sawShift.id] # None
    /\ x.sawShift.version <= sv[x.sawShift.id]
    /\ x.sawShift.version = sv[x.sawShift.id] => sh[x.sawShift.id] = x.sawShift.row

(* Nobody else changes the shift before x ends.                            *)
HoldsShift(x, sh, sv) ==
    /\ SeesShift(x, sh, sv) /\ x.sawShift.version = sv[x.sawShift.id]
    /\ x.newShift # None /\ x.newShift.id = x.sawShift.id
    /\ x.newShift.row = ShiftRow(x) /\ x.newShift.row \in Row

SeesSale(x, sa, va) ==
    /\ x.sale \in SaleIds /\ x.sawSale \in SeenSales
    /\ ~x.sawSale.row.deleted /\ x.sawSale.row.status \in From[x.kind]
    /\ x.sawSale.version <= va[x.sale]
    /\ x.sawSale.version = va[x.sale] => sa[x.sale] = x.sawSale.row

HoldsSale(x, va) ==
    /\ x.sawSale.version = va[x.sale]
    /\ x.newSale # None /\ x.newSale = SaleRow(x)

OpenKnows(x, sh) ==
    /\ x.newSale = None
    /\ \/ x.at = "insert" /\ x.newShift = None
       \/ /\ x.at = "commit" /\ x.newShift # None
          /\ x.newShift.id \in Shifts /\ x.newShift.row = NewShift
          /\ sh[x.newShift.id] = None /\ NoneOpen(sh)

(* What a closing shift nets has been allocated to sales in it.            *)
Nets(x, sa, al) ==
    /\ x.netted \in [SaleIds -> 0..Units]
    /\ \A s \in SaleIds : x.netted[s] <= (IF sa[s].link = x.sawShift.id THEN al[s] ELSE 0)

ShiftKnows(x, sh, sv, sa, al) ==
    /\ x.newSale = None
    /\ SeesShift(x, sh, sv)
    /\ \/ x.at = "sum" /\ x.kind = "close" /\ x.newShift = None
       \/ x.at = "shift" /\ x.newShift = None
       \/ x.at = "commit" /\ HoldsShift(x, sh, sv)
    /\ x.kind = "close" /\ x.at # "sum" => Nets(x, sa, al)

PlainKnows(x, sa, va) ==
    /\ x.newShift = None
    /\ SeesSale(x, sa, va)
    /\ \/ x.at = "sale" /\ x.newSale = None
       \/ x.at = "commit" /\ HoldsSale(x, va)

(* Whoever has inserted the receipt of a sale is the one to complete it.   *)
CompleteKnows(x, sh, sv, sa, va, re) ==
    /\ SeesSale(x, sa, va)
    /\ x.at # "receipt" => x.sale \notin re
    /\ \/ x.at \in {"receipt", "drawer"} /\ x.sawShift = None /\ x.newShift = None
       \/ x.at = "shift" /\ SeesShift(x, sh, sv) /\ x.newShift = None
       \/ x.at \in {"sale", "commit"} /\ x.sawShift = None /\ x.newShift = None
       \/ x.at \in {"sale", "commit"} /\ HoldsShift(x, sh, sv)
    /\ IF x.at = "commit" THEN HoldsSale(x, va) ELSE x.newSale = None

(* What is refunded fits while the version of the sale stands.             *)
Fits(x, ba, va) ==
    /\ x.prior \in Nat /\ x.qty \in 1..Units /\ x.prior + x.qty <= Units
    /\ x.sawSale.version = va[x.sale] => x.prior = ba[x.sale]

RefundKnows(x, sh, sv, sa, ba, va) ==
    /\ SeesSale(x, sa, va)
    /\ x.at \in {"facts", "number", "sale", "linked", "shift", "commit"}
    /\ x.at # "facts" => Fits(x, ba, va)
    /\ IF x.at \in {"linked", "shift", "commit"} THEN HoldsSale(x, va) ELSE x.newSale = None
    /\ x.at \in {"linked", "shift"} => SingleShot(x)
    /\ x.at = "shift" => SeesShift(x, sh, sv) /\ x.sawShift.id = x.sawSale.row.link
    /\ IF x.at = "commit" /\ x.newShift # None
       THEN SingleShot(x) /\ HoldsShift(x, sh, sv) /\ x.sawShift.id = x.sawSale.row.link
       ELSE x.newShift = None
    /\ x.at = "commit" /\ x.newShift = None /\ SingleShot(x) =>
        \A h \in Shifts : h = x.sawSale.row.link => sh[h] # None /\ sh[h].status # "OPEN"

Knows(x, sh, sv, sa, ba, al, va, re) ==
    /\ DOMAIN x = Fields
    /\ x.kind \in {"open"} \cup ShiftKinds \cup SaleKinds
    /\ x.kind = "open" => OpenKnows(x, sh)
    /\ x.kind \in ShiftKinds => ShiftKnows(x, sh, sv, sa, al)
    /\ x.kind \in PlainKinds => PlainKnows(x, sa, va)
    /\ x.kind = "complete" => CompleteKnows(x, sh, sv, sa, va, re)
    /\ x.kind = "refund" => RefundKnows(x, sh, sv, sa, ba, va)

HasReceipt(x) == x.kind = "complete" /\ x.at \in {"drawer", "shift", "sale", "commit"}

(* No row is written by two; a shift is opened while nobody writes one.    *)
Apart(x, z) ==
    /\ x.newShift # None /\ z.newShift # None =>
        x.kind # "open" /\ z.kind # "open" /\ x.newShift.id # z.newShift.id
    /\ x.newSale # None /\ z.newSale # None => x.sale # z.sale
    /\ HasReceipt(x) /\ HasReceipt(z) => x.sale # z.sale

VersionsOK ==
    /\ shiftVersion \in [Shifts -> Nat] /\ saleVersion \in [SaleIds -> Nat]
    /\ receipts \subseteq SaleIds

(* A sale that has been completed has its receipt.                         *)
Taken == {"COMPLETED", "PARTIALLY_REFUNDED", "REFUNDED"}
Receipted == \A s \in SaleIds : sale[s].status \in Taken => s \in receipts

AllKnow ==
    /\ DOMAIN tx = Txns
    /\ \A t \in Running :
          Knows(tx[t], shift, shiftVersion, sale, back, allocated, saleVersion, receipts)

AllApart == \A t, u \in Running : t # u => Apart(tx[t], tx[u])

DInv == IInv /\ VersionsOK /\ Receipted /\ AllKnow /\ AllApart

-----------------------------------------------------------------------------
(* The initial state, and steps that leave the committed rows alone.       *)

LEMMA DrawerInitEstablishes == DrawerInit => DInv
<1> SUFFICES ASSUME DrawerInit PROVE DInv
  OBVIOUS
<1>1. IInv
  BY InitEstablishes DEF DrawerInit
<1>2. VersionsOK
  BY DEF DrawerInit, VersionsOK
<1>3. Receipted
  BY DEF DrawerInit, Init, Receipted, Taken
<1>4. DOMAIN tx = Txns /\ Running = {}
  BY DEF DrawerInit, Running
<1> QED BY <1>1, <1>2, <1>3, <1>4 DEF DInv, AllKnow, AllApart

LEMMA ApartBoth == ASSUME NEW x, NEW z, Apart(x, z) PROVE Apart(z, x)
BY DEF Apart

LEMMA StepPreserves ==
    ASSUME DInv, UNCHANGED state, NEW t \in Txns, NEW y, tx' = [tx EXCEPT ![t] = y],
           y # None =>
             /\ Knows(y, shift, shiftVersion, sale, back, allocated, saleVersion, receipts)
             /\ \A u \in Running : u # t => Apart(y, tx[u])
    PROVE  DInv'
<1>1. /\ shift' = shift /\ shiftVersion' = shiftVersion /\ sale' = sale /\ back' = back
      /\ allocated' = allocated /\ saleVersion' = saleVersion /\ receipts' = receipts
      /\ posted' = posted
  BY DEF state
<1>2. IInv'
  BY <1>1, BooksKeep DEF DInv, vars
<1>3. VersionsOK' /\ Receipted'
  BY <1>1 DEF DInv, VersionsOK, Receipted
<1>4. /\ DOMAIN tx = Txns /\ DOMAIN tx' = Txns /\ tx'[t] = y
      /\ \A u \in Txns : u # t => tx'[u] = tx[u]
  BY DEF DInv, AllKnow
<1>5. \A u \in Running' : u = t \/ u \in Running
  BY <1>4 DEF Running
<1>6. AllKnow'
  <2> SUFFICES ASSUME NEW u \in Running'
               PROVE Knows(tx'[u], shift, shiftVersion, sale, back, allocated, saleVersion, receipts)
    BY <1>1, <1>4 DEF AllKnow
  <2>1. CASE u = t
    BY <1>4, <2>1 DEF Running
  <2>2. CASE u # t
    BY <1>4, <1>5, <2>2 DEF DInv, AllKnow, Running
  <2> QED BY <2>1, <2>2
<1>7. AllApart'
  <2> SUFFICES ASSUME NEW u \in Running', NEW w \in Running', u # w
               PROVE Apart(tx'[u], tx'[w])
    BY DEF AllApart
  <2>1. CASE u = t
    <3>1. y # None /\ w \in Running
      BY <1>4, <1>5, <2>1 DEF Running
    <3> QED BY <1>4, <2>1, <3>1 DEF Running
  <2>2. CASE w = t
    <3>1. y # None /\ u \in Running
      BY <1>4, <1>5, <2>2 DEF Running
    <3>2. Apart(y, tx[u])
      BY <2>2, <3>1
    <3> QED BY <1>4, <2>2, <3>1, <3>2, ApartBoth DEF Running
  <2>3. CASE u # t /\ w # t
    BY <1>4, <1>5, <2>3 DEF DInv, AllApart, Running
  <2> QED BY <2>1, <2>2, <2>3
<1> QED BY <1>2, <1>3, <1>6, <1>7 DEF DInv

LEMMA RollbackPreserves == ASSUME DInv, NEW t \in Txns, Rollback(t) PROVE DInv'
BY StepPreserves DEF Rollback

(* A transaction that holds nothing yet.                                   *)
LEMMA BeginPreserves ==
    ASSUME DInv, NEW t \in Txns, NEW y, Begin(t, y),
           y.newShift = None, y.newSale = None, ~HasReceipt(y),
           Knows(y, shift, shiftVersion, sale, back, allocated, saleVersion, receipts)
    PROVE  DInv'
<1>1. \A u \in Running : Apart(y, tx[u])
  BY DEF Apart
<1> QED BY <1>1, StepPreserves DEF Begin

LEMMA Known ==
    ASSUME DInv, NEW t \in Running
    PROVE  Knows(tx[t], shift, shiftVersion, sale, back, allocated, saleVersion, receipts)
BY DEF DInv, AllKnow

(* A statement by which the transaction goes on without writing.           *)
LEMMA GoOn ==
    ASSUME DInv, NEW t \in Running, NEW y, Continue(t, y),
           y.newShift = tx[t].newShift, y.newSale = tx[t].newSale, y.sale = tx[t].sale,
           y.kind = tx[t].kind, HasReceipt(y) => HasReceipt(tx[t]),
           Knows(y, shift, shiftVersion, sale, back, allocated, saleVersion, receipts)
    PROVE  DInv'
<1>1. ASSUME NEW u \in Running, u # t PROVE Apart(y, tx[u])
  BY <1>1 DEF DInv, AllApart, Apart
<1>2. t \in Txns /\ UNCHANGED state /\ tx' = [tx EXCEPT ![t] = y]
  BY DEF Running, Continue
<1> QED BY <1>1, <1>2, StepPreserves

-----------------------------------------------------------------------------
(* Requests.                                                               *)

LEMMA TransactionFields ==
    ASSUME NEW kind, NEW at
    PROVE  /\ DOMAIN Transaction(kind, at) = Fields
           /\ Transaction(kind, at).kind = kind /\ Transaction(kind, at).at = at
           /\ Transaction(kind, at).sawSale = None /\ Transaction(kind, at).sawShift = None
           /\ Transaction(kind, at).newSale = None /\ Transaction(kind, at).newShift = None
BY DEF Transaction, Fields

LEMMA Typed ==
    ASSUME DInv
    PROVE  /\ shift \in [Shifts -> Row \cup {None}]
           /\ sale \in [SaleIds -> SaleRows]
           /\ back \in [SaleIds -> 0..Units] /\ allocated \in [SaleIds -> 0..Units]
           /\ posted \in [Shifts -> [in : Nat, out : Nat]]
           /\ shiftVersion \in [Shifts -> Nat] /\ saleVersion \in [SaleIds -> Nat]
           /\ receipts \subseteq SaleIds
           /\ DOMAIN tx = Txns
BY DEF DInv, IInv, BooksTypeOK, SaleRows, VersionsOK, AllKnow

(* A row just read is as it was read.                                      *)
LEMMA OpenShiftSeen ==
    ASSUME DInv, NEW h \in Shifts, h \in OpenShifts, NEW x, x.sawShift = ReadShift(h)
    PROVE  SeesShift(x, shift, shiftVersion) /\ x.sawShift.id = h
<1>1. shift[h] # None /\ shift[h] \in Row /\ shift[h].status = "OPEN" /\ shiftVersion[h] \in Nat
  BY Typed DEF OpenShifts
<1>2. /\ x.sawShift \in SeenShifts /\ x.sawShift.id = h /\ x.sawShift.row = shift[h]
      /\ x.sawShift.version = shiftVersion[h]
  BY <1>1 DEF ReadShift, SeenShifts
<1> QED BY <1>1, <1>2 DEF SeesShift

LEMMA SaleSeen ==
    ASSUME DInv, NEW s \in SaleIds, NEW x, x.sale = s, x.sawSale = ReadSale(s),
           ~sale[s].deleted, sale[s].status \in From[x.kind]
    PROVE  SeesSale(x, sale, saleVersion)
<1>1. sale[s] \in SaleRows /\ saleVersion[s] \in Nat
  BY Typed
<1>2. x.sawSale \in SeenSales /\ x.sawSale.row = sale[s] /\ x.sawSale.version = saleVersion[s]
  BY <1>1 DEF ReadSale, SeenSales
<1> QED BY <1>1, <1>2 DEF SeesSale

LEMMA BeginOpenPreserves == ASSUME DInv, NEW t \in Txns, BeginOpen(t) PROVE DInv'
<1> DEFINE y == Transaction("open", "insert")
<1>1. /\ DOMAIN y = Fields /\ y.kind = "open" /\ y.at = "insert"
      /\ y.newSale = None /\ y.newShift = None
  BY TransactionFields
<1>2. Begin(t, y)
  BY DEF BeginOpen
<1> HIDE DEF y
<1>3. Knows(y, shift, shiftVersion, sale, back, allocated, saleVersion, receipts)
  BY <1>1 DEF Knows, OpenKnows, ShiftKinds, PlainKinds
<1>4. ~HasReceipt(y)
  BY <1>1 DEF HasReceipt
<1> QED BY <1>1, <1>2, <1>3, <1>4, BeginPreserves

LEMMA BeginOnShiftPreserves ==
    ASSUME DInv, NEW t \in Txns, NEW kind \in ShiftKinds, BeginOnShift(t, kind)
    PROVE  DInv'
<1> DEFINE at == IF kind = "close" THEN "sum" ELSE "shift"
<1>1. PICK h \in OpenShifts :
        Begin(t, [Transaction(kind, at) EXCEPT !.sawShift = ReadShift(h)])
  BY DEF BeginOnShift
<1> DEFINE y == [Transaction(kind, at) EXCEPT !.sawShift = ReadShift(h)]
<1>2. at = IF kind = "close" THEN "sum" ELSE "shift"
  OBVIOUS
<1> HIDE DEF at
<1>3. /\ DOMAIN y = Fields /\ y.kind = kind /\ y.at = at
      /\ y.newSale = None /\ y.newShift = None /\ y.sawShift = ReadShift(h)
  BY TransactionFields DEF Fields
<1> HIDE DEF y
<1>4. SeesShift(y, shift, shiftVersion)
  BY <1>3, OpenShiftSeen DEF OpenShifts
<1>5. Knows(y, shift, shiftVersion, sale, back, allocated, saleVersion, receipts)
  BY <1>2, <1>3, <1>4 DEF Knows, ShiftKnows, ShiftKinds, PlainKinds
<1>6. ~HasReceipt(y)
  BY <1>3 DEF HasReceipt, ShiftKinds
<1> QED BY <1>1, <1>3, <1>5, <1>6, BeginPreserves DEF y

LEMMA BeginOnSalePreserves ==
    ASSUME DInv, NEW t \in Txns, NEW kind \in DOMAIN From, NEW s \in SaleIds,
           BeginOnSale(t, kind, s)
    PROVE  DInv'
<1> DEFINE at == FirstStatement(kind)
           y == [Transaction(kind, at) EXCEPT !.sale = s, !.sawSale = ReadSale(s)]
<1>1. /\ ~sale[s].deleted /\ sale[s].status \in From[kind]
      /\ Begin(t, y)
  BY DEF BeginOnSale
<1>2. kind \in SaleKinds
  BY DEF From, SaleKinds, PlainKinds
<1>3. /\ kind = "complete" => at = "receipt"
      /\ kind = "refund" => at = "facts"
      /\ kind \in PlainKinds => at = "sale"
  BY DEF FirstStatement, PlainKinds
<1> HIDE DEF at
<1>4. /\ DOMAIN y = Fields /\ y.kind = kind /\ y.at = at /\ y.sale = s
      /\ y.newSale = None /\ y.newShift = None /\ y.sawShift = None /\ y.sawSale = ReadSale(s)
  BY TransactionFields DEF Fields
<1> HIDE DEF y
<1>5. SeesSale(y, sale, saleVersion)
  BY <1>1, <1>4, SaleSeen
<1>6. Knows(y, shift, shiftVersion, sale, back, allocated, saleVersion, receipts)
  BY <1>2, <1>3, <1>4, <1>5 DEF Knows, PlainKnows, CompleteKnows, RefundKnows, ShiftKinds,
     PlainKinds, SaleKinds
<1>7. ~HasReceipt(y)
  BY <1>3, <1>4 DEF HasReceipt
<1> QED BY <1>1, <1>4, <1>6, <1>7, BeginPreserves

-----------------------------------------------------------------------------
(* Statements that read.                                                   *)

(* Which kinds of transaction get to a statement.                          *)
LEMMA KindsAt ==
    ASSUME NEW x, NEW sh, NEW sv, NEW sa, NEW ba, NEW al, NEW va, NEW re,
           Knows(x, sh, sv, sa, ba, al, va, re)
    PROVE  /\ x.at = "sum" => x.kind = "close"
           /\ x.at \in {"receipt", "drawer"} => x.kind = "complete"
           /\ x.at \in {"facts", "number", "linked"} => x.kind = "refund"
           /\ x.at = "insert" => x.kind = "open"
           /\ x.at = "shift" => x.kind \in ShiftKinds \cup {"complete", "refund"}
           /\ x.at = "sale" => x.kind \in SaleKinds
<1>1. CASE x.kind = "open"
  BY <1>1 DEF Knows, OpenKnows
<1>2. CASE x.kind \in ShiftKinds
  BY <1>2 DEF Knows, ShiftKnows, ShiftKinds
<1>3. CASE x.kind \in PlainKinds
  BY <1>3 DEF Knows, PlainKnows, SaleKinds
<1>4. CASE x.kind = "complete"
  BY <1>4 DEF Knows, CompleteKnows, SaleKinds
<1>5. CASE x.kind = "refund"
  BY <1>5 DEF Knows, RefundKnows, SaleKinds
<1> QED BY <1>1, <1>2, <1>3, <1>4, <1>5 DEF Knows, SaleKinds

LEMMA SumAllocationsPreserves == ASSUME DInv, NEW t \in Txns, SumAllocations(t) PROVE DInv'
<1> DEFINE x == tx[t]
           sums == [s \in SaleIds |-> IF sale[s].link = x.sawShift.id THEN allocated[s] ELSE 0]
           y == [x EXCEPT !.netted = sums, !.at = "shift"]
<1>1. /\ t \in Running /\ x.at = "sum" /\ DOMAIN x = Fields /\ x.kind = "close"
      /\ ShiftKnows(x, shift, shiftVersion, sale, allocated)
  BY Known, KindsAt DEF SumAllocations, At, Knows, ShiftKinds
<1>2. Continue(t, y)
  BY DEF SumAllocations
<1>3. /\ sums \in [SaleIds -> 0..Units]
      /\ \A s \in SaleIds : sums[s] <= (IF sale[s].link = x.sawShift.id THEN allocated[s] ELSE 0)
  <2>1. 0 \in 0..Units /\ Units \in Nat
    BY BooksAssumption
  <2> QED BY <2>1, Typed
<1> HIDE DEF sums
<1>4. /\ DOMAIN y = Fields /\ y.kind = "close" /\ y.at = "shift" /\ y.netted = sums
      /\ y.sale = x.sale /\ y.newSale = x.newSale /\ y.newShift = x.newShift
      /\ y.sawShift = x.sawShift
  BY <1>1 DEF Fields
<1> HIDE DEF y
<1>5. SeesShift(y, shift, shiftVersion)
  BY <1>1, <1>4 DEF ShiftKnows, SeesShift
<1>6. Nets(y, sale, allocated)
  BY <1>3, <1>4 DEF Nets
<1>7. Knows(y, shift, shiftVersion, sale, back, allocated, saleVersion, receipts)
  BY <1>1, <1>4, <1>5, <1>6 DEF Knows, ShiftKnows, ShiftKinds, PlainKinds, HoldsShift
<1> QED BY <1>1, <1>2, <1>4, <1>7, GoOn DEF HasReceipt

LEMMA FindDrawerPreserves == ASSUME DInv, NEW t \in Txns, FindDrawer(t) PROVE DInv'
<1> DEFINE x == tx[t]
<1>1. /\ t \in Running /\ x.at = "drawer" /\ DOMAIN x = Fields /\ x.kind = "complete"
      /\ CompleteKnows(x, shift, shiftVersion, sale, saleVersion, receipts)
  BY Known, KindsAt DEF FindDrawer, At, Knows
<1>2. /\ x.sawShift = None /\ x.newShift = None /\ x.newSale = None /\ x.sale \notin receipts
      /\ SeesSale(x, sale, saleVersion)
  BY <1>1 DEF CompleteKnows
<1>3. CASE OpenShifts = {}
  <2> DEFINE y == [x EXCEPT !.at = "sale"]
  <2>1. Continue(t, y)
    BY <1>3 DEF FindDrawer
  <2>2. /\ DOMAIN y = Fields /\ y.kind = "complete" /\ y.at = "sale" /\ y.sale = x.sale
        /\ y.newSale = None /\ y.newShift = None /\ y.sawShift = None /\ y.sawSale = x.sawSale
    BY <1>1, <1>2 DEF Fields
  <2> HIDE DEF y
  <2>3. SeesSale(y, sale, saleVersion)
    BY <1>1, <1>2, <2>2 DEF SeesSale
  <2>4. Knows(y, shift, shiftVersion, sale, back, allocated, saleVersion, receipts)
    BY <1>2, <2>2, <2>3 DEF Knows, CompleteKnows, ShiftKinds, PlainKinds, SaleKinds
  <2> QED BY <1>1, <1>2, <2>1, <2>2, <2>4, GoOn DEF HasReceipt
<1>4. CASE OpenShifts # {}
  <2>1. PICK h \in OpenShifts : Continue(t, [x EXCEPT !.sawShift = ReadShift(h), !.at = "shift"])
    BY <1>4 DEF FindDrawer
  <2> DEFINE y == [x EXCEPT !.sawShift = ReadShift(h), !.at = "shift"]
  <2>2. /\ DOMAIN y = Fields /\ y.kind = "complete" /\ y.at = "shift" /\ y.sale = x.sale
        /\ y.newSale = None /\ y.newShift = None /\ y.sawShift = ReadShift(h)
        /\ y.sawSale = x.sawSale
    BY <1>1, <1>2 DEF Fields
  <2> HIDE DEF y
  <2>3. SeesSale(y, sale, saleVersion)
    BY <1>1, <1>2, <2>2 DEF SeesSale
  <2>4. SeesShift(y, shift, shiftVersion)
    BY <2>2, OpenShiftSeen DEF OpenShifts
  <2>5. Knows(y, shift, shiftVersion, sale, back, allocated, saleVersion, receipts)
    BY <1>2, <2>2, <2>3, <2>4 DEF Knows, CompleteKnows, ShiftKinds, PlainKinds, SaleKinds
  <2> QED BY <1>1, <1>2, <2>1, <2>2, <2>5, GoOn DEF HasReceipt, y
<1> QED BY <1>3, <1>4

LEMMA ReadFactsPreserves == ASSUME DInv, NEW t \in Txns, ReadFacts(t) PROVE DInv'
<1> DEFINE x == tx[t]
<1>1. /\ t \in Running /\ x.at = "facts" /\ DOMAIN x = Fields /\ x.kind = "refund"
      /\ RefundKnows(x, shift, shiftVersion, sale, back, saleVersion)
  BY Known, KindsAt DEF ReadFacts, At, Knows
<1>2. PICK n \in 1..Units :
        IF back[x.sale] + n <= Units
        THEN Continue(t, [x EXCEPT !.prior = back[x.sale], !.qty = n, !.at = "number"])
        ELSE Rollback(t)
  BY DEF ReadFacts
<1>3. CASE back[x.sale] + n <= Units
  <2> DEFINE y == [x EXCEPT !.prior = back[x.sale], !.qty = n, !.at = "number"]
  <2>1. Continue(t, y)
    BY <1>2, <1>3
  <2>2. /\ DOMAIN y = Fields /\ y.kind = "refund" /\ y.at = "number" /\ y.sale = x.sale
        /\ y.newSale = x.newSale /\ y.newShift = x.newShift /\ y.sawSale = x.sawSale
        /\ y.prior = back[x.sale] /\ y.qty = n
    BY <1>1 DEF Fields
  <2> HIDE DEF y
  <2>3. x.sale \in SaleIds /\ back[x.sale] \in Nat
    BY <1>1, Typed, BooksAssumption DEF RefundKnows, SeesSale
  <2>4. Fits(y, back, saleVersion)
    BY <1>3, <2>2, <2>3 DEF Fits
  <2>5. SeesSale(y, sale, saleVersion)
    BY <1>1, <2>2 DEF SeesSale, RefundKnows
  <2>6. Knows(y, shift, shiftVersion, sale, back, allocated, saleVersion, receipts)
    BY <1>1, <2>2, <2>4, <2>5 DEF Knows, RefundKnows, ShiftKinds, PlainKinds, SaleKinds
  <2> QED BY <1>1, <2>1, <2>2, <2>6, GoOn DEF HasReceipt
<1>4. CASE ~(back[x.sale] + n <= Units)
  BY <1>2, <1>4, RollbackPreserves
<1> QED BY <1>3, <1>4

LEMMA FindLinkedShiftPreserves == ASSUME DInv, NEW t \in Txns, FindLinkedShift(t) PROVE DInv'
<1> DEFINE x == tx[t]
           h == x.sawSale.row.link
<1>1. /\ t \in Running /\ x.at = "linked" /\ DOMAIN x = Fields /\ x.kind = "refund"
      /\ RefundKnows(x, shift, shiftVersion, sale, back, saleVersion)
  BY Known, KindsAt DEF FindLinkedShift, At, Knows
<1>2. /\ x.newShift = None /\ SingleShot(x) /\ HoldsSale(x, saleVersion)
      /\ SeesSale(x, sale, saleVersion) /\ Fits(x, back, saleVersion)
  BY <1>1 DEF RefundKnows
<1>3. /\ h \in Shifts \cup {None} /\ x.sale \in SaleIds /\ sale[x.sale].link = h
      /\ h # None => h \in Shifts /\ shift[h] # None
  <2>1. x.sale \in SaleIds /\ sale[x.sale] = x.sawSale.row /\ sale[x.sale] \in SaleRows
    BY <1>2, Typed DEF HoldsSale, SeesSale
  <2> QED BY <2>1 DEF SaleRows, DInv, IInv, LinksExist
<1>4. CASE h # None /\ shift[h].status = "OPEN"
  <2> DEFINE y == [x EXCEPT !.sawShift = ReadShift(h), !.at = "shift"]
  <2>1. Continue(t, y)
    BY <1>4 DEF FindLinkedShift
  <2>2. /\ DOMAIN y = Fields /\ y.kind = "refund" /\ y.at = "shift" /\ y.sale = x.sale
        /\ y.newSale = x.newSale /\ y.newShift = None /\ y.sawShift = ReadShift(h)
        /\ y.sawSale = x.sawSale /\ y.prior = x.prior /\ y.qty = x.qty
    BY <1>1, <1>2 DEF Fields
  <2> HIDE DEF y
  <2>3. SeesShift(y, shift, shiftVersion) /\ y.sawShift.id = h
    BY <1>3, <1>4, <2>2, OpenShiftSeen DEF OpenShifts
  <2>4. SeesSale(y, sale, saleVersion) /\ Fits(y, back, saleVersion) /\ SingleShot(y)
    BY <1>1, <1>2, <2>2 DEF SeesSale, Fits, SingleShot, WholeSale
  <2>5. HoldsSale(y, saleVersion)
    BY <1>1, <1>2, <2>2 DEF HoldsSale, SaleRow, WholeSale
  <2>6. Knows(y, shift, shiftVersion, sale, back, allocated, saleVersion, receipts)
    BY <2>2, <2>3, <2>4, <2>5 DEF Knows, RefundKnows, ShiftKinds, PlainKinds, SaleKinds
  <2> QED BY <1>1, <1>2, <2>1, <2>2, <2>6, GoOn DEF HasReceipt
<1>5. CASE ~(h # None /\ shift[h].status = "OPEN")
  <2> DEFINE y == [x EXCEPT !.at = "commit"]
  <2>1. Continue(t, y)
    BY <1>5 DEF FindLinkedShift
  <2>2. /\ DOMAIN y = Fields /\ y.kind = "refund" /\ y.at = "commit" /\ y.sale = x.sale
        /\ y.newSale = x.newSale /\ y.newShift = None /\ y.sawSale = x.sawSale
        /\ y.prior = x.prior /\ y.qty = x.qty
    BY <1>1, <1>2 DEF Fields
  <2> HIDE DEF y
  <2>3. \A g \in Shifts : g = y.sawSale.row.link => shift[g] # None /\ shift[g].status # "OPEN"
    BY <1>3, <1>5, <2>2, BooksAssumption
  <2>4. SeesSale(y, sale, saleVersion) /\ Fits(y, back, saleVersion) /\ SingleShot(y)
    BY <1>1, <1>2, <2>2 DEF SeesSale, Fits, SingleShot, WholeSale
  <2>5. HoldsSale(y, saleVersion)
    BY <1>1, <1>2, <2>2 DEF HoldsSale, SaleRow, WholeSale
  <2>6. Knows(y, shift, shiftVersion, sale, back, allocated, saleVersion, receipts)
    BY <2>2, <2>3, <2>4, <2>5 DEF Knows, RefundKnows, ShiftKinds, PlainKinds, SaleKinds
  <2> QED BY <1>1, <1>2, <2>1, <2>2, <2>6, GoOn DEF HasReceipt
<1> QED BY <1>4, <1>5

-----------------------------------------------------------------------------
(* Statements that write, or take a lock.                                  *)

(* A statement by which the transaction goes on holding one thing more.    *)
LEMMA GoOnHolding ==
    ASSUME DInv, NEW t \in Running, NEW y, Continue(t, y), y.sale = tx[t].sale,
           y.kind = tx[t].kind,
           \A u \in Running : u # t =>
             /\ y.newShift = tx[t].newShift \/ tx[u].newShift = None
                  \/ (y.kind # "open" /\ tx[u].kind # "open" /\ y.newShift.id # tx[u].newShift.id)
             /\ y.newSale = tx[t].newSale \/ tx[u].newSale = None \/ y.sale # tx[u].sale
             /\ HasReceipt(y) => HasReceipt(tx[t]) \/ ~HasReceipt(tx[u]) \/ y.sale # tx[u].sale,
           Knows(y, shift, shiftVersion, sale, back, allocated, saleVersion, receipts)
    PROVE  DInv'
<1>1. ASSUME NEW u \in Running, u # t PROVE Apart(y, tx[u])
  <2>1. Apart(tx[t], tx[u])
    BY <1>1 DEF DInv, AllApart
  <2> QED BY <1>1, <2>1 DEF Apart
<1>2. t \in Txns /\ UNCHANGED state /\ tx' = [tx EXCEPT ![t] = y]
  BY DEF Running, Continue
<1> QED BY <1>1, <1>2, StepPreserves

LEMMA InsertShiftPreserves == ASSUME DInv, NEW t \in Txns, InsertShift(t) PROVE DInv'
<1> DEFINE x == tx[t]
<1>1. /\ t \in Running /\ x.at = "insert" /\ DOMAIN x = Fields /\ x.kind = "open"
      /\ OpenKnows(x, shift)
  BY Known, KindsAt DEF InsertShift, Runs, At, Knows
<1>2. \A u \in Running : u # t => tx[u].newShift = None
  BY <1>1 DEF InsertShift, Runs, Blockers, WroteShift
<1>3. CASE OpenShifts # {}
  BY <1>3, RollbackPreserves DEF InsertShift
<1>4. CASE OpenShifts = {}
  <2>1. PICK h \in Shifts :
          /\ shift[h] = None
          /\ Continue(t, [x EXCEPT !.newShift = [id |-> h, row |-> NewShift], !.at = "commit"])
    BY <1>4 DEF InsertShift
  <2> DEFINE y == [x EXCEPT !.newShift = [id |-> h, row |-> NewShift], !.at = "commit"]
  <2>2. /\ DOMAIN y = Fields /\ y.kind = "open" /\ y.at = "commit" /\ y.sale = x.sale
        /\ y.newSale = x.newSale /\ y.newShift = [id |-> h, row |-> NewShift]
    BY <1>1 DEF Fields
  <2>7. Continue(t, y)
    BY <2>1
  <2> HIDE DEF y
  <2>3. y.newShift # None
    <3>1. NewShift \in Row
      BY DEF NewShift, Row
    <3>2. [id |-> h, row |-> NewShift] \in [id : Shifts, row : Row]
      BY <3>1
    <3> QED BY <2>2, <3>2, NoneAssumption
  <2>4. NoneOpen(shift)
    BY <1>4 DEF NoneOpen, OpenShifts
  <2>5. Knows(y, shift, shiftVersion, sale, back, allocated, saleVersion, receipts)
    BY <1>1, <2>1, <2>2, <2>3, <2>4 DEF Knows, OpenKnows, ShiftKinds, PlainKinds
  <2>6. ~HasReceipt(y)
    BY <2>2 DEF HasReceipt
  <2> QED BY <1>1, <1>2, <2>2, <2>5, <2>6, <2>7, GoOnHolding
<1> QED BY <1>3, <1>4

LEMMA InsertReceiptPreserves == ASSUME DInv, NEW t \in Txns, InsertReceipt(t) PROVE DInv'
<1> DEFINE x == tx[t]
<1>1. /\ t \in Running /\ x.at = "receipt" /\ DOMAIN x = Fields /\ x.kind = "complete"
      /\ CompleteKnows(x, shift, shiftVersion, sale, saleVersion, receipts)
  BY Known, KindsAt DEF InsertReceipt, Runs, At, Knows
<1>2. \A u \in Running : u # t => ~HasReceipt(tx[u]) \/ tx[u].sale # x.sale
  BY <1>1 DEF InsertReceipt, Runs, Blockers, WroteReceipt, HasReceipt
<1>3. CASE x.sale \in receipts
  BY <1>3, RollbackPreserves DEF InsertReceipt
<1>4. CASE x.sale \notin receipts
  <2> DEFINE y == [x EXCEPT !.at = "drawer"]
  <2>1. Continue(t, y)
    BY <1>4 DEF InsertReceipt
  <2>2. /\ DOMAIN y = Fields /\ y.kind = "complete" /\ y.at = "drawer" /\ y.sale = x.sale
        /\ y.newSale = x.newSale /\ y.newShift = x.newShift /\ y.sawSale = x.sawSale
        /\ y.sawShift = x.sawShift
    BY <1>1 DEF Fields
  <2> HIDE DEF y
  <2>3. SeesSale(y, sale, saleVersion)
    BY <1>1, <2>2 DEF SeesSale, CompleteKnows
  <2>4. Knows(y, shift, shiftVersion, sale, back, allocated, saleVersion, receipts)
    BY <1>1, <1>4, <2>2, <2>3 DEF Knows, CompleteKnows, ShiftKinds, PlainKinds, SaleKinds
  <2> QED BY <1>1, <1>2, <2>1, <2>2, <2>4, GoOnHolding
<1> QED BY <1>3, <1>4

LEMMA TakeNumberPreserves == ASSUME DInv, NEW t \in Txns, TakeNumber(t) PROVE DInv'
<1> DEFINE x == tx[t]
           y == [x EXCEPT !.at = "sale"]
<1>1. /\ t \in Running /\ x.at = "number" /\ DOMAIN x = Fields /\ x.kind = "refund"
      /\ RefundKnows(x, shift, shiftVersion, sale, back, saleVersion)
  BY Known, KindsAt DEF TakeNumber, Runs, At, Knows
<1>2. Continue(t, y)
  BY DEF TakeNumber
<1>3. /\ DOMAIN y = Fields /\ y.kind = "refund" /\ y.at = "sale" /\ y.sale = x.sale
      /\ y.newSale = x.newSale /\ y.newShift = x.newShift /\ y.sawSale = x.sawSale
      /\ y.prior = x.prior /\ y.qty = x.qty
  BY <1>1 DEF Fields
<1> HIDE DEF y
<1>4. SeesSale(y, sale, saleVersion) /\ Fits(y, back, saleVersion)
  BY <1>1, <1>3 DEF SeesSale, Fits, RefundKnows
<1>5. Knows(y, shift, shiftVersion, sale, back, allocated, saleVersion, receipts)
  BY <1>1, <1>3, <1>4 DEF Knows, RefundKnows, ShiftKinds, PlainKinds, SaleKinds
<1> QED BY <1>1, <1>2, <1>3, <1>5, GoOn DEF HasReceipt

(* The rows written.                                                       *)
LEMMA ShiftRows ==
    ASSUME NEW x
    PROVE  /\ x.kind = "close" =>
                ShiftRow(x) = [x.sawShift.row EXCEPT !.status = "CLOSED", !.netted = x.netted]
           /\ x.kind = "cashIn" =>
                ShiftRow(x) = [x.sawShift.row EXCEPT !.in = x.sawShift.row.in + 1]
           /\ x.kind = "cashOut" =>
                ShiftRow(x) = [x.sawShift.row EXCEPT !.out = x.sawShift.row.out + 1]
           /\ x.kind = "complete" =>
                ShiftRow(x) = [x.sawShift.row EXCEPT !.sales = x.sawShift.row.sales + 1]
           /\ x.kind = "refund" =>
                ShiftRow(x) = [x.sawShift.row EXCEPT !.sales = x.sawShift.row.sales - 1]
BY DEF ShiftRow

LEMMA ShiftRowTyped ==
    ASSUME NEW x, x.sawShift.row \in Row, x.kind \in ShiftKinds \cup {"complete", "refund"},
           x.kind = "close" => x.netted \in [SaleIds -> 0..Units],
           x.kind = "refund" => x.sawShift.row.sales - 1 \in Nat
    PROVE  ShiftRow(x) \in Row
<1> DEFINE row == x.sawShift.row
<1>1. row \in Row
  OBVIOUS
<1> HIDE DEF row
<1>2. CASE x.kind = "close"
  <2>1. [row EXCEPT !.status = "CLOSED", !.netted = x.netted] \in Row
    BY <1>1, <1>2 DEF Row
  <2> QED BY <1>2, <2>1, ShiftRows DEF row
<1>3. CASE x.kind = "cashIn"
  <2>1. [row EXCEPT !.in = row.in + 1] \in Row
    BY <1>1 DEF Row
  <2> QED BY <1>3, <2>1, ShiftRows DEF row
<1>4. CASE x.kind = "cashOut"
  <2>1. [row EXCEPT !.out = row.out + 1] \in Row
    BY <1>1 DEF Row
  <2> QED BY <1>4, <2>1, ShiftRows DEF row
<1>5. CASE x.kind = "complete"
  <2>1. [row EXCEPT !.sales = row.sales + 1] \in Row
    BY <1>1 DEF Row
  <2> QED BY <1>5, <2>1, ShiftRows DEF row
<1>6. CASE x.kind = "refund"
  <2>1. row.sales - 1 \in Nat
    BY <1>6 DEF row
  <2>2. [row EXCEPT !.sales = row.sales - 1] \in Row
    BY <1>1, <2>1 DEF Row
  <2> QED BY <1>6, <2>2, ShiftRows DEF row
<1> QED BY <1>2, <1>3, <1>4, <1>5, <1>6 DEF ShiftKinds

(* Another statement of x writes the same row.                             *)
LEMMA SameShiftRow ==
    ASSUME NEW x, NEW y, x.kind \in ShiftKinds \cup {"complete", "refund"}, y.kind = x.kind,
           y.sawShift = x.sawShift, y.netted = x.netted
    PROVE  ShiftRow(y) = ShiftRow(x)
BY DEF ShiftRow, ShiftKinds

(* The shift of a completed sale, if open, counts it.                      *)
LEMMA LinkedIsCounted ==
    ASSUME DInv, NEW s \in SaleIds, sale[s].status = "COMPLETED", NEW h \in Shifts,
           sale[s].link = h, shift[h] # None, shift[h].status = "OPEN"
    PROVE  shift[h].sales - 1 \in Nat
<1>1. s \in Kept(h)
  BY DEF Kept, Linked, TakenWhole
<1>2. shift[h].sales = Cardinality(Kept(h))
  BY Reconciles DEF DInv, IInv
<1>3. Cardinality(Kept(h)) \in Nat /\ Cardinality(Kept(h)) # 0
  BY <1>1, FiniteSales, FS_EmptySet
<1> QED BY <1>2, <1>3

LEMMA UpdateShiftPreserves == ASSUME DInv, NEW t \in Txns, UpdateShift(t) PROVE DInv'
<1> DEFINE x == tx[t]
           h == x.sawShift.id
<1>1. /\ t \in Running /\ x.at = "shift" /\ DOMAIN x = Fields
      /\ x.kind \in ShiftKinds \cup {"complete", "refund"}
      /\ Knows(x, shift, shiftVersion, sale, back, allocated, saleVersion, receipts)
  BY Known, KindsAt DEF UpdateShift, Runs, At, Knows
<1>2. CASE ~ShiftUnchanged(x)
  BY <1>2, RollbackPreserves DEF UpdateShift
<1>3. CASE ShiftUnchanged(x)
  <2> DEFINE at == IF x.kind = "complete" THEN "sale" ELSE "commit"
             new == [id |-> h, row |-> ShiftRow(x)]
             y == [x EXCEPT !.newShift = new, !.at = at]
  <2>1. Continue(t, y)
    BY <1>3 DEF UpdateShift
  <2>2. SeesShift(x, shift, shiftVersion)
    BY <1>1 DEF Knows, ShiftKnows, CompleteKnows, RefundKnows
  <2>3. /\ h \in Shifts /\ x.sawShift.row \in Row /\ x.sawShift.version = shiftVersion[h]
        /\ shift[h] = x.sawShift.row /\ shift[h] # None /\ shift[h].status = "OPEN"
    BY <1>3, <2>2 DEF SeesShift, SeenShifts, ShiftUnchanged
  <2>4. ShiftRow(x) \in Row
    <3>1. x.kind = "close" => x.netted \in [SaleIds -> 0..Units]
      BY <1>1 DEF Knows, ShiftKnows, ShiftKinds, Nets
    <3>2. ASSUME x.kind = "refund" PROVE x.sawShift.row.sales - 1 \in Nat
      <4>1. RefundKnows(x, shift, shiftVersion, sale, back, saleVersion)
        BY <1>1, <3>2 DEF Knows
      <4>2. /\ x.sale \in SaleIds /\ sale[x.sale] = x.sawSale.row
            /\ sale[x.sale].status = "COMPLETED" /\ sale[x.sale].link = h
        BY <1>1, <4>1 DEF RefundKnows, SeesSale, HoldsSale, SingleShot
      <4> QED BY <2>3, <4>2, LinkedIsCounted
    <3> QED BY <1>1, <2>3, <3>1, <3>2, ShiftRowTyped
  <2>5. new # None /\ new.id = h /\ new.row = ShiftRow(x)
    <3>1. new \in [id : Shifts, row : Row]
      BY <2>3, <2>4
    <3> QED BY <3>1, NoneAssumption
  <2>6. at = IF x.kind = "complete" THEN "sale" ELSE "commit"
    OBVIOUS
  <2> HIDE DEF at, new
  <2>7. /\ DOMAIN y = Fields /\ y.kind = x.kind /\ y.at = at /\ y.sale = x.sale
        /\ y.newSale = x.newSale /\ y.newShift = new /\ y.sawSale = x.sawSale
        /\ y.sawShift = x.sawShift /\ y.prior = x.prior /\ y.qty = x.qty /\ y.netted = x.netted
    BY <1>1 DEF Fields
  <2> HIDE DEF y
  <2>8. ShiftRow(y) = ShiftRow(x)
    BY <1>1, <2>7, SameShiftRow
  <2>9. HoldsShift(y, shift, shiftVersion)
    BY <2>2, <2>3, <2>4, <2>5, <2>7, <2>8 DEF HoldsShift, SeesShift
  <2>10. Knows(y, shift, shiftVersion, sale, back, allocated, saleVersion, receipts)
    <3>1. CASE x.kind \in ShiftKinds
      <4>1. ShiftKnows(x, shift, shiftVersion, sale, allocated)
        BY <1>1, <3>1 DEF Knows
      <4>2. x.kind = "close" => Nets(y, sale, allocated)
        BY <1>1, <2>7, <4>1 DEF ShiftKnows, Nets
      <4> QED BY <2>6, <2>7, <2>9, <3>1, <4>1, <4>2
              DEF Knows, ShiftKnows, HoldsShift, ShiftKinds, PlainKinds
    <3>2. CASE x.kind = "complete"
      <4>1. CompleteKnows(x, shift, shiftVersion, sale, saleVersion, receipts)
        BY <1>1, <3>2 DEF Knows
      <4>2. SeesSale(y, sale, saleVersion)
        BY <2>7, <4>1 DEF CompleteKnows, SeesSale
      <4> QED BY <1>1, <2>6, <2>7, <2>9, <3>2, <4>1, <4>2
              DEF Knows, CompleteKnows, ShiftKinds, PlainKinds, SaleKinds
    <3>3. CASE x.kind = "refund"
      <4>1. RefundKnows(x, shift, shiftVersion, sale, back, saleVersion)
        BY <1>1, <3>3 DEF Knows
      <4>2. /\ SeesSale(y, sale, saleVersion) /\ Fits(y, back, saleVersion)
            /\ SingleShot(y)
        BY <1>1, <2>7, <4>1 DEF RefundKnows, SeesSale, Fits, SingleShot, WholeSale
      <4>3. HoldsSale(y, saleVersion)
        BY <1>1, <2>7, <3>3, <4>1 DEF RefundKnows, HoldsSale, SaleRow, WholeSale
      <4> QED BY <1>1, <2>5, <2>6, <2>7, <2>9, <3>3, <4>1, <4>2, <4>3
              DEF Knows, RefundKnows, ShiftKinds, PlainKinds, SaleKinds
    <3> QED BY <1>1, <3>1, <3>2, <3>3
  <2>11. ASSUME NEW u \in Running, u # t, tx[u].newShift # None
         PROVE  tx[u].kind # "open" /\ new.id # tx[u].newShift.id
    <3>1. tx[u].newShift.id # h
      BY <1>1, <2>11 DEF UpdateShift, Runs, Blockers, WroteShift
    <3>2. tx[u].kind # "open"
      <4>1. tx[u].kind = "open" => OpenKnows(tx[u], shift)
        BY Known DEF Knows
      <4> QED BY <2>3, <2>11, <4>1 DEF OpenKnows, NoneOpen
    <3> QED BY <2>5, <3>1, <3>2
  <2>12. HasReceipt(y) => HasReceipt(x)
    BY <1>1, <2>7 DEF HasReceipt
  <2>13. x.kind # "open"
    BY <1>1 DEF ShiftKinds
  <2> QED BY <1>1, <2>1, <2>7, <2>10, <2>11, <2>12, <2>13, GoOnHolding
<1> QED BY <1>2, <1>3

LEMMA SaleRowsWritten ==
    ASSUME NEW x
    PROVE  /\ x.kind = "complete" => SaleRow(x) =
                [x.sawSale.row EXCEPT !.status = "COMPLETED",
                                      !.link = IF x.sawShift = None THEN None ELSE x.sawShift.id]
           /\ x.kind = "cancel" => SaleRow(x) = [x.sawSale.row EXCEPT !.status = "CANCELLED"]
           /\ x.kind = "hold" => SaleRow(x) = [x.sawSale.row EXCEPT !.status = "PENDING"]
           /\ x.kind = "edit" => SaleRow(x) = x.sawSale.row
           /\ x.kind = "delete" => SaleRow(x) = [x.sawSale.row EXCEPT !.deleted = TRUE]
           /\ x.kind = "refund" => SaleRow(x) =
                [x.sawSale.row EXCEPT !.status = IF WholeSale(x) THEN "REFUNDED"
                                                 ELSE "PARTIALLY_REFUNDED"]
BY DEF SaleRow

LEMMA SaleRowTyped ==
    ASSUME NEW x, x.sawSale.row \in SaleRows, x.kind \in SaleKinds,
           x.kind = "complete" => x.sawShift = None \/ x.sawShift.id \in Shifts
    PROVE  SaleRow(x) \in SaleRows /\ SaleRow(x) # None
<1> DEFINE row == x.sawSale.row
           link == IF x.sawShift = None THEN None ELSE x.sawShift.id
           status == IF WholeSale(x) THEN "REFUNDED" ELSE "PARTIALLY_REFUNDED"
<1>1. row \in SaleRows /\ (x.kind = "complete" => link \in Shifts \cup {None}) /\ status \in Statuses
  BY DEF Statuses
<1>2. /\ x.kind = "complete" => SaleRow(x) = [row EXCEPT !.status = "COMPLETED", !.link = link]
      /\ x.kind = "cancel" => SaleRow(x) = [row EXCEPT !.status = "CANCELLED"]
      /\ x.kind = "hold" => SaleRow(x) = [row EXCEPT !.status = "PENDING"]
      /\ x.kind = "edit" => SaleRow(x) = row
      /\ x.kind = "delete" => SaleRow(x) = [row EXCEPT !.deleted = TRUE]
      /\ x.kind = "refund" => SaleRow(x) = [row EXCEPT !.status = status]
  BY SaleRowsWritten
<1> HIDE DEF row, link, status
<1>3. SaleRow(x) \in SaleRows
  BY <1>1, <1>2 DEF SaleKinds, PlainKinds, SaleRows, Statuses
<1> QED BY <1>3, NoneAssumption DEF SaleRows

LEMMA SameSaleRow ==
    ASSUME NEW x, NEW y, x.kind \in SaleKinds, y.kind = x.kind, y.sawSale = x.sawSale,
           y.sawShift = x.sawShift, y.prior = x.prior, y.qty = x.qty
    PROVE  SaleRow(y) = SaleRow(x)
BY DEF SaleRow, SaleKinds, PlainKinds, WholeSale

LEMMA UpdateSalePreserves == ASSUME DInv, NEW t \in Txns, UpdateSale(t) PROVE DInv'
<1> DEFINE x == tx[t]
           s == x.sale
<1>1. /\ t \in Running /\ x.at = "sale" /\ DOMAIN x = Fields /\ x.kind \in SaleKinds
      /\ Knows(x, shift, shiftVersion, sale, back, allocated, saleVersion, receipts)
  BY Known, KindsAt DEF UpdateSale, Runs, At, Knows
<1>2. CASE ~SaleUnchanged(x)
  BY <1>2, RollbackPreserves DEF UpdateSale
<1>3. CASE SaleUnchanged(x)
  <2> DEFINE at == IF x.kind = "refund" /\ SingleShot(x) THEN "linked" ELSE "commit"
             y == [x EXCEPT !.newSale = SaleRow(x), !.at = at]
  <2>1. Continue(t, y)
    BY <1>3 DEF UpdateSale
  <2>2. SeesSale(x, sale, saleVersion)
    BY <1>1 DEF Knows, SaleKinds, PlainKnows, CompleteKnows, RefundKnows
  <2>3. x.sawSale.version = saleVersion[s]
    BY <1>3 DEF SaleUnchanged
  <2>4. SaleRow(x) # None
    <3>1. x.kind = "complete" => x.sawShift = None \/ x.sawShift.id \in Shifts
      BY <1>1 DEF Knows, CompleteKnows, HoldsShift, SeesShift, SeenShifts
    <3> QED BY <1>1, <2>2, <3>1, SaleRowTyped DEF SeesSale, SeenSales
  <2>5. at = IF x.kind = "refund" /\ SingleShot(x) THEN "linked" ELSE "commit"
    OBVIOUS
  <2> HIDE DEF at
  <2>6. /\ DOMAIN y = Fields /\ y.kind = x.kind /\ y.at = at /\ y.sale = s
        /\ y.newSale = SaleRow(x) /\ y.newShift = x.newShift /\ y.sawSale = x.sawSale
        /\ y.sawShift = x.sawShift /\ y.prior = x.prior /\ y.qty = x.qty /\ y.netted = x.netted
    BY <1>1 DEF Fields
  <2> HIDE DEF y
  <2>7. SaleRow(y) = SaleRow(x)
    BY <1>1, <2>6, SameSaleRow
  <2>8. SeesSale(y, sale, saleVersion) /\ HoldsSale(y, saleVersion)
    BY <2>2, <2>3, <2>4, <2>6, <2>7 DEF SeesSale, HoldsSale
  <2>9. Knows(y, shift, shiftVersion, sale, back, allocated, saleVersion, receipts)
    <3>1. CASE x.kind \in PlainKinds
      BY <1>1, <2>5, <2>6, <2>8, <3>1
         DEF Knows, PlainKnows, ShiftKinds, PlainKinds, SaleKinds
    <3>2. CASE x.kind = "complete"
      <4>1. CompleteKnows(x, shift, shiftVersion, sale, saleVersion, receipts)
        BY <1>1, <3>2 DEF Knows
      <4>2. (x.sawShift = None /\ x.newShift = None) \/ HoldsShift(x, shift, shiftVersion)
        BY <1>1, <4>1 DEF CompleteKnows
      <4>3. HoldsShift(x, shift, shiftVersion) => HoldsShift(y, shift, shiftVersion)
        <5>1. ShiftRow(y) = ShiftRow(x)
          BY <2>6, <3>2, SameShiftRow
        <5> QED BY <2>6, <5>1 DEF HoldsShift, SeesShift
      <4> QED BY <1>1, <2>5, <2>6, <2>8, <3>2, <4>1, <4>2, <4>3
              DEF Knows, CompleteKnows, ShiftKinds, PlainKinds, SaleKinds
    <3>3. CASE x.kind = "refund"
      <4>1. RefundKnows(x, shift, shiftVersion, sale, back, saleVersion)
        BY <1>1, <3>3 DEF Knows
      <4>2. Fits(y, back, saleVersion) /\ (SingleShot(y) <=> SingleShot(x)) /\ y.newShift = None
        BY <1>1, <2>6, <4>1 DEF RefundKnows, Fits, SingleShot, WholeSale
      <4> QED BY <1>1, <2>5, <2>6, <2>8, <3>3, <4>1, <4>2
              DEF Knows, RefundKnows, ShiftKinds, PlainKinds, SaleKinds
    <3> QED BY <1>1, <3>1, <3>2, <3>3 DEF SaleKinds
  <2>10. \A u \in Running : u # t => tx[u].newSale = None \/ s # tx[u].sale
    BY <1>1 DEF UpdateSale, Runs, Blockers, WroteSale
  <2>11. HasReceipt(y) => HasReceipt(x)
    BY <1>1, <2>6 DEF HasReceipt
  <2> QED BY <1>1, <2>1, <2>6, <2>9, <2>10, <2>11, GoOnHolding
<1> QED BY <1>2, <1>3

-----------------------------------------------------------------------------
(* Commits: what the others know stays true.                               *)

(* Rows change with their versions, closed shifts stay closed, a sale      *)
(* stays in its shift and what is allocated to it does not shrink.         *)
Moves(sh, sv, sa, ba, al, va, sh2, sv2, sa2, ba2, al2, va2) ==
    /\ \A h \in Shifts :
          /\ sv[h] \in Nat /\ sv2[h] \in Nat
          /\ sh[h] # None =>
               /\ sh2[h] # None /\ (sh[h].status # "OPEN" => sh2[h].status # "OPEN")
               /\ sv[h] < sv2[h] \/ (sv2[h] = sv[h] /\ sh2[h] = sh[h])
    /\ \A s \in SaleIds :
          /\ va[s] \in Nat /\ va2[s] \in Nat /\ al[s] \in Nat /\ al2[s] \in Nat
          /\ va[s] < va2[s] \/ (va2[s] = va[s] /\ sa2[s] = sa[s] /\ ba2[s] = ba[s])
          /\ sa[s].link # None => sa2[s].link = sa[s].link
          /\ al[s] <= al2[s]

(* What x holds is left to it.                                             *)
Spares(x, sh, sv, va, re, sh2, sv2, va2, re2) ==
    /\ x.newShift # None =>
        /\ sh2[x.newShift.id] = sh[x.newShift.id] /\ sv2[x.newShift.id] = sv[x.newShift.id]
        /\ x.kind = "open" => sh2 = sh
    /\ x.newSale # None => va2[x.sale] = va[x.sale]
    /\ HasReceipt(x) /\ x.sale \notin re => x.sale \notin re2

LEMMA KnowsStays ==
    ASSUME NEW x, NEW sh, NEW sv, NEW sa, NEW ba, NEW al, NEW va, NEW re,
           NEW sh2, NEW sv2, NEW sa2, NEW ba2, NEW al2, NEW va2, NEW re2,
           Knows(x, sh, sv, sa, ba, al, va, re),
           Moves(sh, sv, sa, ba, al, va, sh2, sv2, sa2, ba2, al2, va2),
           Spares(x, sh, sv, va, re, sh2, sv2, va2, re2)
    PROVE  Knows(x, sh2, sv2, sa2, ba2, al2, va2, re2)
<1>1. SeesShift(x, sh, sv) => SeesShift(x, sh2, sv2)
  BY DEF Moves, SeesShift, SeenShifts
<1>2. HoldsShift(x, sh, sv) => HoldsShift(x, sh2, sv2)
  BY <1>1 DEF HoldsShift, Spares
<1>3. SeesSale(x, sa, va) => SeesSale(x, sa2, va2)
  BY DEF Moves, SeesSale, SeenSales
<1>4. HoldsSale(x, va) => HoldsSale(x, va2)
  BY DEF HoldsSale, Spares
<1>5. SeesSale(x, sa, va) /\ Fits(x, ba, va) => Fits(x, ba2, va2)
  BY DEF Moves, SeesSale, SeenSales, Fits
<1>6. CASE x.kind = "open"
  <2>1. OpenKnows(x, sh2)
    BY <1>6 DEF Knows, OpenKnows, Spares
  <2> QED BY <1>6, <2>1 DEF Knows, ShiftKinds, PlainKinds
<1>7. CASE x.kind \in ShiftKinds
  <2>1. ShiftKnows(x, sh, sv, sa, al)
    BY <1>7 DEF Knows
  <2>2. SeesShift(x, sh, sv) /\ Nets(x, sa, al) => Nets(x, sa2, al2)
    <3> SUFFICES ASSUME SeesShift(x, sh, sv), Nets(x, sa, al), NEW s \in SaleIds
                 PROVE x.netted[s] <= (IF sa2[s].link = x.sawShift.id THEN al2[s] ELSE 0)
      BY DEF Nets
    <3>1. x.sawShift.id # None
      BY BooksAssumption DEF SeesShift, SeenShifts
    <3>2. /\ x.netted[s] \in Nat
          /\ x.netted[s] <= (IF sa[s].link = x.sawShift.id THEN al[s] ELSE 0)
      BY BooksAssumption DEF Nets
    <3>3. /\ al[s] \in Nat /\ al2[s] \in Nat /\ al[s] <= al2[s]
          /\ sa[s].link # None => sa2[s].link = sa[s].link
      BY DEF Moves
    <3> QED BY <3>1, <3>2, <3>3
  <2>3. ShiftKnows(x, sh2, sv2, sa2, al2)
    BY <1>1, <1>2, <2>1, <2>2 DEF ShiftKnows
  <2> QED BY <1>7, <2>3 DEF Knows, ShiftKinds, PlainKinds
<1>8. CASE x.kind \in PlainKinds
  <2>1. PlainKnows(x, sa2, va2)
    BY <1>3, <1>4, <1>8 DEF Knows, PlainKnows
  <2> QED BY <1>8, <2>1 DEF Knows, ShiftKinds, PlainKinds
<1>9. CASE x.kind = "complete"
  <2>1. CompleteKnows(x, sh, sv, sa, va, re)
    BY <1>9 DEF Knows
  <2>2. x.at # "receipt" => x.sale \notin re2
    BY <1>9, <2>1 DEF CompleteKnows, Spares, HasReceipt
  <2>3. CompleteKnows(x, sh2, sv2, sa2, va2, re2)
    BY <1>1, <1>2, <1>3, <1>4, <2>1, <2>2 DEF CompleteKnows
  <2> QED BY <1>9, <2>3 DEF Knows, ShiftKinds, PlainKinds
<1>10. CASE x.kind = "refund"
  <2>1. RefundKnows(x, sh, sv, sa, ba, va)
    BY <1>10 DEF Knows
  <2>2. SeesSale(x, sa2, va2)
    BY <1>3, <2>1 DEF RefundKnows
  <2>3. x.at # "facts" => Fits(x, ba2, va2)
    BY <1>5, <2>1 DEF RefundKnows
  <2>4. x.at = "commit" /\ x.newShift = None /\ SingleShot(x) =>
          \A h \in Shifts : h = x.sawSale.row.link => sh2[h] # None /\ sh2[h].status # "OPEN"
    BY <2>1 DEF RefundKnows, Moves
  <2>5. RefundKnows(x, sh2, sv2, sa2, ba2, va2)
    BY <1>1, <1>2, <1>4, <2>1, <2>2, <2>3, <2>4 DEF RefundKnows
  <2> QED BY <1>10, <2>5 DEF Knows, ShiftKinds, PlainKinds
<1> QED BY <1>6, <1>7, <1>8, <1>9, <1>10 DEF Knows, SaleKinds

-----------------------------------------------------------------------------
(* Commits: each is a step of the books.                                   *)

LEMMA CommitKnown ==
    ASSUME DInv, NEW t \in Txns, Commit(t)
    PROVE  /\ t \in Running /\ tx[t].at = "commit"
           /\ Knows(tx[t], shift, shiftVersion, sale, back, allocated, saleVersion, receipts)
BY Known DEF Commit, At

(* The shift a transaction has written is as it has seen it.               *)
LEMMA CommitShift ==
    ASSUME DInv, NEW t \in Txns, Commit(t), tx[t].newShift # None
    PROVE  LET x == tx[t]
               h == x.newShift.id
           IN  /\ h \in Shifts /\ x.newShift.row \in Row
               /\ x.kind = "open" =>
                    shift[h] = None /\ NoneOpen(shift) /\ x.newShift.row = NewShift
               /\ x.kind # "open" =>
                    /\ shift[h] # None /\ shift[h] \in Row /\ shift[h].status = "OPEN"
                    /\ shift[h] = x.sawShift.row
                    /\ x.newShift.row = ShiftRow(x)
                    /\ x.kind \in ShiftKinds \cup {"complete", "refund"}
                    /\ x.sawShift.id = h /\ x.sawShift # None
<1> DEFINE x == tx[t]
           h == x.newShift.id
<1>1. x.at = "commit" /\ Knows(x, shift, shiftVersion, sale, back, allocated, saleVersion, receipts)
  BY CommitKnown
<1> HIDE DEF x
<1>2. CASE x.kind = "open"
  <2>1. h \in Shifts /\ shift[h] = None /\ NoneOpen(shift) /\ x.newShift.row = NewShift
    BY <1>1, <1>2 DEF Knows, OpenKnows
  <2>2. NewShift \in Row
    BY DEF NewShift, Row
  <2> QED BY <1>2, <2>1, <2>2 DEF x
<1>3. CASE x.kind # "open"
  <2>1. HoldsShift(x, shift, shiftVersion) /\ x.kind \in ShiftKinds \cup {"complete", "refund"}
    <3>1. CASE x.kind \in ShiftKinds
      BY <1>1, <3>1 DEF Knows, ShiftKnows
    <3>2. CASE x.kind = "complete"
      BY <1>1, <3>2 DEF Knows, CompleteKnows, x
    <3>3. CASE x.kind = "refund"
      BY <1>1, <3>3 DEF Knows, RefundKnows, x
    <3>4. CASE x.kind \in PlainKinds
      BY <1>1, <3>4 DEF Knows, PlainKnows, x
    <3> QED BY <1>1, <1>3, <3>1, <3>2, <3>3, <3>4 DEF Knows, SaleKinds
  <2>2. /\ x.sawShift \in SeenShifts /\ x.sawShift.id = h /\ h \in Shifts /\ x.newShift.row \in Row
        /\ shift[h] # None /\ shift[h] = x.sawShift.row /\ shift[h].status = "OPEN"
        /\ shift[h] \in Row /\ x.newShift.row = ShiftRow(x)
    BY <2>1 DEF HoldsShift, SeesShift, SeenShifts
  <2>3. x.sawShift # None
    BY <2>2, NoneAssumption DEF SeenShifts
  <2> QED BY <1>3, <2>1, <2>2, <2>3 DEF x
<1> QED BY <1>2, <1>3

(* The sale a transaction has written is as it has seen it.                *)
LEMMA CommitSale ==
    ASSUME DInv, NEW t \in Txns, Commit(t), tx[t].newSale # None
    PROVE  LET x == tx[t]
               s == x.sale
           IN  /\ s \in SaleIds /\ x.kind \in SaleKinds
               /\ sale[s] = x.sawSale.row /\ sale[s] \in SaleRows
               /\ ~sale[s].deleted /\ sale[s].status \in From[x.kind]
               /\ x.newSale = SaleRow(x)
<1> DEFINE x == tx[t]
<1>1. x.at = "commit" /\ Knows(x, shift, shiftVersion, sale, back, allocated, saleVersion, receipts)
  BY CommitKnown
<1>2. x.newSale # None
  OBVIOUS
<1> HIDE DEF x
<1>3. x.kind \in SaleKinds
  BY <1>1, <1>2 DEF Knows, OpenKnows, ShiftKnows
<1>4. SeesSale(x, sale, saleVersion) /\ HoldsSale(x, saleVersion)
  BY <1>1, <1>2, <1>3 DEF Knows, PlainKnows, CompleteKnows, RefundKnows, SaleKinds
<1> QED BY <1>3, <1>4 DEF SeesSale, HoldsSale, SeenSales, x

LEMMA SaleKindsWrite ==
    ASSUME DInv, NEW t \in Txns, Commit(t)
    PROVE  tx[t].newSale = None <=> tx[t].kind \notin SaleKinds
<1> DEFINE x == tx[t]
<1>1. x.at = "commit" /\ Knows(x, shift, shiftVersion, sale, back, allocated, saleVersion, receipts)
  BY CommitKnown
<1> HIDE DEF x
<1>2. x.kind \notin SaleKinds => x.newSale = None
  BY <1>1 DEF Knows, OpenKnows, ShiftKnows
<1>3. x.kind \in SaleKinds => x.newSale # None
  BY <1>1 DEF Knows, PlainKnows, CompleteKnows, RefundKnows, SaleKinds, HoldsSale
<1> QED BY <1>2, <1>3 DEF x

(* What the requests demand of a sale.                                     *)
LEMMA FromMeans ==
    ASSUME NEW x, x.kind \in SaleKinds, NEW status, status \in From[x.kind]
    PROVE  /\ x.kind \in {"complete", "cancel"} => status \in {"DRAFT", "PENDING"}
           /\ x.kind \in {"hold", "edit", "delete"} => status = "DRAFT"
           /\ x.kind = "refund" => status \in {"COMPLETED", "PARTIALLY_REFUNDED"}
BY DEF From, SaleKinds, PlainKinds

(* What a commit writes.                                                   *)
LEMMA CommitWrites ==
    ASSUME DInv, NEW t \in Txns, Commit(t)
    PROVE  LET x == tx[t]
               h == x.newShift.id
           IN  /\ x.newShift = None => shift' = shift /\ shiftVersion' = shiftVersion
               /\ x.newShift # None =>
                    /\ shift' = [shift EXCEPT ![h] = x.newShift.row]
                    /\ shiftVersion' = [shiftVersion EXCEPT ![h] =
                                          IF x.kind = "open" THEN 0 ELSE shiftVersion[h] + 1]
               /\ x.newSale = None => sale' = sale /\ saleVersion' = saleVersion
               /\ x.newSale # None =>
                    /\ sale' = [sale EXCEPT ![x.sale] = x.newSale]
                    /\ saleVersion' = [saleVersion EXCEPT ![x.sale] = saleVersion[x.sale] + 1]
               /\ x.kind # "refund" => back' = back /\ allocated' = allocated
               /\ x.kind # "complete" => receipts' = receipts
               /\ x.kind = "complete" => receipts' = receipts \cup {x.sale}
               /\ x.kind \notin {"cashIn", "cashOut"} => posted' = posted
BY Typed DEF Commit, Allocates

LEMMA OpenCommits ==
    ASSUME DInv, NEW t \in Txns, Commit(t), tx[t].kind = "open"
    PROVE  \E h \in Shifts : Open(h)
<1> DEFINE x == tx[t]
           h == x.newShift.id
<1>1. x.newShift # None
  BY CommitKnown DEF Knows, OpenKnows
<1>2. h \in Shifts /\ shift[h] = None /\ NoneOpen(shift) /\ x.newShift.row = NewShift
  BY <1>1, CommitShift
<1>3. x.newSale = None
  BY SaleKindsWrite DEF SaleKinds, PlainKinds
<1>4. OpenShifts = {}
  BY <1>2 DEF OpenShifts, NoneOpen
<1>5. shift' = [shift EXCEPT ![h] = NewShift] /\ UNCHANGED <<sale, back, allocated, posted>>
  BY <1>1, <1>2, <1>3, CommitWrites
<1> QED BY <1>2, <1>4, <1>5 DEF Open

(* A request on the shift, and what it has in common with the others.      *)
LEMMA ShiftKindCommits ==
    ASSUME DInv, NEW t \in Txns, Commit(t), tx[t].kind \in ShiftKinds
    PROVE  LET h == tx[t].newShift.id
           IN  /\ h \in OpenShifts /\ h \in Shifts
               /\ shift' = [shift EXCEPT ![h] = ShiftRow(tx[t])]
               /\ shift[h] = tx[t].sawShift.row /\ tx[t].sawShift.id = h
               /\ shift[h] \in Row
               /\ UNCHANGED <<sale, back, allocated>>
<1> DEFINE x == tx[t]
           h == x.newShift.id
<1>1. x.newShift # None
  BY CommitKnown DEF Knows, ShiftKnows, HoldsShift
<1>2. x.kind # "open"
  BY DEF ShiftKinds
<1>3. /\ h \in Shifts /\ shift[h] # None /\ shift[h] \in Row /\ shift[h].status = "OPEN"
      /\ shift[h] = x.sawShift.row /\ x.newShift.row = ShiftRow(x) /\ x.sawShift.id = h
  BY <1>1, <1>2, CommitShift
<1>4. x.newSale = None
  BY SaleKindsWrite DEF SaleKinds, PlainKinds, ShiftKinds
<1>5. shift' = [shift EXCEPT ![h] = ShiftRow(x)] /\ UNCHANGED <<sale, back, allocated>>
  BY <1>1, <1>3, <1>4, CommitWrites DEF ShiftKinds
<1> QED BY <1>3, <1>5 DEF OpenShifts

LEMMA CloseCommits ==
    ASSUME DInv, NEW t \in Txns, Commit(t), tx[t].kind = "close"
    PROVE  \E h \in Shifts : \E netted \in [SaleIds -> 0..Units] : Close(h, netted)
<1> DEFINE x == tx[t]
           h == x.newShift.id
<1>1. /\ h \in OpenShifts /\ h \in Shifts /\ shift' = [shift EXCEPT ![h] = ShiftRow(x)]
      /\ shift[h] = x.sawShift.row /\ x.sawShift.id = h /\ UNCHANGED <<sale, back, allocated>>
  BY ShiftKindCommits DEF ShiftKinds
<1>2. Nets(x, sale, allocated)
  BY CommitKnown DEF Knows, ShiftKnows, ShiftKinds
<1>3. /\ x.netted \in [SaleIds -> 0..Units]
      /\ \A s \in SaleIds : x.netted[s] <= (IF sale[s].link = h THEN allocated[s] ELSE 0)
  BY <1>1, <1>2 DEF Nets
<1>4. posted' = posted
  BY CommitWrites
<1>5. ShiftRow(x) = [shift[h] EXCEPT !.status = "CLOSED", !.netted = x.netted]
  BY <1>1, ShiftRows
<1>6. shift' = [shift EXCEPT ![h].status = "CLOSED", ![h].netted = x.netted]
  BY <1>1, <1>5, Typed
<1> QED BY <1>1, <1>3, <1>4, <1>6 DEF Close

LEMMA CashInCommits ==
    ASSUME DInv, NEW t \in Txns, Commit(t), tx[t].kind = "cashIn"
    PROVE  \E h \in Shifts : CashIn(h)
<1> DEFINE x == tx[t]
           h == x.newShift.id
<1>1. /\ h \in OpenShifts /\ h \in Shifts /\ shift' = [shift EXCEPT ![h] = ShiftRow(x)]
      /\ shift[h] = x.sawShift.row /\ UNCHANGED <<sale, back, allocated>>
  BY ShiftKindCommits DEF ShiftKinds
<1>2. ShiftRow(x) = [shift[h] EXCEPT !.in = shift[h].in + 1]
  BY <1>1, ShiftRows
<1>3. shift' = [shift EXCEPT ![h].in = @ + 1]
  BY <1>1, <1>2, Typed
<1>4. posted' = [posted EXCEPT ![h].in = @ + 1]
  BY DEF Commit
<1> QED BY <1>1, <1>3, <1>4 DEF CashIn

LEMMA CashOutCommits ==
    ASSUME DInv, NEW t \in Txns, Commit(t), tx[t].kind = "cashOut"
    PROVE  \E h \in Shifts : CashOut(h)
<1> DEFINE x == tx[t]
           h == x.newShift.id
<1>1. /\ h \in OpenShifts /\ h \in Shifts /\ shift' = [shift EXCEPT ![h] = ShiftRow(x)]
      /\ shift[h] = x.sawShift.row /\ UNCHANGED <<sale, back, allocated>>
  BY ShiftKindCommits DEF ShiftKinds
<1>2. ShiftRow(x) = [shift[h] EXCEPT !.out = shift[h].out + 1]
  BY <1>1, ShiftRows
<1>3. shift' = [shift EXCEPT ![h].out = @ + 1]
  BY <1>1, <1>2, Typed
<1>4. posted' = [posted EXCEPT ![h].out = @ + 1]
  BY DEF Commit
<1> QED BY <1>1, <1>3, <1>4 DEF CashOut

(* A request on a sale, and what it has in common with the others.         *)
LEMMA SaleKindCommits ==
    ASSUME DInv, NEW t \in Txns, Commit(t), tx[t].kind \in SaleKinds
    PROVE  LET x == tx[t]
               s == x.sale
           IN  /\ s \in SaleIds /\ sale[s] \in SaleRows /\ sale[s] = x.sawSale.row
               /\ ~sale[s].deleted /\ sale[s].status \in From[x.kind]
               /\ sale' = [sale EXCEPT ![s] = SaleRow(x)]
               /\ posted' = posted
<1>1. tx[t].newSale # None
  BY SaleKindsWrite
<1>2. tx[t].kind \notin {"cashIn", "cashOut"}
  BY DEF SaleKinds, PlainKinds
<1> QED BY <1>1, <1>2, CommitSale, CommitWrites

LEMMA PlainCommits ==
    ASSUME DInv, NEW t \in Txns, Commit(t), tx[t].kind \in PlainKinds
    PROVE  Next \/ UNCHANGED vars
<1> DEFINE x == tx[t]
           s == x.sale
<1>1. /\ s \in SaleIds /\ sale[s] \in SaleRows /\ sale[s] = x.sawSale.row
      /\ ~sale[s].deleted /\ sale[s].status \in From[x.kind]
      /\ sale' = [sale EXCEPT ![s] = SaleRow(x)]
      /\ posted' = posted
  BY SaleKindCommits DEF SaleKinds
<1>2. x.newShift = None
  BY CommitKnown DEF Knows, PlainKnows
<1>3. UNCHANGED <<shift, back, allocated, posted>>
  BY <1>1, <1>2, CommitWrites DEF PlainKinds
<1>4. /\ x.kind = "cancel" => sale[s].status \in {"DRAFT", "PENDING"}
      /\ x.kind # "cancel" => sale[s].status = "DRAFT"
  BY <1>1, FromMeans DEF SaleKinds, PlainKinds
<1>5. CASE x.kind = "cancel"
  <2>1. sale' = [sale EXCEPT ![s].status = "CANCELLED"]
    BY <1>1, <1>5, SaleRowsWritten, Typed
  <2>2. May(s, "CANCELLED")
    BY <1>1, <1>4, <1>5 DEF May, Transitions
  <2>3. Change(s, "CANCELLED")
    BY <1>3, <2>1, <2>2 DEF Change
  <2> QED BY <1>1, <2>3 DEF Next
<1>6. CASE x.kind = "hold"
  <2>1. sale' = [sale EXCEPT ![s].status = "PENDING"]
    BY <1>1, <1>6, SaleRowsWritten, Typed
  <2>2. May(s, "PENDING")
    BY <1>1, <1>4, <1>6 DEF May, Transitions
  <2>3. Change(s, "PENDING")
    BY <1>3, <2>1, <2>2 DEF Change
  <2> QED BY <1>1, <2>3 DEF Next
<1>7. CASE x.kind = "edit"
  <2>1. sale' = sale
    BY <1>1, <1>7, SaleRowsWritten, Typed
  <2> QED BY <1>3, <2>1 DEF vars
<1>8. CASE x.kind = "delete"
  <2>1. sale' = [sale EXCEPT ![s].deleted = TRUE]
    BY <1>1, <1>8, SaleRowsWritten, Typed
  <2>2. Delete(s)
    BY <1>1, <1>3, <1>4, <1>8, <2>1 DEF Delete
  <2> QED BY <1>1, <2>2 DEF Next
<1> QED BY <1>5, <1>6, <1>7, <1>8 DEF PlainKinds

LEMMA CompleteCommits ==
    ASSUME DInv, NEW t \in Txns, Commit(t), tx[t].kind = "complete"
    PROVE  \E s \in SaleIds : \E h \in Shifts \cup {None} : Complete(s, h)
<1> DEFINE x == tx[t]
           s == x.sale
           h == x.newShift.id
<1>1. /\ s \in SaleIds /\ sale[s] \in SaleRows /\ sale[s] = x.sawSale.row
      /\ ~sale[s].deleted /\ sale[s].status \in From[x.kind]
      /\ sale' = [sale EXCEPT ![s] = SaleRow(x)]
      /\ posted' = posted
  BY SaleKindCommits DEF SaleKinds
<1>2. May(s, "COMPLETED")
  <2>1. sale[s].status \in {"DRAFT", "PENDING"}
    BY <1>1, FromMeans DEF SaleKinds
  <2> QED BY <1>1, <2>1 DEF May, Transitions
<1>3. UNCHANGED <<back, allocated, posted>>
  BY <1>1, CommitWrites
<1>4. CASE x.newShift = None
  <2>1. x.sawShift = None
    BY <1>4, CommitKnown DEF Knows, CompleteKnows, HoldsShift
  <2>2. SaleRow(x) = [sale[s] EXCEPT !.status = "COMPLETED", !.link = None]
    BY <1>1, <2>1, SaleRowsWritten
  <2>3. sale' = [sale EXCEPT ![s].status = "COMPLETED", ![s].link = None]
    BY <1>1, <2>2, Typed
  <2>4. UNCHANGED shift
    BY <1>4, CommitWrites
  <2> QED BY <1>1, <1>2, <1>3, <2>3, <2>4 DEF Complete
<1>5. CASE x.newShift # None
  <2>1. /\ h \in Shifts /\ shift[h] # None /\ shift[h] \in Row /\ shift[h].status = "OPEN"
        /\ shift[h] = x.sawShift.row /\ x.newShift.row = ShiftRow(x)
        /\ x.sawShift.id = h /\ x.sawShift # None
    BY <1>5, CommitShift
  <2>2. SaleRow(x) = [sale[s] EXCEPT !.status = "COMPLETED", !.link = h]
    BY <1>1, <2>1, SaleRowsWritten
  <2>3. sale' = [sale EXCEPT ![s].status = "COMPLETED", ![s].link = h]
    BY <1>1, <2>2, Typed
  <2>4. ShiftRow(x) = [shift[h] EXCEPT !.sales = shift[h].sales + 1]
    BY <2>1, ShiftRows
  <2>5. shift' = [shift EXCEPT ![h].sales = @ + 1]
    <3>1. shift' = [shift EXCEPT ![h] = ShiftRow(x)]
      BY <1>5, <2>1, CommitWrites
    <3> QED BY <2>1, <2>4, <3>1, Typed
  <2>6. h # None /\ h \in OpenShifts
    BY <2>1, BooksAssumption DEF OpenShifts
  <2> QED BY <1>1, <1>2, <1>3, <2>1, <2>3, <2>5, <2>6 DEF Complete
<1> QED BY <1>4, <1>5

LEMMA RefundCommits ==
    ASSUME DInv, NEW t \in Txns, Commit(t), tx[t].kind = "refund"
    PROVE  \E s \in SaleIds : RefundWhole(s) \/ \E n \in 1..Units : RefundPart(s, n)
<1> DEFINE x == tx[t]
           s == x.sale
           n == x.qty
           h == sale[s].link
<1>1. /\ s \in SaleIds /\ sale[s] \in SaleRows /\ sale[s] = x.sawSale.row
      /\ ~sale[s].deleted /\ sale[s].status \in {"COMPLETED", "PARTIALLY_REFUNDED"}
      /\ sale' = [sale EXCEPT ![s] = SaleRow(x)]
      /\ posted' = posted
  BY SaleKindCommits, FromMeans DEF SaleKinds
<1>2. RefundKnows(x, shift, shiftVersion, sale, back, saleVersion) /\ x.at = "commit"
  BY CommitKnown DEF Knows
<1>3. /\ x.prior = back[s] /\ n \in 1..Units /\ back[s] \in 0..Units /\ Units \in Nat
      /\ back[s] + n <= Units
  BY <1>1, <1>2, BooksAssumption, Typed DEF RefundKnows, Fits, HoldsSale
<1>4. WholeSale(x) <=> back[s] + n = Units
  BY <1>3 DEF WholeSale
<1>5. sale[s].status = "COMPLETED" => back[s] = 0
  BY <1>1, <1>3 DEF DInv, IInv, RefundsAgree
<1>6. sale' = [sale EXCEPT ![s].status =
                  IF back[s] + n = Units THEN "REFUNDED" ELSE "PARTIALLY_REFUNDED"]
  <2>1. SaleRow(x) = [sale[s] EXCEPT !.status =
                        IF back[s] + n = Units THEN "REFUNDED" ELSE "PARTIALLY_REFUNDED"]
    BY <1>1, <1>4, SaleRowsWritten
  <2> QED BY <1>1, <2>1, Typed
<1>7. /\ back' = [back EXCEPT ![s] = @ + n]
      /\ IF SingleShot(x) THEN allocated' = allocated
                          ELSE allocated' = [allocated EXCEPT ![s] = @ + n]
  BY DEF Commit, Allocates
<1>8. CASE SingleShot(x)
  <2>1. sale[s].status = "COMPLETED" /\ back[s] + n = Units
    BY <1>1, <1>4, <1>8 DEF SingleShot
  <2>2. sale' = [sale EXCEPT ![s].status = "REFUNDED"]
    BY <1>6, <2>1
  <2>3. back' = [back EXCEPT ![s] = Units]
    BY <1>7, <2>1
  <2>4. CASE x.newShift = None
    <3>1. \A g \in Shifts : g = h => shift[g] # None /\ shift[g].status # "OPEN"
      BY <1>1, <1>2, <1>8, <2>4 DEF RefundKnows
    <3>2. h \notin OpenShifts /\ UNCHANGED shift
      BY <2>4, <3>1, CommitWrites DEF OpenShifts
    <3>3. RefundWhole(s)
      BY <1>1, <1>7, <1>8, <2>1, <2>2, <2>3, <3>2 DEF RefundWhole
    <3> QED BY <1>1, <3>3
  <2>5. CASE x.newShift # None
    <3>1. x.sawShift.id = x.sawSale.row.link
      BY <1>2, <2>5 DEF RefundKnows
    <3>2. /\ h = x.newShift.id /\ h \in Shifts /\ shift[h] # None /\ shift[h].status = "OPEN"
          /\ shift[h] = x.sawShift.row /\ x.newShift.row = ShiftRow(x)
      BY <1>1, <2>5, <3>1, CommitShift
    <3>3. ShiftRow(x) = [shift[h] EXCEPT !.sales = shift[h].sales - 1]
      BY <3>2, ShiftRows
    <3>4. shift' = [shift EXCEPT ![h].sales = @ - 1]
      <4>1. shift' = [shift EXCEPT ![h] = ShiftRow(x)]
        BY <2>5, <3>2, CommitWrites
      <4> QED BY <3>2, <3>3, <4>1, Typed
    <3>5. h \in OpenShifts
      BY <3>2 DEF OpenShifts
    <3>6. RefundWhole(s)
      BY <1>1, <1>7, <1>8, <2>1, <2>2, <2>3, <3>4, <3>5 DEF RefundWhole
    <3> QED BY <1>1, <3>6
  <2> QED BY <2>4, <2>5
<1>9. CASE ~SingleShot(x)
  <2>1. sale[s].status = "COMPLETED" => n < Units
    BY <1>1, <1>3, <1>4, <1>5, <1>9 DEF SingleShot
  <2>2. n \in 1..(Units - back[s])
    BY <1>3
  <2>3. UNCHANGED shift
    BY <1>2, <1>9, CommitWrites DEF RefundKnows
  <2>4. RefundPart(s, n)
    BY <1>1, <1>6, <1>7, <1>9, <2>1, <2>2, <2>3 DEF RefundPart
  <2> QED BY <1>1, <1>3, <2>4
<1> QED BY <1>8, <1>9

LEMMA CommitsImplement == ASSUME DInv, NEW t \in Txns, Commit(t) PROVE [Next]_vars
<1>1. tx[t].kind \in {"open"} \cup ShiftKinds \cup SaleKinds
  BY CommitKnown DEF Knows
<1>2. CASE tx[t].kind = "open"
  BY <1>2, OpenCommits DEF Next
<1>3. CASE tx[t].kind \in ShiftKinds
  BY <1>3, CloseCommits, CashInCommits, CashOutCommits DEF Next, ShiftKinds
<1>4. CASE tx[t].kind \in PlainKinds
  BY <1>4, PlainCommits
<1>5. CASE tx[t].kind = "complete"
  BY <1>5, CompleteCommits DEF Next
<1>6. CASE tx[t].kind = "refund"
  BY <1>6, RefundCommits DEF Next
<1> QED BY <1>1, <1>2, <1>3, <1>4, <1>5, <1>6 DEF SaleKinds

-----------------------------------------------------------------------------
(* Commits keep the invariant.                                             *)

LEMMA ReceiptsGrow ==
    ASSUME DInv, NEW t \in Txns, Commit(t)
    PROVE  /\ receipts \subseteq receipts' /\ receipts' \subseteq SaleIds
           /\ \A s \in receipts' : s \in receipts \/ (tx[t].kind = "complete" /\ s = tx[t].sale)
<1>1. CASE tx[t].kind = "complete"
  <2>1. tx[t].sale \in SaleIds
    BY <1>1, SaleKindCommits DEF SaleKinds
  <2> QED BY <1>1, <2>1, CommitWrites, Typed
<1>2. CASE tx[t].kind # "complete"
  BY <1>2, CommitWrites, Typed
<1> QED BY <1>1, <1>2

LEMMA VersionsStay == ASSUME DInv, NEW t \in Txns, Commit(t) PROVE VersionsOK'
<1> DEFINE x == tx[t]
           h == x.newShift.id
<1>1. shiftVersion' \in [Shifts -> Nat]
  <2>1. CASE x.newShift = None
    BY <2>1, CommitWrites, Typed
  <2>2. CASE x.newShift # None
    <3> DEFINE v == IF x.kind = "open" THEN 0 ELSE shiftVersion[h] + 1
    <3>1. h \in Shifts /\ shiftVersion' = [shiftVersion EXCEPT ![h] = v]
      BY <2>2, CommitShift, CommitWrites
    <3>2. v \in Nat
      BY <3>1, Typed
    <3> HIDE DEF v
    <3> QED BY <3>1, <3>2, Typed
  <2> QED BY <2>1, <2>2
<1>2. saleVersion' \in [SaleIds -> Nat]
  <2>1. CASE x.newSale = None
    BY <2>1, CommitWrites, Typed
  <2>2. CASE x.newSale # None
    BY <2>2, CommitSale, CommitWrites, Typed
  <2> QED BY <2>1, <2>2
<1> QED BY <1>1, <1>2, ReceiptsGrow DEF VersionsOK

LEMMA SaleRowKeeps ==
    ASSUME NEW x, x.sawSale.row \in SaleRows, x.kind \in SaleKinds \ {"complete"}
    PROVE  /\ SaleRow(x).link = x.sawSale.row.link
           /\ x.kind \in PlainKinds /\ x.sawSale.row.status \in {"DRAFT", "PENDING"} =>
                SaleRow(x).status \in {"DRAFT", "PENDING", "CANCELLED"}
<1> DEFINE row == x.sawSale.row
           status == IF WholeSale(x) THEN "REFUNDED" ELSE "PARTIALLY_REFUNDED"
<1>1. /\ x.kind = "cancel" => SaleRow(x) = [row EXCEPT !.status = "CANCELLED"]
      /\ x.kind = "hold" => SaleRow(x) = [row EXCEPT !.status = "PENDING"]
      /\ x.kind = "edit" => SaleRow(x) = row
      /\ x.kind = "delete" => SaleRow(x) = [row EXCEPT !.deleted = TRUE]
      /\ x.kind = "refund" => SaleRow(x) = [row EXCEPT !.status = status]
      /\ row \in SaleRows
  BY SaleRowsWritten
<1>2. row = x.sawSale.row
  OBVIOUS
<1> HIDE DEF row, status
<1> QED BY <1>1, <1>2 DEF SaleKinds, PlainKinds, SaleRows

(* A sale is completed with its receipt and refunded once it has been.     *)
LEMMA ReceiptedStays == ASSUME DInv, NEW t \in Txns, Commit(t) PROVE Receipted'
<1> DEFINE x == tx[t]
<1> SUFFICES ASSUME NEW s \in SaleIds, sale'[s].status \in Taken PROVE s \in receipts'
  BY DEF Receipted
<1>1. receipts \subseteq receipts'
  BY ReceiptsGrow
<1>2. sale[s].status \in Taken => s \in receipts
  BY DEF DInv, Receipted
<1>3. CASE sale'[s] = sale[s]
  BY <1>1, <1>2, <1>3
<1>4. CASE sale'[s] # sale[s]
  <2>1. x.newSale # None
    BY <1>4, CommitWrites
  <2>2. /\ s = x.sale /\ x.kind \in SaleKinds /\ sale[s] \in SaleRows
        /\ sale[s].status \in From[x.kind] /\ sale[s] = x.sawSale.row
        /\ sale'[s] = SaleRow(x)
    BY <1>4, <2>1, CommitSale, CommitWrites, Typed
  <2>3. CASE x.kind = "complete"
    BY <2>2, <2>3, CommitWrites
  <2>4. CASE x.kind = "refund"
    BY <1>1, <1>2, <2>2, <2>4, FromMeans DEF Taken
  <2>5. CASE x.kind \in PlainKinds
    <3>1. sale[s].status \in {"DRAFT", "PENDING"}
      BY <2>2, <2>5, FromMeans DEF PlainKinds, SaleKinds
    <3>2. SaleRow(x).status \in {"DRAFT", "PENDING", "CANCELLED"}
      BY <2>2, <2>5, <3>1, SaleRowKeeps DEF PlainKinds, SaleKinds
    <3> QED BY <2>2, <3>2 DEF Taken
  <2> QED BY <2>2, <2>3, <2>4, <2>5 DEF SaleKinds
<1> QED BY <1>3, <1>4

LEMMA ShiftsMove ==
    ASSUME DInv, NEW t \in Txns, Commit(t), NEW h \in Shifts, shift[h] # None
    PROVE  /\ shift'[h] # None /\ (shift[h].status # "OPEN" => shift'[h].status # "OPEN")
           /\ shiftVersion[h] < shiftVersion'[h]
                \/ (shiftVersion'[h] = shiftVersion[h] /\ shift'[h] = shift[h])
<1> DEFINE x == tx[t]
           g == x.newShift.id
<1>1. CASE x.newShift = None \/ g # h
  <2>1. shift'[h] = shift[h] /\ shiftVersion'[h] = shiftVersion[h]
    <3>1. CASE x.newShift = None
      BY <3>1, CommitWrites
    <3>2. CASE x.newShift # None /\ g # h
      BY <3>2, CommitWrites, Typed
    <3> QED BY <1>1, <3>1, <3>2
  <2> QED BY <2>1
<1>2. CASE x.newShift # None /\ g = h
  <2>1. /\ x.kind # "open" /\ shift[h].status = "OPEN" /\ x.newShift.row \in Row
    BY <1>2, CommitShift
  <2>2. shift'[h] = x.newShift.row /\ shiftVersion'[h] = shiftVersion[h] + 1
    BY <1>2, <2>1, CommitWrites, Typed
  <2>3. shiftVersion[h] \in Nat
    BY Typed
  <2> QED BY <2>1, <2>2, <2>3, BooksAssumption
<1> QED BY <1>1, <1>2

LEMMA SalesMove ==
    ASSUME DInv, NEW t \in Txns, Commit(t), NEW s \in SaleIds
    PROVE  /\ saleVersion[s] < saleVersion'[s]
                \/ (saleVersion'[s] = saleVersion[s] /\ sale'[s] = sale[s] /\ back'[s] = back[s])
           /\ sale[s].link # None => sale'[s].link = sale[s].link
           /\ allocated[s] <= allocated'[s]
<1> DEFINE x == tx[t]
<1>1. saleVersion[s] \in Nat /\ allocated[s] \in Nat
  BY Typed, BooksAssumption
<1>2. CASE x.newSale = None \/ x.sale # s
  <2>1. sale'[s] = sale[s] /\ saleVersion'[s] = saleVersion[s]
    <3>1. CASE x.newSale = None
      BY <3>1, CommitWrites
    <3>2. CASE x.newSale # None /\ x.sale # s
      BY <3>2, CommitWrites, Typed
    <3> QED BY <1>2, <3>1, <3>2
  <2>2. back'[s] = back[s] /\ allocated'[s] = allocated[s]
    <3>1. CASE x.kind # "refund"
      BY <3>1, CommitWrites
    <3>2. CASE x.kind = "refund"
      <4>1. x.sale # s
        BY <1>2, <3>2, SaleKindsWrite DEF SaleKinds
      <4> QED BY <4>1, Typed DEF Commit
    <3> QED BY <3>1, <3>2
  <2> QED BY <1>1, <2>1, <2>2
<1>3. CASE x.newSale # None /\ x.sale = s
  <2>1. saleVersion'[s] = saleVersion[s] + 1
    BY <1>3, CommitWrites, Typed
  <2>2. /\ x.kind \in SaleKinds /\ sale[s] \in SaleRows /\ sale[s] = x.sawSale.row
        /\ sale[s].status \in From[x.kind] /\ sale'[s] = SaleRow(x)
    BY <1>3, CommitSale, CommitWrites, Typed
  <2>3. sale[s].link # None => sale'[s].link = sale[s].link
    <3>1. CASE x.kind = "complete"
      <4>1. sale[s].status \in {"DRAFT", "PENDING"}
        BY <2>2, <3>1, FromMeans
      <4> QED BY <4>1 DEF DInv, IInv, Untaken
    <3>2. CASE x.kind # "complete"
      BY <2>2, <3>2, SaleRowKeeps
    <3> QED BY <3>1, <3>2
  <2>4. allocated[s] <= allocated'[s]
    <3>1. CASE x.kind = "refund"
      <4>1. x.qty \in Nat
        BY <3>1, CommitKnown, BooksAssumption DEF Knows, RefundKnows, Fits
      <4>2. allocated'[s] = allocated[s] + x.qty \/ allocated'[s] = allocated[s]
        BY <1>3, <3>1, Typed DEF Commit
      <4> QED BY <1>1, <4>1, <4>2
    <3>2. CASE x.kind # "refund"
      BY <1>1, <3>2, CommitWrites
    <3> QED BY <3>1, <3>2
  <2> QED BY <1>1, <2>1, <2>3, <2>4
<1> QED BY <1>2, <1>3

(* What is written is a shift or a sale there is.                          *)
LEMMA Written ==
    ASSUME DInv, NEW u \in Running
    PROVE  /\ tx[u].newShift # None => tx[u].newShift.id \in Shifts
           /\ tx[u].newSale # None => tx[u].sale \in SaleIds
<1> DEFINE x == tx[u]
<1>1. Knows(x, shift, shiftVersion, sale, back, allocated, saleVersion, receipts)
  BY Known
<1> HIDE DEF x
<1>2. x.newShift # None => x.newShift.id \in Shifts
  <2>1. HoldsShift(x, shift, shiftVersion) => x.newShift.id \in Shifts
    BY DEF HoldsShift, SeesShift, SeenShifts
  <2> QED BY <1>1, <2>1 DEF Knows, SaleKinds, OpenKnows, ShiftKnows, PlainKnows, CompleteKnows,
             RefundKnows
<1>3. x.newSale # None => x.sale \in SaleIds
  BY <1>1 DEF Knows, SaleKinds, OpenKnows, ShiftKnows, PlainKnows, CompleteKnows, RefundKnows,
     SeesSale
<1> QED BY <1>2, <1>3 DEF x

LEMMA CommitSpares ==
    ASSUME DInv, NEW t \in Txns, Commit(t), NEW u \in Running, u # t
    PROVE  Spares(tx[u], shift, shiftVersion, saleVersion, receipts,
                  shift', shiftVersion', saleVersion', receipts')
<1> DEFINE x == tx[t]
           z == tx[u]
<1>1. Apart(z, x) /\ t \in Running
  BY CommitKnown DEF DInv, AllApart
<1>2. ASSUME z.newShift # None
      PROVE  /\ shift'[z.newShift.id] = shift[z.newShift.id]
             /\ shiftVersion'[z.newShift.id] = shiftVersion[z.newShift.id]
             /\ z.kind = "open" => shift' = shift
  <2>1. CASE x.newShift = None
    BY <2>1, CommitWrites
  <2>2. CASE x.newShift # None
    <3>1. z.kind # "open" /\ z.newShift.id # x.newShift.id
      BY <1>1, <1>2, <2>2 DEF Apart
    <3>2. z.newShift.id \in Shifts
      BY <1>2, Written
    <3> QED BY <2>2, <3>1, <3>2, CommitWrites, Typed
  <2> QED BY <2>1, <2>2
<1>3. ASSUME z.newSale # None PROVE saleVersion'[z.sale] = saleVersion[z.sale]
  <2>1. CASE x.newSale = None
    BY <2>1, CommitWrites
  <2>2. CASE x.newSale # None
    <3>1. z.sale # x.sale
      BY <1>1, <1>3, <2>2 DEF Apart
    <3>2. z.sale \in SaleIds
      BY <1>3, Written
    <3> QED BY <2>2, <3>1, <3>2, CommitWrites, Typed
  <2> QED BY <2>1, <2>2
<1>4. ASSUME HasReceipt(z), z.sale \notin receipts PROVE z.sale \notin receipts'
  <2>1. x.kind = "complete" => z.sale # x.sale
    BY <1>1, <1>4, CommitKnown DEF Apart, HasReceipt
  <2> QED BY <1>4, <2>1, ReceiptsGrow
<1> QED BY <1>2, <1>3, <1>4 DEF Spares

LEMMA CommitPreserves == ASSUME DInv, NEW t \in Txns, Commit(t) PROVE DInv'
<1>1. IInv'
  BY CommitsImplement, BooksKeep DEF DInv
<1>2. VersionsOK' /\ Receipted'
  BY VersionsStay, ReceiptedStays
<1>3. Moves(shift, shiftVersion, sale, back, allocated, saleVersion,
            shift', shiftVersion', sale', back', allocated', saleVersion')
  <2>1. /\ \A h \in Shifts : shiftVersion[h] \in Nat /\ shiftVersion'[h] \in Nat
        /\ \A s \in SaleIds : /\ saleVersion[s] \in Nat /\ saleVersion'[s] \in Nat
                              /\ allocated[s] \in Nat /\ allocated'[s] \in Nat
    BY <1>1, <1>2, Typed, BooksAssumption DEF VersionsOK, IInv, BooksTypeOK
  <2> QED BY <2>1, ShiftsMove, SalesMove DEF Moves
<1>4. /\ DOMAIN tx = Txns /\ tx' = [tx EXCEPT ![t] = None]
  BY Typed DEF Commit
<1>5. /\ DOMAIN tx' = Txns
      /\ \A u \in Running' : u \in Running /\ u # t /\ tx'[u] = tx[u]
  BY <1>4 DEF Running
<1>6. AllKnow'
  <2> SUFFICES ASSUME NEW u \in Running'
               PROVE  Knows(tx'[u], shift', shiftVersion', sale', back', allocated', saleVersion',
                            receipts')
    BY <1>5 DEF AllKnow
  <2>1. Knows(tx[u], shift, shiftVersion, sale, back, allocated, saleVersion, receipts)
    BY <1>5, Known
  <2>2. Spares(tx[u], shift, shiftVersion, saleVersion, receipts,
               shift', shiftVersion', saleVersion', receipts')
    BY <1>5, CommitSpares
  <2>3. Knows(tx[u], shift', shiftVersion', sale', back', allocated', saleVersion', receipts')
    BY <1>3, <2>1, <2>2, KnowsStays
  <2> QED BY <1>5, <2>3
<1>7. AllApart'
  BY <1>5 DEF AllApart, DInv
<1> QED BY <1>1, <1>2, <1>6, <1>7 DEF DInv

-----------------------------------------------------------------------------
(* Every step keeps the invariant, and is a step of the books or none.     *)

LEMMA DrawerKeeps == DInv /\ [DrawerNext]_drawerVars => DInv'
<1> SUFFICES ASSUME DInv, [DrawerNext]_drawerVars PROVE DInv'
  OBVIOUS
<1>1. ASSUME NEW t \in Txns,
             \/ BeginOpen(t)
             \/ \E kind \in {"close", "cashIn", "cashOut"} : BeginOnShift(t, kind)
             \/ \E kind \in DOMAIN From, s \in SaleIds : BeginOnSale(t, kind, s)
             \/ Step(t)
             \/ Fail(t)
      PROVE  DInv'
  <2>1. ASSUME NEW kind \in {"close", "cashIn", "cashOut"}, BeginOnShift(t, kind) PROVE DInv'
    BY <2>1, BeginOnShiftPreserves DEF ShiftKinds
  <2>2. CASE Step(t)
    BY <2>2, SumAllocationsPreserves, FindDrawerPreserves, ReadFactsPreserves,
       FindLinkedShiftPreserves, InsertShiftPreserves, InsertReceiptPreserves,
       TakeNumberPreserves, UpdateShiftPreserves, UpdateSalePreserves, CommitPreserves DEF Step
  <2> QED BY <1>1, <2>1, <2>2, BeginOpenPreserves, BeginOnSalePreserves, RollbackPreserves
          DEF Fail
<1>2. CASE UNCHANGED drawerVars
  <2>1. UNCHANGED vars /\ UNCHANGED <<shiftVersion, saleVersion, receipts, tx>>
    BY <1>2 DEF drawerVars, state, vars
  <2>2. IInv'
    BY <2>1, BooksKeep DEF DInv
  <2>3. VersionsOK' /\ Receipted' /\ AllKnow' /\ AllApart'
    BY <2>1 DEF DInv, VersionsOK, Receipted, AllKnow, AllApart, Running, vars
  <2> QED BY <2>2, <2>3 DEF DInv
<1> QED BY <1>1, <1>2 DEF DrawerNext

LEMMA DrawerImplements == DInv /\ [DrawerNext]_drawerVars => [Next]_vars
<1> SUFFICES ASSUME DInv, [DrawerNext]_drawerVars PROVE [Next]_vars
  OBVIOUS
<1>1. CASE \E t \in Txns : Commit(t)
  BY <1>1, CommitsImplement
<1>2. CASE ~ \E t \in Txns : Commit(t)
  <2>1. UNCHANGED state
    BY <1>2 DEF DrawerNext, drawerVars, state, BeginOpen, BeginOnShift, BeginOnSale, Begin, Step,
       SumAllocations, FindDrawer, ReadFacts, FindLinkedShift, InsertShift, InsertReceipt,
       TakeNumber, UpdateShift, UpdateSale, Fail, Continue, Rollback
  <2> QED BY <2>1 DEF state, vars
<1> QED BY <1>1, <1>2

(* The inductive invariant of the transactions: the books are consistent,  *)
(* no row is written by two, and what a transaction has seen is still so   *)
(* while the row has the version it saw.                                   *)
THEOREM DrawerInvariance == DrawerSpec => []DInv
BY DrawerInitEstablishes, DrawerKeeps, PTL DEF DrawerSpec

(* Whatever transactions overlap on the drawer, each takes effect at once  *)
(* at its commit, on the books as they then are, or not at all.            *)
THEOREM TransactionsImplementBooks == DrawerSpec => ImplementsBooks
<1>1. DrawerInit => Init
  BY DEF DrawerInit
<1> QED BY <1>1, DrawerInvariance, DrawerImplements, PTL DEF DrawerSpec, Spec, ImplementsBooks

(* No transaction loses what another adds to the totals of a shift.        *)
THEOREM DrawerIsReconciled == DrawerSpec => []DrawerReconciles
<1>1. DInv => DrawerReconciles
  BY DEF DInv, IInv
<1> QED BY <1>1, DrawerInvariance, PTL

(* The cash of a sale is given back one way, whoever races to refund it.   *)
THEOREM DrawerRefundsAgree == DrawerSpec => []RefundsAgree
<1>1. DInv => RefundsAgree
  BY DEF DInv, IInv
<1> QED BY <1>1, DrawerInvariance, PTL

(* No transaction changes a shift that has closed in the meantime.         *)
THEOREM DrawerClosesForGood == DrawerSpec => ClosedShiftFinal
BY TransactionsImplementBooks, ClosedIsFinal, PTL DEF ImplementsBooks

-----------------------------------------------------------------------------
(* Waiting.  A transaction that waits is at one of five statements; whoever *)
(* has written is at its commit, or on the way to the row it writes last:  *)
(* the sale, when it completes one, the shift, when it takes one back.     *)

LEMMA WritersAt ==
    ASSUME DInv, NEW u \in Running
    PROVE  /\ tx[u].newShift # None =>
                tx[u].at = "commit" \/ (tx[u].kind = "complete" /\ tx[u].at = "sale")
           /\ tx[u].newSale # None =>
                \/ tx[u].at = "commit"
                \/ /\ tx[u].kind = "refund" /\ tx[u].at \in {"linked", "shift"}
                   /\ tx[u].sale \in receipts
<1> DEFINE x == tx[u]
<1>1. Knows(x, shift, shiftVersion, sale, back, allocated, saleVersion, receipts)
  BY Known
<1>2. \A s \in SaleIds : sale[s].status \in Taken => s \in receipts
  BY DEF DInv, Receipted
<1> HIDE DEF x
<1>3. CASE x.kind = "open"
  BY <1>1, <1>3 DEF Knows, OpenKnows, x
<1>4. CASE x.kind \in ShiftKinds
  BY <1>1, <1>4 DEF Knows, ShiftKnows, x
<1>5. CASE x.kind \in PlainKinds
  BY <1>1, <1>5 DEF Knows, PlainKnows, x
<1>6. CASE x.kind = "complete"
  <2>1. x.newShift # None => x.at \in {"sale", "commit"}
    BY <1>1, <1>6 DEF Knows, CompleteKnows
  <2>2. x.newSale # None => x.at = "commit"
    BY <1>1, <1>6 DEF Knows, CompleteKnows
  <2> QED BY <1>6, <2>1, <2>2 DEF x
<1>7. CASE x.kind = "refund"
  <2>1. RefundKnows(x, shift, shiftVersion, sale, back, saleVersion)
    BY <1>1, <1>7 DEF Knows
  <2>2. ASSUME x.newSale # None PROVE x.at \in {"linked", "shift", "commit"} /\ x.sale \in receipts
    <3>1. HoldsSale(x, saleVersion) /\ SeesSale(x, sale, saleVersion)
      BY <2>1, <2>2 DEF RefundKnows
    <3>2. /\ x.sale \in SaleIds /\ x.sawSale.row.status \in From["refund"]
          /\ sale[x.sale].status = x.sawSale.row.status
      BY <1>7, <3>1 DEF HoldsSale, SeesSale
    <3>3. x.sawSale.row.status \in Taken
      BY <3>2 DEF From, Taken
    <3> QED BY <1>2, <2>1, <2>2, <3>2, <3>3 DEF RefundKnows
  <2>3. x.newShift # None => x.at = "commit"
    BY <2>1 DEF RefundKnows
  <2> QED BY <1>7, <2>2, <2>3 DEF x
<1> QED BY <1>1, <1>3, <1>4, <1>5, <1>6, <1>7 DEF Knows, SaleKinds

LEMMA NobodyWaitsInACircle == DInv => NoWaitCycle
<1> SUFFICES ASSUME DInv, NEW waiting \in SUBSET Running, waiting # {},
                    \A t \in waiting : Blockers(t) \cap waiting # {}
             PROVE  FALSE
  BY DEF NoWaitCycle
<1>1. \A t \in waiting : tx[t].at \in {"insert", "shift", "sale", "receipt", "number"}
  BY DEF Blockers
<1>2. ASSUME NEW u \in waiting
      PROVE  /\ tx[u].newShift # None => tx[u].kind = "complete" /\ tx[u].at = "sale"
             /\ tx[u].newSale # None => /\ tx[u].kind = "refund" /\ tx[u].at = "shift"
                                        /\ tx[u].sale \in receipts
  <2>1. u \in Running /\ tx[u].at \notin {"commit", "linked"}
    BY <1>1
  <2> QED BY <2>1, WritersAt
(* A sale that is being completed has no receipt, one that is being taken  *)
(* back has one: the completion waits for nobody who waits.                *)
<1>3. ASSUME NEW t \in waiting, tx[t].at = "sale" PROVE tx[t].kind # "complete"
  <2>1. PICK u \in waiting : u \in Blockers(t)
    OBVIOUS
  <2>2. tx[u].newSale # None /\ tx[u].sale = tx[t].sale
    BY <1>3, <2>1 DEF Blockers, WroteSale
  <2>3. tx[t].sale \in receipts
    BY <1>2, <2>2
  <2>4. tx[t].kind = "complete" => tx[t].sale \notin receipts
    BY <1>3, Known DEF Knows, CompleteKnows
  <2> QED BY <2>3, <2>4
<1>4. ASSUME NEW t \in waiting PROVE tx[t].newShift = None
  BY <1>2, <1>3
<1>5. ASSUME NEW t \in waiting PROVE tx[t].at \notin {"insert", "shift"}
  <2> PICK u \in waiting : u \in Blockers(t)
    OBVIOUS
  <2> QED BY <1>4 DEF Blockers, WroteShift
<1>6. ASSUME NEW t \in waiting PROVE tx[t].newSale = None
  BY <1>2, <1>5
<1>7. ASSUME NEW t \in waiting PROVE tx[t].at # "sale"
  <2> PICK u \in waiting : u \in Blockers(t)
    OBVIOUS
  <2> QED BY <1>6 DEF Blockers, WroteSale
<1>8. \A t \in waiting : tx[t].at \in {"receipt", "number"}
  BY <1>1, <1>5, <1>7
<1>9. ASSUME NEW t \in waiting PROVE FALSE
  <2> PICK u \in waiting : u \in Blockers(t)
    OBVIOUS
  <2> QED BY <1>8 DEF Blockers, WroteReceipt, Numbered
<1> QED BY <1>9

(* PostgreSQL never has to break a deadlock between requests on a drawer:  *)
(* whoever waits for a row does not hold, and is never waited for by one   *)
(* who holds, what the owner of that row may still want.                   *)
THEOREM DrawerNeverDeadlocks == DrawerSpec => []NoWaitCycle
BY DrawerInvariance, NobodyWaitsInACircle, PTL

-----------------------------------------------------------------------------
(* Types: what a transaction is about is fixed when it begins.             *)

AboutOK(x) == x.sale \in SaleIds \cup {None} /\ x.qty \in 0..Units

TInv == requests \in 0..MaxRequests /\ \A t \in Running : AboutOK(tx[t])

LEMMA AboutNext ==
    ASSUME DInv, TInv, NEW t \in Txns, NEW y, tx' = [tx EXCEPT ![t] = y],
           y # None => AboutOK(y), requests' \in 0..MaxRequests
    PROVE  TInv'
<1>1. \A u \in Txns : tx'[u] = IF u = t THEN y ELSE tx[u]
  BY Typed
<1> QED BY <1>1 DEF TInv, Running

LEMMA AboutBegin ==
    ASSUME DInv, TInv, NEW t \in Txns, NEW y, Begin(t, y), AboutOK(y)
    PROVE  TInv'
<1>1. requests' \in 0..MaxRequests
  BY DrawerAssumption DEF Begin, TInv
<1> QED BY <1>1, AboutNext DEF Begin

LEMMA AboutGoOn ==
    ASSUME DInv, TInv, NEW t \in Running, NEW y, Continue(t, y), y.sale = tx[t].sale,
           y.qty = tx[t].qty \/ y.qty \in 0..Units
    PROVE  TInv'
<1>1. requests' \in 0..MaxRequests /\ AboutOK(y) /\ t \in Txns
  BY DEF Continue, TInv, AboutOK, Running
<1> QED BY <1>1, AboutNext DEF Continue

LEMMA RequestsTyped ==
    ASSUME DInv, TInv, NEW t \in Txns,
           \/ BeginOpen(t)
           \/ \E kind \in {"close", "cashIn", "cashOut"} : BeginOnShift(t, kind)
           \/ \E kind \in DOMAIN From, s \in SaleIds : BeginOnSale(t, kind, s)
    PROVE  TInv'
<1>0. 0 \in 0..Units
  BY BooksAssumption
<1>1. ASSUME NEW kind, NEW at
      PROVE  /\ Transaction(kind, at).sale = None /\ Transaction(kind, at).qty = 0
             /\ DOMAIN Transaction(kind, at) = Fields
  BY DEF Transaction, Fields
<1>2. CASE BeginOpen(t)
  <2>1. AboutOK(Transaction("open", "insert"))
    BY <1>0, <1>1 DEF AboutOK
  <2> QED BY <1>2, <2>1, AboutBegin DEF BeginOpen
<1>3. ASSUME NEW kind, BeginOnShift(t, kind) PROVE TInv'
  <2> DEFINE x == Transaction(kind, IF kind = "close" THEN "sum" ELSE "shift")
  <2>1. PICK h \in OpenShifts : Begin(t, [x EXCEPT !.sawShift = ReadShift(h)])
    BY <1>3 DEF BeginOnShift
  <2>2. x.sale = None /\ x.qty = 0 /\ DOMAIN x = Fields
    BY <1>1
  <2> HIDE DEF x
  <2>3. AboutOK([x EXCEPT !.sawShift = ReadShift(h)])
    BY <1>0, <2>2 DEF AboutOK, Fields
  <2> QED BY <2>1, <2>3, AboutBegin
<1>4. ASSUME NEW kind, NEW s \in SaleIds, BeginOnSale(t, kind, s) PROVE TInv'
  <2> DEFINE x == Transaction(kind, FirstStatement(kind))
             y == [x EXCEPT !.sale = s, !.sawSale = ReadSale(s)]
  <2>1. Begin(t, y)
    BY <1>4 DEF BeginOnSale
  <2>2. x.sale = None /\ x.qty = 0 /\ DOMAIN x = Fields
    BY <1>1
  <2> HIDE DEF x
  <2>3. AboutOK(y)
    BY <1>0, <2>2 DEF AboutOK, Fields
  <2> QED BY <2>1, <2>3, AboutBegin
<1> QED BY <1>2, <1>3, <1>4

LEMMA StepsTyped == ASSUME DInv, TInv, NEW t \in Txns, Step(t) \/ Fail(t) PROVE TInv'
<1> DEFINE x == tx[t]
<1>1. t \in Running /\ DOMAIN x = Fields
  <2>1. t \in Running
    BY DEF Step, SumAllocations, FindDrawer, ReadFacts, FindLinkedShift, InsertShift,
       InsertReceipt, TakeNumber, UpdateShift, UpdateSale, Commit, Runs, At, Fail
  <2> QED BY <2>1, Known DEF Knows
<1>2. ASSUME tx' = [tx EXCEPT ![t] = None], UNCHANGED requests PROVE TInv'
  BY <1>2, AboutNext DEF TInv
<1>3. CASE Rollback(t) \/ Commit(t)
  BY <1>2, <1>3 DEF Rollback, Commit
<1>4. CASE SumAllocations(t)
  <2> DEFINE y == [x EXCEPT !.netted = [s \in SaleIds |-> IF sale[s].link = x.sawShift.id
                                                          THEN allocated[s] ELSE 0],
                            !.at = "shift"]
  <2>1. Continue(t, y) /\ y.sale = x.sale /\ y.qty = x.qty
    BY <1>1, <1>4 DEF SumAllocations, Fields
  <2> QED BY <1>1, <2>1, AboutGoOn
<1>5. CASE FindDrawer(t) \/ FindLinkedShift(t)
  <2>1. PICK y : Continue(t, y) /\ y.sale = x.sale /\ y.qty = x.qty
    <3>1. ASSUME NEW at, Continue(t, [x EXCEPT !.at = at])
          PROVE  \E y : Continue(t, y) /\ y.sale = x.sale /\ y.qty = x.qty
      BY <1>1, <3>1 DEF Fields
    <3>2. ASSUME NEW h, Continue(t, [x EXCEPT !.sawShift = ReadShift(h), !.at = "shift"])
          PROVE  \E y : Continue(t, y) /\ y.sale = x.sale /\ y.qty = x.qty
      <4> DEFINE z == [x EXCEPT !.sawShift = ReadShift(h), !.at = "shift"]
      <4>1. Continue(t, z) /\ z.sale = x.sale /\ z.qty = x.qty
        BY <1>1, <3>2 DEF Fields
      <4> QED BY <4>1
    <3>3. CASE FindDrawer(t)
      BY <3>1, <3>2, <3>3 DEF FindDrawer
    <3>4. CASE FindLinkedShift(t)
      BY <3>1, <3>2, <3>4 DEF FindLinkedShift
    <3> QED BY <1>5, <3>3, <3>4
  <2> QED BY <1>1, <2>1, AboutGoOn
<1>6. CASE ReadFacts(t) /\ ~Rollback(t)
  <2>1. PICK n \in 1..Units :
          Continue(t, [x EXCEPT !.prior = back[x.sale], !.qty = n, !.at = "number"])
    BY <1>6 DEF ReadFacts
  <2> DEFINE y == [x EXCEPT !.prior = back[x.sale], !.qty = n, !.at = "number"]
  <2>2. Continue(t, y) /\ y.sale = x.sale /\ y.qty = n /\ n \in 0..Units
    BY <1>1, <2>1, BooksAssumption DEF Fields
  <2> QED BY <1>1, <2>2, AboutGoOn
<1>7. CASE InsertShift(t) /\ ~Rollback(t)
  <2>1. PICK h \in Shifts :
          Continue(t, [x EXCEPT !.newShift = [id |-> h, row |-> NewShift], !.at = "commit"])
    BY <1>7 DEF InsertShift
  <2> DEFINE y == [x EXCEPT !.newShift = [id |-> h, row |-> NewShift], !.at = "commit"]
  <2>2. Continue(t, y) /\ y.sale = x.sale /\ y.qty = x.qty
    BY <1>1, <2>1 DEF Fields
  <2> QED BY <1>1, <2>2, AboutGoOn
<1>8. CASE (InsertReceipt(t) \/ TakeNumber(t)) /\ ~Rollback(t)
  <2>1. PICK at : Continue(t, [x EXCEPT !.at = at])
    BY <1>8 DEF InsertReceipt, TakeNumber
  <2> DEFINE y == [x EXCEPT !.at = at]
  <2>2. Continue(t, y) /\ y.sale = x.sale /\ y.qty = x.qty
    BY <1>1, <2>1 DEF Fields
  <2> QED BY <1>1, <2>2, AboutGoOn
<1>9. CASE UpdateShift(t) /\ ~Rollback(t)
  <2>1. PICK at, new : Continue(t, [x EXCEPT !.newShift = new, !.at = at])
    BY <1>9 DEF UpdateShift
  <2> DEFINE y == [x EXCEPT !.newShift = new, !.at = at]
  <2>2. Continue(t, y) /\ y.sale = x.sale /\ y.qty = x.qty
    BY <1>1, <2>1 DEF Fields
  <2> QED BY <1>1, <2>2, AboutGoOn
<1>10. CASE UpdateSale(t) /\ ~Rollback(t)
  <2>1. PICK at, new : Continue(t, [x EXCEPT !.newSale = new, !.at = at])
    BY <1>10 DEF UpdateSale
  <2> DEFINE y == [x EXCEPT !.newSale = new, !.at = at]
  <2>2. Continue(t, y) /\ y.sale = x.sale /\ y.qty = x.qty
    BY <1>1, <2>1 DEF Fields
  <2> QED BY <1>1, <2>2, AboutGoOn
<1> QED BY <1>3, <1>4, <1>5, <1>6, <1>7, <1>8, <1>9, <1>10 DEF Step, Fail

LEMMA TypesKeep == DInv /\ TInv /\ [DrawerNext]_drawerVars => TInv'
<1> SUFFICES ASSUME DInv, TInv, [DrawerNext]_drawerVars PROVE TInv'
  OBVIOUS
<1>1. CASE DrawerNext
  BY <1>1, RequestsTyped, StepsTyped DEF DrawerNext
<1>2. CASE UNCHANGED drawerVars
  BY <1>2 DEF drawerVars, TInv, Running
<1> QED BY <1>1, <1>2

(* A shift counts no more sales than there are.                            *)
LEMMA TypesMean == DInv /\ TInv => TypeOK
<1> SUFFICES ASSUME DInv, TInv PROVE TypeOK
  OBVIOUS
<1>1. ASSUME NEW h \in Shifts, shift[h] # None
      PROVE  shift[h].sales \in 0..Cardinality(SaleIds)
  <2>1. shift[h] \in Row /\ shift[h].sales \in Nat
    BY <1>1, Typed DEF Row
  <2>2. shift[h].sales <= Cardinality(Linked(h))
    BY <1>1, Reconciles DEF DInv, IInv
  <2>3. Linked(h) \subseteq SaleIds /\ IsFiniteSet(SaleIds)
    BY BooksAssumption DEF Linked
  <2>4. /\ Cardinality(Linked(h)) <= Cardinality(SaleIds)
        /\ Cardinality(Linked(h)) \in Nat /\ Cardinality(SaleIds) \in Nat
    BY <2>3, FiniteSales, FS_Subset, FS_CardinalityType
  <2> QED BY <2>1, <2>2, <2>4
<1> QED BY <1>1, Typed DEF TypeOK, TInv, AboutOK, DInv, IInv

(* Rows, versions and the transactions themselves keep their types.        *)
THEOREM DrawerTypeCorrect == DrawerSpec => []TypeOK
<1>1. DrawerInit => TInv
  BY DrawerAssumption DEF DrawerInit, TInv, Running
<1> QED BY <1>1, DrawerInvariance, TypesKeep, TypesMean, PTL DEF DrawerSpec
=============================================================================

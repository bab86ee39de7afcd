----------------------------- MODULE DrawerBooks -----------------------------
(***************************************************************************)
(* What the sales service promises about a cash drawer, its sales and      *)
(* their refunds, free of transactions, row versions and locks: every      *)
(* request takes effect at once, on the books as they are at that moment,  *)
(* or not at all.  CashDrawer.tla shows that the statements of concurrent  *)
(* transactions amount to this.                                            *)
(*                                                                         *)
(* One drawer is one warehouse and cashier.  Every sale is of Units units, *)
(* each paid with one unit of cash and refundable on its own.              *)
(***************************************************************************)
EXTENDS Naturals, FiniteSets, Null

CONSTANTS
    Shifts,      \* shifts the drawer may have, one after another
    SaleIds,     \* sales
    Units        \* units of every sale

Row == [status : {"OPEN", "CLOSED"}, sales : Nat, in : Nat, out : Nat,
        netted : [SaleIds -> 0..Units] \cup {None}]

ASSUME BooksAssumption ==
    /\ Units \in Nat \ {0}
    /\ IsFiniteSet(SaleIds)
    /\ None \notin Shifts \cup SaleIds \cup Row

VARIABLES
    shift,       \* shift[h]: the CashShift row, or None before it is opened
    sale,        \* sale[s]: status, link to a shift and deletion of a Sale row
    back,        \* back[s]: units refunded (SalesRefund facts)
    allocated,   \* allocated[s]: cash in RefundPaymentAllocation rows of s
    posted       \* posted[h]: cash-in and cash-out journal entries of shift h

vars == <<shift, sale, back, allocated, posted>>

OpenShifts == {h \in Shifts : shift[h] # None /\ shift[h].status = "OPEN"}

NewShift == [status |-> "OPEN", sales |-> 0, in |-> 0, out |-> 0, netted |-> None]

Init ==
    /\ shift = [h \in Shifts |-> None]
    /\ sale = [s \in SaleIds |-> [status |-> "DRAFT", link |-> None, deleted |-> FALSE]]
    /\ back = [s \in SaleIds |-> 0]
    /\ allocated = [s \in SaleIds |-> 0]
    /\ posted = [h \in Shifts |-> [in |-> 0, out |-> 0]]

-----------------------------------------------------------------------------
Open(h) ==
    /\ OpenShifts = {}
    /\ shift[h] = None
    /\ shift' = [shift EXCEPT ![h] = NewShift]
    /\ UNCHANGED <<sale, back, allocated, posted>>

(* A shift closes net of refunds of its sales; those of the last moment    *)
(* may be missing from what it nets.                                       *)
Close(h, netted) ==
    /\ h \in OpenShifts
    /\ \A s \in SaleIds : netted[s] <= (IF sale[s].link = h THEN allocated[s] ELSE 0)
    /\ shift' = [shift EXCEPT ![h].status = "CLOSED", ![h].netted = netted]
    /\ UNCHANGED <<sale, back, allocated, posted>>

CashIn(h) ==
    /\ h \in OpenShifts
    /\ shift' = [shift EXCEPT ![h].in = @ + 1]
    /\ posted' = [posted EXCEPT ![h].in = @ + 1]
    /\ UNCHANGED <<sale, back, allocated>>

CashOut(h) ==
    /\ h \in OpenShifts
    /\ shift' = [shift EXCEPT ![h].out = @ + 1]
    /\ posted' = [posted EXCEPT ![h].out = @ + 1]
    /\ UNCHANGED <<sale, back, allocated>>

Transitions ==
    [DRAFT |-> {"PENDING", "CANCELLED", "COMPLETED"},
     PENDING |-> {"COMPLETED", "CANCELLED"}]

May(s, status) ==
    /\ ~sale[s].deleted
    /\ sale[s].status \in {"DRAFT", "PENDING"}
    /\ status \in Transitions[sale[s].status]

(* A sale completes into the open shift, or outside every shift.           *)
Complete(s, h) ==
    /\ May(s, "COMPLETED")
    /\ h = None \/ h \in OpenShifts
    /\ sale' = [sale EXCEPT ![s].status = "COMPLETED", ![s].link = h]
    /\ IF h = None THEN UNCHANGED shift
                   ELSE shift' = [shift EXCEPT ![h].sales = @ + 1]
    /\ UNCHANGED <<back, allocated, posted>>

Change(s, status) ==
    /\ May(s, status) /\ status # "COMPLETED"
    /\ sale' = [sale EXCEPT ![s].status = status]
    /\ UNCHANGED <<shift, back, allocated, posted>>

Delete(s) ==
    /\ ~sale[s].deleted /\ sale[s].status = "DRAFT"
    /\ sale' = [sale EXCEPT ![s].deleted = TRUE]
    /\ UNCHANGED <<shift, back, allocated, posted>>

(* All of a sale at once: out of its shift, if that is still open.         *)
RefundWhole(s) ==
    /\ ~sale[s].deleted /\ sale[s].status = "COMPLETED"
    /\ sale' = [sale EXCEPT ![s].status = "REFUNDED"]
    /\ back' = [back EXCEPT ![s] = Units]
    /\ IF sale[s].link \in OpenShifts
         THEN shift' = [shift EXCEPT ![sale[s].link].sales = @ - 1]
         ELSE UNCHANGED shift
    /\ UNCHANGED <<allocated, posted>>

(* Some units: the cash is recorded against the sale, for the closing.     *)
RefundPart(s, n) ==
    /\ ~sale[s].deleted /\ sale[s].status \in {"COMPLETED", "PARTIALLY_REFUNDED"}
    /\ n \in 1..(Units - back[s]) /\ (sale[s].status = "COMPLETED" => n < Units)
    /\ back' = [back EXCEPT ![s] = @ + n]
    /\ allocated' = [allocated EXCEPT ![s] = @ + n]
    /\ sale' = [sale EXCEPT ![s].status =
                  IF back[s] + n = Units THEN "REFUNDED" ELSE "PARTIALLY_REFUNDED"]
    /\ UNCHANGED <<shift, posted>>

Next ==
    \/ \E h \in Shifts :
          \/ Open(h) \/ CashIn(h) \/ CashOut(h)
          \/ \E netted \in [SaleIds -> 0..Units] : Close(h, netted)
    \/ \E s \in SaleIds :
          \/ \E h \in Shifts \cup {None} : Complete(s, h)
          \/ \E status \in {"PENDING", "CANCELLED"} : Change(s, status)
          \/ Delete(s) \/ RefundWhole(s)
          \/ \E n \in 1..Units : RefundPart(s, n)

Spec == Init /\ [][Next]_vars

-----------------------------------------------------------------------------
Statuses == {"DRAFT", "PENDING", "CANCELLED", "COMPLETED", "PARTIALLY_REFUNDED",
             "REFUNDED"}

BooksTypeOK ==
    /\ shift \in [Shifts -> Row \cup {None}]
    /\ sale \in [SaleIds -> [status : Statuses, link : Shifts \cup {None},
                             deleted : BOOLEAN]]
    /\ back \in [SaleIds -> 0..Units]
    /\ allocated \in [SaleIds -> 0..Units]
    /\ posted \in [Shifts -> [in : Nat, out : Nat]]

TakenWhole(s) == sale[s].status = "REFUNDED" /\ allocated[s] = 0

(* The totals of a shift are those of the sales linked to it and of the    *)
(* journal entries posted for it: no concurrent request loses the amount   *)
(* of another (H2).  A closed shift keeps sales taken back after closing.  *)
DrawerReconciles ==
    \A h \in Shifts : shift[h] # None =>
        LET linked == {s \in SaleIds : sale[s].link = h}
            kept == {s \in linked : ~TakenWhole(s)}
        IN  /\ shift[h].in = posted[h].in /\ shift[h].out = posted[h].out
            /\ Cardinality(kept) <= shift[h].sales
            /\ shift[h].sales <= Cardinality(linked)
            /\ shift[h].status = "OPEN" => shift[h].sales = Cardinality(kept)

(* Status, refund facts and allocations of a sale agree, and its cash is   *)
(* given back one way: out of the shift's sales in one piece, or through   *)
(* allocations, never both (cash-shift.service.ts:168-175).                *)
RefundsAgree ==
    \A s \in SaleIds :
        /\ sale[s].status = "REFUNDED" <=> back[s] = Units
        /\ sale[s].status = "PARTIALLY_REFUNDED" <=> back[s] \in 1..(Units - 1)
        /\ allocated[s] = back[s] \/ (allocated[s] = 0 /\ back[s] = Units)

(* Nothing changes the row of a closed shift.                              *)
ClosedShiftFinal ==
    [][\A h \in Shifts : shift[h] # None /\ shift[h].status = "CLOSED"
                           => shift'[h] = shift[h]]_vars
=============================================================================

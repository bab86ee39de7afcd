-------------------------- MODULE RefundAllocation --------------------------
(***************************************************************************)
(* The refunds of one completed sale, one after another: what each refund  *)
(* gives back (money and FIFO cost per sale item), how that money is split *)
(* over the payment methods of the sale, and the customer credit it issues *)
(* (SalesRefundService, RefundPaymentAllocationService,                    *)
(* CustomerCreditLedgerService).  CashDrawer.tla shows that refunds of one *)
(* sale take effect one after another.                                     *)
(*                                                                         *)
(* Money is counted in units of 0.0001, the scale of the Decimal columns.  *)
(* Operators named Mutant.. are plausible bugs of the definition that      *)
(* follows them.                                                           *)
(***************************************************************************)
EXTENDS Integers, Sequences, FiniteSets, FiniteSetsExt, Functions, Null

CONSTANTS
    Order,    \* the payment methods in the order remainders are dealt
    Cash,     \* the method change is paid out of
    Credit,   \* the methods backed by the customer's credit
    Items,    \* the items of the sale
    Sales     \* the sales considered (see SalesAssumption)

Methods == {Order[p] : p \in 1..Len(Order)}

(* A discount is not limited: the total of an item may be negative.        *)
ItemFacts == [qty : Nat \ {0}, total : Int, fifo : Nat \cup {None}, costPrice : Nat]

Total(s) == SumFunction([i \in Items |-> s.items[i].total])

(* A sale is created with payments that cover its total.                   *)
ASSUME SalesAssumption ==
    /\ Order \in Seq(Range(Order)) /\ IsFiniteSet(Items)
    /\ Cash \in Methods /\ Credit \subseteq Methods \ {Cash}
    /\ \A s \in Sales : /\ s.items \in [Items -> ItemFacts]
                        /\ s.paid \in [Methods -> Nat]
                        /\ s.customer \in BOOLEAN
                        /\ SumFunction(s.paid) >= Total(s)

VARIABLES
    sale,        \* the sale: its items, its payments, whether it has a customer
    status,      \* Sale.status
    back,        \* back[i]: quantity, money and cost refunded of item i
    allocations, \* allocations[m]: sum of its RefundPaymentAllocation rows
    issued,      \* credit issued to the customer by refunds of this sale
    refunds      \* number of refunds

refundsVars == <<sale, status, back, allocations, issued, refunds>>

Change(s) == SumFunction(s.paid) - Total(s)

(* The per-method buckets; change always comes out of the cash.            *)
Effective(s) ==
    [m \in Methods |->
        IF m # Cash THEN s.paid[m]
        ELSE IF s.paid[m] > Change(s) THEN s.paid[m] - Change(s) ELSE 0]

CreditPaid(s) == SumFunction([m \in Credit |-> s.paid[m]])

-----------------------------------------------------------------------------
(* The lines of a refund that takes back q[i] of every item i.             *)

(* Decimal rounding of a / b, a half away from zero.                       *)
Rounded(a, b) ==
    IF a < 0 THEN -((2 * (-a) + b) \div (2 * b)) ELSE (2 * a + b) \div (2 * b)

Left(i) == sale.items[i].qty - back[i].qty

(* buildRefundLines: a share of the item's total, and for the last of the  *)
(* item whatever is left of it, which nothing keeps from being negative.   *)
LineTotal(i, q) ==
    IF q = Left(i) THEN sale.items[i].total - back[i].total
                   ELSE Rounded(sale.items[i].total * q, sale.items[i].qty)

MutantLineCost(i, q) ==
    LET fact == sale.items[i]
    IN  IF fact.fifo = None THEN fact.costPrice * q
                            ELSE Rounded(fact.fifo * q, fact.qty)

(* computeRefundFifoCost: the same for the FIFO cost, or the cost price of *)
(* a sale completed before FIFO costs were recorded.                       *)
LineCost(i, q) ==
    LET fact == sale.items[i]
    IN  IF fact.fifo = None THEN fact.costPrice * q
        ELSE IF q = Left(i) THEN fact.fifo - back[i].cost
        ELSE Rounded(fact.fifo * q, fact.qty)

(* A quantity of 0 stands for an item the request does not name.           *)
Requests == {q \in [Items -> 0..Max({sale.items[i].qty : i \in Items})] :
                /\ \A i \in Items : q[i] <= Left(i)
                /\ \E i \in Items : q[i] > 0}

AllRemaining == [i \in Items |-> Left(i)]

Named(q) == {i \in Items : q[i] > 0}

RefundTotal(q) == SumFunction([i \in Named(q) |-> LineTotal(i, q[i])])

-----------------------------------------------------------------------------
(* The split of a refund over the payment methods (createForRefund).       *)

(* First every bucket's proportional share, rounded down.                  *)
Share(total) ==
    [m \in Methods |-> (total * Effective(sale)[m]) \div Total(sale)]

(* Then the steps of 0.0001 that are left: cycle after cycle, one to every *)
(* method in Order that has room for it, until none is left or no bucket   *)
(* has room.  A slot <<c, p>> is the step of method Order[p] in cycle c.   *)
Slots(total) ==
    LET room == [m \in Methods |-> Effective(sale)[m] - allocations[m] - Share(total)[m]]
        rest == total - SumFunction(Share(total))
    IN  {x \in (1..rest) \X (1..Len(Order)) : x[1] <= room[Order[x[2]]]}

Dealt(total) ==
    LET slots == Slots(total)
        rest == total - SumFunction(Share(total))
        Before(x) == {y \in slots : y[1] < x[1] \/ (y[1] = x[1] /\ y[2] < x[2])}
    IN  {x \in slots : Cardinality(Before(x)) < rest}

Split(total) ==
    LET share == Share(total)
        dealt == Dealt(total)
    IN  [m \in Methods |-> share[m] + Cardinality({x \in dealt : Order[x[2]] = m})]

MutantFits(split) ==
    \A m \in Methods : split[m] <= Effective(sale)[m]

Fits(split) ==
    \A m \in Methods : split[m] > 0 => allocations[m] + split[m] <= Effective(sale)[m]

(* Every check of createForRefund, and the customer that credit needs.     *)
CanAllocate(total) ==
    /\ total > 0 /\ Total(sale) > 0
    /\ SumFunction(Effective(sale)) = Total(sale)
    /\ LET split == Split(total)
       IN  /\ SumFunction(split) = total
           /\ Fits(split)
           /\ (\E m \in Credit : split[m] > 0) => sale.customer

-----------------------------------------------------------------------------
RefundsInit ==
    /\ sale \in Sales
    /\ status = "COMPLETED"
    /\ back = [i \in Items |-> [qty |-> 0, total |-> 0, cost |-> 0]]
    /\ allocations = [m \in Methods |-> 0]
    /\ issued = 0
    /\ refunds = 0

Complete(q) == q = AllRemaining

(* A first refund of everything: no allocation, the payments themselves    *)
(* are reversed, and the credit they took comes back in one piece.         *)
SingleShot(q) == status = "COMPLETED" /\ Complete(q)

Accepted(q) ==
    /\ status \in {"COMPLETED", "PARTIALLY_REFUNDED"}
    /\ q \in Requests
    /\ SingleShot(q) \/ CanAllocate(RefundTotal(q))

MutantCredited(split) == SumFunction([m \in Credit |-> allocations[m] + split[m]])

Credited(split) == SumFunction([m \in Credit |-> split[m]])

(* createRefundInTransaction; a refund that is not accepted leaves nothing *)
(* behind.                                                                 *)
Refund(q) ==
    /\ Accepted(q)
    /\ back' = [i \in Items |->
                  IF q[i] = 0 THEN back[i]
                  ELSE [qty   |-> back[i].qty + q[i],
                        total |-> back[i].total + LineTotal(i, q[i]),
                        cost  |-> back[i].cost + LineCost(i, q[i])]]
    /\ status' = IF Complete(q) THEN "REFUNDED" ELSE "PARTIALLY_REFUNDED"
    /\ IF SingleShot(q)
         THEN /\ issued' = issued + (IF sale.customer THEN CreditPaid(sale) ELSE 0)
              /\ UNCHANGED allocations
         ELSE LET split == Split(RefundTotal(q))
              IN  /\ issued' = issued + Credited(split)
                  /\ allocations' = [m \in Methods |-> allocations[m] + split[m]]
    /\ refunds' = refunds + 1
    /\ UNCHANGED sale

RefundsNext == \E q \in Requests : Refund(q)

RefundsSpec == RefundsInit /\ [][RefundsNext]_refundsVars

-----------------------------------------------------------------------------
RefundsTypeOK ==
    /\ status \in {"COMPLETED", "PARTIALLY_REFUNDED", "REFUNDED"}
    /\ \A i \in Items : back[i] \in [qty : 0..sale.items[i].qty, total : Int, cost : Int]
    /\ allocations \in [Methods -> Nat]
    /\ issued \in Nat /\ refunds \in Nat

(* However a sale is refunded, in pieces or at once, the money given back  *)
(* is the money taken: no bucket gives more than it got, the rows add up   *)
(* to the refunds, and at the end every bucket is exactly empty although   *)
(* each share was rounded (refund-payment-allocation.service.ts).          *)
MethodsRestored ==
    LET rows == SumFunction(allocations)
        money == SumFunction([i \in Items |-> back[i].total])
    IN  /\ \A m \in Methods : allocations[m] <= Effective(sale)[m]
        /\ status = "PARTIALLY_REFUNDED" => rows = money
        /\ status = "REFUNDED" => /\ money = Total(sale)
                                  /\ rows = 0 \/ allocations = Effective(sale)

(* An amount is well above the scale if a unit of it is worth at least     *)
(* half as many steps of 0.0001 as there are units: below that, rounding   *)
(* up may use the amount up before the last unit is back.                  *)
AboveScale(amount, qty) == amount = 0 \/ 2 * amount > qty * (qty - 1)

(* Once the whole quantity of an item is back, its lines have given back   *)
(* exactly its price and its FIFO cost, whatever they are; and on the way  *)
(* there never more than that, as long as the price (or the cost) is well  *)
(* above the scale (buildRefundLines, computeRefundFifoCost).              *)
LinesConserved ==
    \A i \in Items :
        LET fact == sale.items[i]
            cost == IF fact.fifo = None THEN fact.costPrice * fact.qty ELSE fact.fifo
        IN  /\ back[i].qty = fact.qty => /\ back[i].total = fact.total
                                         /\ back[i].cost = cost
            /\ AboveScale(fact.total, fact.qty) => back[i].total <= fact.total
            /\ fact.fifo = None \/ AboveScale(fact.fifo, fact.qty) => back[i].cost <= cost

(* The same of every price and cost, which nothing in the code rules out:  *)
(* of 4 units sold for 0.0002, each of the first three gives 0.0001 back.  *)
NothingGivenTwice ==
    \A i \in Items :
        /\ back[i].total <= sale.items[i].total
        /\ sale.items[i].fifo # None => back[i].cost <= sale.items[i].fifo

(* The customer gets back the credit the sale was paid with, neither twice *)
(* nor in part (issueRefundCredit, issueLegacyRefundCredit).               *)
CreditRestored ==
    /\ issued <= CreditPaid(sale)
    /\ status = "REFUNDED" /\ sale.customer => issued = CreditPaid(sale)

(* What a method has given back stays within one step of 0.0001 per refund *)
(* of its exact proportion, whatever the sequence of refunds.              *)
NearProportion ==
    Total(sale) > 0 => \A m \in Methods :
        LET exact == SumFunction(allocations) * Effective(sale)[m]
            given == allocations[m] * Total(sale)
        IN  /\ given - exact <= refunds * Total(sale)
            /\ exact - given <= refunds * Total(sale)

Reconciled ==
    /\ Total(sale) > 0 /\ SumFunction(Effective(sale)) = Total(sale)
    /\ CreditPaid(sale) > 0 => sale.customer

(* A sale paid by one method can be refunded to the end, as long as some   *)
(* of its money is left.                                                   *)
OneMethodRefundable ==
    /\ Reconciled /\ RefundTotal(AllRemaining) > 0
    /\ Cardinality({m \in Methods : Effective(sale)[m] > 0}) = 1
    /\ status # "REFUNDED"
    => Accepted(AllRemaining)

(* POST /sales/:id/refund without items refunds all remaining quantities   *)
(* (sales-refund.service.ts:101-102, 132-133): whatever has been refunded  *)
(* before, the rest of a sale whose payments reconcile can be refunded.    *)
RestRefundable == Reconciled /\ status # "REFUNDED" => Accepted(AllRemaining)
=============================================================================

------------------------- MODULE MCRefundAllocation -------------------------
(* Two items and three methods; every way to pay the total with them, with *)
(* and without change, for prices and costs that do and do not divide      *)
(* evenly, for some that rounding uses up before the last unit, and for    *)
(* discounts above the price of an item or of the sale.                    *)
EXTENDS RefundAllocation

CONSTANTS a, b

MCOrder == <<"CASH", "CARD", "STORE_CREDIT">>
MCCredit == {"STORE_CREDIT"}

Item(q, t, f) == [qty |-> q, total |-> t, fifo |-> f, costPrice |-> 2]

MCItemFacts == {[i \in Items |-> IF i = a THEN x ELSE y] :
                  x \in {Item(3, 7, 4), Item(3, 6, None)},
                  y \in {Item(2, 3, 5), Item(1, 4, 2), Item(4, 2, 1),
                        Item(2, -1, 5), Item(1, -7, 2)}}

Payments(t) ==
    LET due == Max({t, 0})
    IN  {f \in [Methods -> 0..(due + 2)] : SumFunction(f) \in {due, due + 2}}

MCSales ==
    UNION {[items : {x}, customer : BOOLEAN,
            paid : Payments(SumFunction([i \in Items |-> x[i].total]))] :
              x \in MCItemFacts}
=============================================================================

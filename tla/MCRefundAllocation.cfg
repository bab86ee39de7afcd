SPECIFICATION RefundsSpec
CONSTANTS
    Order <- MCOrder
    Cash = "CASH"
    Credit <- MCCredit
    Items = {a, b}
    Sales <- MCSales
    a = a
    b = b
    None = None
INVARIANTS
    MethodsRestored
    LinesConserved
    CreditRestored
CHECK_DEADLOCK FALSE

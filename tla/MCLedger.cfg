SPECIFICATION Spec
CONSTANTS
    Entries = {e1, e2, e3}
    Periods = {1, 2}
    FTs = {f1, f2}
    Txns = {t1, t2}
    MaxRequests = 5
    e1 = e1
    e2 = e2
    e3 = e3
    f1 = f1
    f2 = f2
    t1 = t1
    t2 = t2
    None = None
SYMMETRY Symmetry
INVARIANTS
    BalancesAgree
    OneReversal
    FTsInLedger
    CloseZeroes
    OnlyLatecomersDeadlock
PROPERTIES
    ClosedYearFinal
CHECK_DEADLOCK FALSE

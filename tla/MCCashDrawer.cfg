SPECIFICATION DrawerSpec
CONSTANTS
    Shifts = {h1, h2}
    SaleIds = {s1, s2}
    Units = 2
    Txns = {t1, t2, t3}
    MaxRequests = 5
    h1 = h1
    h2 = h2
    s1 = s1
    s2 = s2
    t1 = t1
    t2 = t2
    t3 = t3
    None = None
SYMMETRY Symmetry
INVARIANTS
    DrawerReconciles
    NoWaitCycle
PROPERTIES
    ImplementsBooks
    ClosedShiftFinal
CHECK_DEADLOCK FALSE

SPECIFICATION Spec
CONSTANTS
    Warehouses = {w1, w2}
    Counts = {c1}
    Txns = {t1, t2}
    Units = 2
    MaxRequests = 3
    w1 = w1
    w2 = w2
    c1 = c1
    t1 = t1
    t2 = t2
    None = None
SYMMETRY Symmetry
INVARIANTS
    TypeOK
    UnitsValued
    OnlyTransfersDeadlock
PROPERTIES
    ReserveWithinStock
    ReconcileWithinStock
CHECK_DEADLOCK FALSE

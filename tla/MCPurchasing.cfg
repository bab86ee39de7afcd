SPECIFICATION Spec
CONSTANTS
    Items = {i1, i2}
    Receipts = {n1, n2}
    Returns = {r1}
    Txns = {t1, t2}
    Units = 2
    MaxRequests = 4
    i1 = i1
    i2 = i2
    n1 = n1
    n2 = n2
    r1 = r1
    t1 = t1
    t2 = t2
    None = None
SYMMETRY Symmetry
INVARIANTS
    ReceivedCounted
    FullyReceived
    CancelledUnreceived
    RestoredWasShipped
CHECK_DEADLOCK FALSE

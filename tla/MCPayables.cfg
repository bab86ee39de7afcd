SPECIFICATION Spec
CONSTANTS
    Invoices = {i1, i2}
    Payments = {p1, p2}
    Txns = {t1, t2}
    Units = 2
    MaxRequests = 4
    i1 = i1
    i2 = i2
    p1 = p1
    p2 = p2
    t1 = t1
    t2 = t2
    None = None
SYMMETRY Symmetry
INVARIANTS
    PaidIsPayments
    CoverWithinTotal
    AllocatedWithinPayment
    JournalOnce
PROPERTIES
    ApprovedWithinOrder
CHECK_DEADLOCK FALSE

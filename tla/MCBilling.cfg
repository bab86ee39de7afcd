SPECIFICATION Spec
CONSTANTS
    Invoices = {i1, i2}
    Events = {e1}
    Runs = {r1, r2}
    MaxRetries = 2
    MaxRequests = 4
    i1 = i1
    i2 = i2
    e1 = e1
    r1 = r1
    r2 = r2
    None = None
SYMMETRY Symmetry
INVARIANTS
    OneInvoicePerPeriod
    RecordedOnce
PROPERTIES
    StatusMoves
CHECK_DEADLOCK FALSE

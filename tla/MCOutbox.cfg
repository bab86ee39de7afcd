CONSTANTS
    u1 = u1
    u2 = u2
    s1 = s1
    k1 = k1
    l1 = l1
    None = None
    Users = {u1, u2}
    Sales = {}
    Keyed = {k1}
    Legacy = {l1}
    MaxRetryAttempts = 2
    HardCapacityLimit = 1
SPECIFICATION Spec
SYMMETRY Symmetry
INVARIANTS
    NoLoss
    SendingOwned
PROPERTIES
    DispatchedByOwner
CHECK_DEADLOCK FALSE

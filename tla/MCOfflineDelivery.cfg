CONSTANTS
    u1 = u1
    u2 = u2
    c1 = c1
    c2 = c2
    s1 = s1
    k1 = k1
    l1 = l1
    None = None
    Users = {u1, u2}
    Sales = {s1}
    Keyed = {k1}
    Legacy = {l1}
    MaxRetryAttempts = 2
    HardCapacityLimit = 1
    Companies = {c1}
    CompanyOf <- OneCompany
    MaxAccepts = 2
    MaxLate = 1
SPECIFICATION DeliverySpec
SYMMETRY Symmetry
CONSTRAINT OneOperation
INVARIANTS
    NoUnattendedRepeat
CHECK_DEADLOCK FALSE

CONSTANTS
    r1 = r1
    r2 = r2
    r3 = r3
    k1 = k1
    p1 = p1
    p2 = p2
    None = None
    Reqs = {r1, r2, r3}
    Keys = {k1}
    Payloads = {p1, p2}
    KeyOf <- MCKeyOf
    PayloadOf <- MCPayloadOf
    MaxSends = 4
    MaxExpiries = 2
SPECIFICATION FairSpec
INVARIANTS
    OneEffectPerLife
    OneExecution
PROPERTIES
    ImplementsKeyedStore
    Answered
CHECK_DEADLOCK FALSE

CONSTANTS
    o1 = o1
    o2 = o2
    b1 = b1
    Ops = {o1, o2, b1}
    Skipped = {b1}
    MaxRetryAttempts = 2
SPECIFICATION SchedulerSpec
INVARIANTS
    TimerArmed
PROPERTIES
    RetriesHappen
CHECK_DEADLOCK FALSE

CONSTANTS
    r1 = r1
    r2 = r2
    r3 = r3
    t1 = t1
    t2 = t2
    t3 = t3
    None = None
    Requests <- ThreeRequests
    Tids <- TwoTids
    Async = FALSE
    Faults <- IdReused
SPECIFICATION Spec
INVARIANTS
    DeliversOwnResult
CHECK_DEADLOCK FALSE

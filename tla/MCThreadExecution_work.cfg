CONSTANTS
    r1 = r1
    r2 = r2
    r3 = r3
    t1 = t1
    t2 = t2
    t3 = t3
    None = None
    Requests <- ThreeRequests
    Tids <- ThreeTids
    Async = TRUE
    Faults <- AllFaults
SPECIFICATION FairSpec
INVARIANTS
    TypeOK
    FiledIsPolled
PROPERTIES
    DeliversOnce
    EndedIsDelivered
    PollersGo
CHECK_DEADLOCK FALSE

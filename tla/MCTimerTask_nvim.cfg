CONSTANTS
    n1 = n1
    n2 = n2
    n3 = n3
    Names <- OneName
    Repeats <- MCRepeats
    Async = TRUE
    Naming = "any"
    SelfRegister = TRUE
    MaxTasks = 2
    MaxCalls = 3
SPECIFICATION FairSpec
INVARIANTS
    RegisteredIsDriven
    LastWordHolds
PROPERTIES
    EveryTaskSettles
CHECK_DEADLOCK FALSE

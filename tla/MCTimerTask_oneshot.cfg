CONSTANTS
    n1 = n1
    n2 = n2
    n3 = n3
    Names <- OneName
    Repeats <- MCRepeats
    Async = TRUE
    Naming = "fresh"
    SelfRegister = FALSE
    MaxTasks = 2
    MaxCalls = 2
SPECIFICATION Spec
INVARIANTS
    RunsWithinRepeat
CHECK_DEADLOCK FALSE

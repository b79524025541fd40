CONSTANTS
    n1 = n1
    n2 = n2
    n3 = n3
    Names <- TwoNames
    Repeats <- MCRepeats
    Async = FALSE
    Naming = "checked"
    SelfRegister = FALSE
    MaxTasks = 3
    MaxCalls = 1
SPECIFICATION Spec
INVARIANTS
    TypeOK
    NoStrayTimer
PROPERTIES
    KeepsPromise
    EndTouchesOnlyOwnName
CHECK_DEADLOCK FALSE

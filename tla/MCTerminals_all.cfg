CONSTANTS
    j1 = j1
    j2 = j2
    b1 = b1
    s1 = s1
    s2 = s2
    None = None
    Jobs <- TwoJobs
    Buffers <- OneBuffer
    Sends <- TwoSends
    Ops <- PasteAndLines
    MaxSteps = 12
    Editors <- AllEditors
    Parts <- BothParts
SPECIFICATION BothFairSpec
INVARIANTS
    BothTypeOK
    OneUpdaterPerBuffer
    NoneIsLost
    HooksComeAfterRelease
    WritesInOrder
PROPERTIES
    EndedIsFreed
    EveryTextIsWritten
CHECK_DEADLOCK FALSE

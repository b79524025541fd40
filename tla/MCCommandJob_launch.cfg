CONSTANTS
    j1 = j1
    j2 = j2
    k1 = k1
    None = None
    Jobs <- TwoJobs
    Kinds <- OneKind
    Editors <- Both
    MaxLines = 2
SPECIFICATION FairSpec
INVARIANTS
    TypeOK
    FiledWhileItRuns
    HooksKnowTheLines
PROPERTIES
    EverythingIsCleaned
CHECK_DEADLOCK FALSE

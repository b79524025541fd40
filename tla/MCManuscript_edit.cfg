CONSTANTS
    q1 = q1
    q2 = q2
    q3 = q3
    a = a
    b = b
    c = c
    Questions <- TwoQuestions
    Pieces <- ThreePieces
    MaxEdits = 1
SPECIFICATION FairSpec
INVARIANTS
    TypeOK
    MarkersGo
    AnswersSpareTheUser
PROPERTIES
    QuestionsAreForgotten
CHECK_DEADLOCK FALSE

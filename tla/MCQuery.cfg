SPECIFICATION FairSpec
CONSTANTS
    a = a
    b = b
    c = c
    d = d
    Self = Self
    Peer <- Four
    Dist <- Distance
    Concurrency = 2
    KValue = 2
    Questions <- AllQuestions
INVARIANTS RemainingCounts AnswerJust
PROPERTY Terminates
CHECK_DEADLOCK FALSE

CONSTANTS
    c1 = c1
    c2 = c2
    Call <- MCCall
    May <- MCMay
    Cap = 1
SPECIFICATION MessagingFairSpec
INVARIANT AnswerIsReceivers
PROPERTY SendReturns
CHECK_DEADLOCK FALSE

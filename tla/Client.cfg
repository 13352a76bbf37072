SPECIFICATION FairSpec
CONSTANTS
    ReadTimeout = 2
    MaxParts = 6
    MaxAsked = 2
INVARIANTS TypeOK CleanBetweenCalls
PROPERTIES SuccessIsReal WaitEnds AnsweredCallReturns

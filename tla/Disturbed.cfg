SPECIFICATION HSpec
CONSTANTS
    Links <- AllLinks
    Lossy = {0, 1, 2, 3}
    CloudOutcomes = {TRUE, FALSE}
    MaxRetry = 2
    RetryInterval = 2
    RoundInterval = 4
    Presses = {"clear"}
    Faulty = {3}
    FeedbackRepeats = 1
    AppModes = {TRUE}
    AppLeds = {}
    Reports = {}
    AnswerTicks = 1
INVARIANTS TypeOK GapsFollowTimers RetryBounded RoundSettlesThree
PROPERTIES PollRate AskedBeforeAccepted TakesTurns

SPECIFICATION FairSpec
CONSTANTS
    Links <- AllLinks
    Lossy = {0, 1, 2, 3}
    CloudOutcomes = {TRUE}
    MaxRetry = 1
    RetryInterval = 1
    RoundInterval = 1
    Presses = {}
    Faulty = {}
    FeedbackRepeats = 1
    AppModes = {FALSE}
    AppLeds = {TRUE, FALSE}
    Reports = {0, 1}
    AnswerTicks = 0
PROPERTY RemoteFollowsCloud

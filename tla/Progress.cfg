SPECIFICATION FairSpec
CONSTANTS
    Links <- AllLinks
    Lossy = {0, 1, 2, 3}
    CloudOutcomes = {TRUE}
    MaxRetry = 3
    RetryInterval = 1
    RoundInterval = 2
    Presses = {"mode"}
    Faulty = {}
    FeedbackRepeats = 1
    AppModes = {TRUE, FALSE}
    AppLeds = {}
    Reports = {}
    AnswerTicks = 1
INVARIANT LedMatchesStatus
PROPERTIES EveryNodePolled RoundEnds ModeFollowsCloud ButtonFallsBack

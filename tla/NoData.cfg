SPECIFICATION HSpec
CONSTANTS
    Links <- AllLinks
    Lossy = {0, 1, 2, 3}
    CloudOutcomes = {TRUE}
    MaxRetry = 5
    RetryInterval = 2
    RoundInterval = 12
    Presses = {}
    Faulty = {}
    FeedbackRepeats = 1
    AppModes = {}
    AppLeds = {}
    Reports = {}
    AnswerTicks = 1
PROPERTY NoDataMeansNoAnswer

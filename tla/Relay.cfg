SPECIFICATION FairSSpec
CONSTANTS
    Links <- AllLinks
    Lossy = {0, 1, 2, 3}
    CloudOutcomes = {TRUE}
    MaxRetry = 1
    RetryInterval = 1
    RoundInterval = 1
    Presses = {"switch"}
    Faulty = {}
    FeedbackRepeats = 5
    AppModes = {}
    AppLeds = {}
    Reports = {}
    AnswerTicks = 0
PROPERTIES CommandCarriedOut LoopReturns
INVARIANTS RelayObeys BurstIsDeaf

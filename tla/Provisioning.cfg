SPECIFICATION FairSpec
CONSTANTS
    Debounce = 1
    Click = 2
    Press = 3
    MaxClicks = 1
    MaxGap = 4
    PortalTime = 2
INVARIANTS TypeOK KnownNetwork
PROPERTIES ClearMeansHeld OneCallbackPerPress ComesOnline SetupStaysPossible ButtonComesToRest

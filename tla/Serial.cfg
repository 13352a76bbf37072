SPECIFICATION FairSpec
CONSTANTS
    DataBits = 2
    MaxEdges = 2
    Pause = 1
    None = None
INVARIANTS TypeOK BytesAreRight
PROPERTIES NothingStaysPending

SPECIFICATION FairSpec
CONSTANTS
    Value = {v1, v2}
    BufSize = 4
    MaxPush = 4
INVARIANTS TypeOK PushTakesAll
PROPERTIES FirstInFirstOut DrainEnds

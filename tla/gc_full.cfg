SPECIFICATION FairSpec
CHECK_DEADLOCK FALSE
CONSTANTS
    d1 = d1
    d2 = d2
    p1 = p1
    a1 = a1
    Node = {d1, d2}
    Dtor = {d1, d2}
    Arr = {}
    Null = Null
    Installed = TRUE
    DefaultBufSize = 2
    BufGrowStep = 1
    MaxBufSize = 3
    MaxUncompressed = 1
    ThresholdDefault = 2
    ThresholdStep = 1
    ThresholdMax = 3
    ThresholdTrigger = 1
    MaxRefs = 2
    Controls = {"enable", "collect", "bailout"}
INVARIANTS SafeAtLimits BufferSound
PROPERTIES CollectionEnds

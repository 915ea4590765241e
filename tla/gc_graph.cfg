SPECIFICATION Spec
CHECK_DEADLOCK FALSE
CONSTANTS
    d1 = d1
    d2 = d2
    p1 = p1
    a1 = a1
    Node = {d1, p1, a1}
    Dtor = {d1}
    Arr = {a1}
    Null = Null
    Installed = TRUE
    DefaultBufSize = 4
    BufGrowStep = 1
    MaxBufSize = 4
    MaxUncompressed = 8
    ThresholdDefault = 4
    ThresholdStep = 1
    ThresholdMax = 4
    ThresholdTrigger = 1
    MaxRefs = 3
    Controls = {"collect"}
INVARIANTS RefcountSound OnlyGarbageFreed NothingLost CollectsAll DestructorFirst

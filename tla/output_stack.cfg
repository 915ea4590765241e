SPECIFICATION FairSpec
CONSTANTS
    h1 = h1
    h2 = h2
    Null = Null
    Handler = {h1, h2}
    Kinds = {"default", "devnull", "user"}
    ChunkSizes = {0, 2}
    Fatal = FALSE
    ErrorHandler = FALSE
    Reenter = FALSE
    Bails = TRUE
    Returns = {"false", "true", "data", "undef"}
    MaxWrites = 2
INVARIANTS HandlerAlive StackSound OutputExact
CHECK_DEADLOCK FALSE
PROPERTIES RequestEnds

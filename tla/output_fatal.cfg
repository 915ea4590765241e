SPECIFICATION Spec
CONSTANTS
    h1 = h1
    h2 = h2
    Null = Null
    Handler = {h1, h2}
    Kinds = {"default", "user"}
    ChunkSizes = {0}
    Fatal = FALSE
    ErrorHandler = FALSE
    Reenter = TRUE
    Bails = FALSE
    Returns = {"false", "true", "data", "undef"}
    MaxWrites = 2
SYMMETRY Addresses
INVARIANTS HandlerAlive
CHECK_DEADLOCK FALSE

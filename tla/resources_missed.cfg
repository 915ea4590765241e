SPECIFICATION Spec
CHECK_DEADLOCK FALSE
CONSTANTS
    MaxRes = 4
    Sizes = {4}
    MaxBails = 0
    Undef = Undef
INVARIANT ClosedBeforeInactive

SPECIFICATION Spec
CHECK_DEADLOCK FALSE
CONSTANTS
    MaxRes = 4
    Sizes = {2, 4, 8}
    MaxBails = 1
    Undef = Undef
INVARIANTS DestructedOnce NoDangling PackedClosed AllFreed
PROPERTIES ShutdownEnds

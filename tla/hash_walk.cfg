SPECIFICATION Spec
CONSTANTS
    t1 = t1
    t2 = t2
    Table = {t1, t2}
    Null = Null
    Poisoned = Poisoned
    Undef = Undef
    MinSize = 2
    MaxCount = 255
    StartSize = 2
    StartLen = 2
    MaxElems = 3
    MaxWalks = 2
    MaxShares = 2
SYMMETRY Addresses
INVARIANTS TablesSound IteratorsOwned NoRevisit WalkCompleteUnskewed
CHECK_DEADLOCK FALSE

SPECIFICATION Spec
CHECK_DEADLOCK FALSE
CONSTANTS
    d1 = d1
    d2 = d2
    p1 = p1
    Obj <- MCObj
    Dtor <- MCDtor
    StdFree <- MCStdFree
    Null = Null
    InitSize = 1
    MaxTop = 4
    MaxHeld = 1
SYMMETRY Symm
INVARIANTS RefcountSound NoDangling StoreSound DestructorSafe NothingSkipped

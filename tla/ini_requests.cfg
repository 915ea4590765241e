SPECIFICATION IniSpec
CONSTANTS
    core = core
    m1 = m1
    m2 = m2
    a = a
    b = b
    c = c
    d = d
    v1 = v1
    v2 = v2
    None = None
    Module = {core, m1, m2}
    Core = core
    Name = {a, b, c, d}
    Value = {v1, v2}
    Tables <- TheTables
    Default <- TheDefaults
    Modifiable <- TheModes
    Handled = {a, c, d}
    Reporting = a
INVARIANTS TableExact RequestIsolated PinnedHolds CacheAgrees AllOrNone
CHECK_DEADLOCK FALSE

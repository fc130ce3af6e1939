SPECIFICATION Spec
CONSTANTS
    t1 = t1
    t2 = t2
    t3 = t3
    s1 = s1
    s2 = s2
    o1 = o1
    o2 = o2
    o3 = o3
    f1 = f1
    f2 = f2
    be = be
    None = None
    TGs <- TwoTGs
    Systems <- OneSys
    SysOf <- Together
    Starting <- SomeOrNone
    Ops <- TwoOps
    Filters <- OneFilter
    Unheard <- Backend
    MaxOps = 3
    Faults = {"query", "sql", "commitlost"}
    MaxFaults = 1
SYMMETRY Permute
INVARIANT CacheAgrees
INVARIANT NamesAgree
INVARIANT FiltersAgree
CHECK_DEADLOCK FALSE

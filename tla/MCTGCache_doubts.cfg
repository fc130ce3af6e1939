SPECIFICATION Spec
CONSTANTS
    t1 = t1
    t2 = t2
    t3 = t3
    s1 = s1
    s2 = s2
    o1 = o1
    o2 = o2
    o3 = o3
    f1 = f1
    f2 = f2
    be = be
    None = None
    TGs <- TwoTGs
    Systems <- TwoSystems
    SysOf <- Apart
    Starting <- Some
    Ops <- OneOp
    Filters <- NoFilter
    Unheard <- Backend
    MaxOps = 2
    Faults = {}
    MaxFaults = 0
INVARIANT NameIsRight
INVARIANT FiltersUpdated
CHECK_DEADLOCK FALSE

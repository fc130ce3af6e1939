SPECIFICATION Spec
CONSTANTS
    k1 = k1
    k2 = k2
    k3 = k3
    fs = fs
    s3 = s3
    t1 = t1
    t2 = t2
    Calls <- TwoCalls
    TGOf <- TGs
    Known <- KnownTGs
    Backends <- OneBackend
    Ingest <- FSOnly
    Heeds <- HeedingNone
    Accepts <- NoFilters
    Configs <- FailOnly
    Relay = "none"
    Dirs <- TwoDirs
    MaxDir = 2
    Admins = FALSE
    MaxFscks = 1
    Faults = {"commitlost"}
    MaxFaults = 1
    None = None
INVARIANT NoDanglingRow
PROPERTY MarksAreDangling
CHECK_DEADLOCK FALSE

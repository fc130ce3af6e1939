SPECIFICATION FairSpec
CONSTANTS
    s3 = s3
    fs = fs
    old = old
    p1 = p1
    p2 = p2
    o1 = o1
    o2 = o2
    o3 = o3
    ticker = ticker
    admin = admin
    Collectors <- OneCollector
    Partman = Partman
    Backends <- WithOld
    Configured <- S3AndFs
    S3Backends <- OnlyS3
    Prefixes <- OnePrefix
    Objects <- ThreeObjects
    TargetOf <- BothBackends
    ErrThreshold = 1
    Ids <- ThreeIds
    MaxPrunes = 2
    Faults <- AllFaults
    MaxFaults = 2
    None = None
PROPERTY DeletesKeepTheContract
PROPERTY DeletesHappen
PROPERTY JournalDrains
CHECK_DEADLOCK FALSE

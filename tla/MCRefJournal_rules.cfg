SPECIFICATION Spec
CONSTANTS
    s3 = s3
    fs = fs
    old = old
    p1 = p1
    p2 = p2
    o1 = o1
    o2 = o2
    o3 = o3
    ticker = ticker
    admin = admin
    Collectors <- TwoCollectors
    Partman = Partman
    Backends <- OnlyS3
    Configured <- OnlyS3
    S3Backends <- OnlyS3
    Prefixes <- TwoPrefixes
    Objects <- TwoObjects
    TargetOf <- EachPrefix
    ErrThreshold = 1
    Ids <- TwoIds
    MaxPrunes = 2
    Faults <- Faultless
    MaxFaults = 1
    None = None
INVARIANT NoRuleLeft
CHECK_DEADLOCK FALSE

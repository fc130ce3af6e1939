SPECIFICATION FairSpec
CONSTANTS
    c1 = c1
    c2 = c2
    c3 = c3
    s3 = s3
    fs = fs
    w1 = w1
    w2 = w2
    Calls <- TwoCalls
    SweptCalls <- NoCalls
    Backends <- BothBackends
    S3Backends <- OnlyS3
    Workers <- TwoWorkers
    DateOf <- InOrder
    BatchSize = 1
    MaxTries = 0
    Requests <- Moves
    Faults <- LiveFaults
    InitRows <- Ingested
    MaxMoves = 1
    DB = DB
    AnyBackend = AnyBackend
    None = None
PROPERTY MoveEnds
CHECK_DEADLOCK FALSE

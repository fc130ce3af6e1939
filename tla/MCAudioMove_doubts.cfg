SPECIFICATION Spec
CONSTANTS
    c1 = c1
    c2 = c2
    c3 = c3
    s3 = s3
    fs = fs
    w1 = w1
    w2 = w2
    Calls <- ThreeCalls
    SweptCalls <- OneSwept
    Backends <- BothBackends
    S3Backends <- NoBackends
    Workers <- TwoWorkers
    DateOf <- OneInstant
    BatchSize = 2
    MaxTries = 1
    Requests <- Doubted
    Faults <- DbFaults
    InitRows <- Ingested
    MaxMoves = 1
    DB = DB
    AnyBackend = AnyBackend
    None = None
INVARIANT OldAudioCleared
INVARIANT BorderLosesNoRow
INVARIANT BorderCountsOnce
INVARIANT BorderIsRolledBack
INVARIANT TryCountsOnce
INVARIANT SweptAreMoved
CHECK_DEADLOCK FALSE

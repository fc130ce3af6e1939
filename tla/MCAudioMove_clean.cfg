SPECIFICATION Spec
CONSTANTS
    c1 = c1
    c2 = c2
    c3 = c3
    s3 = s3
    fs = fs
    w1 = w1
    w2 = w2
    Calls <- ThreeCalls
    SweptCalls <- NoCalls
    Backends <- BothBackends
    S3Backends <- NoBackends
    Workers <- TwoWorkers
    DateOf <- InOrder
    BatchSize = 2
    MaxTries = 1
    Requests <- CleanMoves
    Faults <- DbFaults
    InitRows <- Ingested
    MaxMoves = 1
    DB = DB
    AnyBackend = AnyBackend
    None = None
INVARIANT RollbackDeletesCreated
INVARIANT SuccessMovesAll
INVARIANT CountIsRowsMoved
SYMMETRY Symm
CHECK_DEADLOCK FALSE

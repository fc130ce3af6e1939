SPECIFICATION NexusFairSpec
CONSTANTS
    c1 = c1
    c2 = c2
    g1 = g1
    g2 = g2
    g3 = g3
    Clients <- OneClient
    Goroutines <- OneCommand
    Sends <- OneWorker
    Wants <- Everything
    Breakable <- OneClient
    QSize = 1
    MaxCalls = 1
    MaxRequests = 0
    Nobody = Nobody
INVARIANT SendsReturn
PROPERTY ShutdownEnds
CHECK_DEADLOCK FALSE

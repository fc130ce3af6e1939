SPECIFICATION NexusFairSpec
CONSTANTS
    c1 = c1
    c2 = c2
    g1 = g1
    g2 = g2
    g3 = g3
    Clients <- TwoClients
    Goroutines <- TwoCommands
    Sends <- Mixed
    Wants <- Everything
    Breakable <- OneClient
    QSize = 1
    MaxCalls = 1
    MaxRequests = 1
    Nobody = Nobody
INVARIANT NexusTypeOK
INVARIANT StreamIsWhole
PROPERTY WorkFindsWorker
PROPERTY NobodyWaits
CHECK_DEADLOCK FALSE

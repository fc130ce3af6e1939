SPECIFICATION Spec
CONSTANTS
    k1 = k1
    k2 = k2
    k3 = k3
    fs = fs
    s3 = s3
    t1 = t1
    t2 = t2
    Calls <- TwoCalls
    TGOf <- TGs
    Known <- KnownTGs
    Backends <- TwoBackends
    Ingest <- S3First
    Heeds <- HeedingS3
    Accepts <- Filters
    Configs <- Disposals
    Relay = "required"
    Dirs <- TwoDirs
    MaxDir = 2
    Admins = TRUE
    MaxFscks = 2
    Faults = {"store", "storelost", "sql", "learn", "delete", "relay", "crash", "lose", "list",
              "commitlost", "unreadable"}
    MaxFaults = 2
    None = None
INVARIANT OnlyLostCommitsDangle
INVARIANT OkIsKept
INVARIANT OrphansExplained
INVARIANT PlaceIsConfigured
PROPERTY FsckClearsSound
PROPERTY FsckFindsMissing
CHECK_DEADLOCK FALSE

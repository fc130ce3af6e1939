SPECIFICATION FairSpec
CONSTANTS
    s3 = s3
    fs = fs
    c1 = c1
    c2 = c2
    c3 = c3
    Calls <- ThreeCalls
    PartOf <- TwoOld
    AtStart <- NoCalls
    Backends <- TwoBackends
    Homes <- Mixed
    Retain = 1
    PreProvision = 1
    FirstPeriod = 2
    LastPeriod = 4
    PerPeriod = 2
    Racy = FALSE
    Faults <- EarlyFaults
    MaxFaults = 1
    None = None
INVARIANT TypeOK
INVARIANT IncidentAudioKept
INVARIANT RetainedUntouched
INVARIANT NoAudioLeft
INVARIANT CallsCanBeStored
PROPERTY RetentionHappens

SPECIFICATION Spec
CONSTANTS
    s3 = s3
    fs = fs
    c1 = c1
    c2 = c2
    c3 = c3
    Calls <- OneCall
    PartOf <- OneOld
    AtStart <- NoCalls
    Backends <- TwoBackends
    Homes <- InS3
    Retain = 1
    PreProvision = 1
    FirstPeriod = 2
    LastPeriod = 4
    PerPeriod = 2
    Racy = TRUE
    Faults <- Faultless
    MaxFaults = 1
    None = None
INVARIANT IncidentAudioKept

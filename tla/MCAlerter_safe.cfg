SPECIFICATION FairSpec
CONSTANTS
    t1 = t1
    t2 = t2
    TGs <- OneTG
    Renotifies <- RenotifyValues
    MaxLag = 1
    MaxAge = 3
    TestTGs <- Asked
    IgnoreFailureCountThreshold = 0
    MaxFaults = 1
PROPERTY NotMoreOften
PROPERTY HotIsToldAgain

SPECIFICATION PushSpec
CONSTANTS
    t1 = t1
    t2 = t2
    sys = sys
    ann = ann
    bob = bob
    d1 = d1
    d2 = d2
    ticker = ticker
    tester = tester
    Talkgroups <- TwoTGs
    SystemOf <- OneSystem
    Subscribers <- TwoUsers
    Devices <- TwoDevices
    SubSets <- Sets
    Dispatchers <- BothSenders
    Batches <- SomeBatches
    MaxRows = 2
INVARIANT SubscribersTold
INVARIANT PushTypeOK
PROPERTY OnlyRefusedGo
SYMMETRY Symm
CHECK_DEADLOCK FALSE

SPECIFICATION FairSpec
CONSTANTS
    Word = 16
    ann = ann
    adm = adm
    c1 = c1
    c2 = c2
    i1 = i1
    s1 = s1
    r1 = r1
    r2 = r2
    Users <- TwoUsers
    ExtraRoles <- GivenTwo
    Calls <- TwoCalls
    Incidents <- OneIncident
    ShareIDs <- OneShare
    Requests <- TwoRequests
    AddRemoves <- OneExchange
    Nobody = Nobody
INVARIANT GuestServedOnlyShared
INVARIANT SharedCallsAreServed
PROPERTY ChangesAreOwners
PROPERTY DeadSharesGo
ACTION_CONSTRAINT AnswersAtOnce
CONSTRAINT OneGuest
CHECK_DEADLOCK FALSE

SPECIFICATION Spec
CONSTANTS
    p1 = p1
    p2 = p2
    good = good
    short = short
    blank = blank
    v1 = v1
    v2 = v2
    Procs <- TwoProcs
    Passwords <- SomePasswords
    Acceptable <- Long
    Strong <- Long
    Blank <- blank
    Callers <- SomeCallers
    Keys <- SomeKeys
    Values <- TwoValues
    MaxClock = 1
    Second = 2
    MaxOps = 3
    MaxFaults = 1
INVARIANT UsersAgree
INVARIANT SettingsAgree
PROPERTY OldTokensEnd
SYMMETRY Symm

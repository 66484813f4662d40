CONSTANTS
    k1 = k1
    k2 = k2
    k3 = k3
    v1 = v1
    v2 = v2
    None = None
    Junk = Junk
    Keys = {k1, k3}
    Values = {v1}
    KeyLen <- MCKeyLenEqual
    ValLen <- MCValLen
    Hash <- MCHash
    BlockSize = 18
    Width = 8
    FailAt = {}
    MaxFailures = 0
    MaxRecords = 3
    MaxSessions = 2
    MaxAtClose = 3
    CloseRule = "aligned"
CHECK_DEADLOCK FALSE
SPECIFICATION FairSpec
PROPERTIES OpenReturns

CONSTANTS
    k1 = k1
    k2 = k2
    k3 = k3
    v1 = v1
    v2 = v2
    None = None
    Junk = Junk
    Keys = {k1, k2, k3}
    Values = {v1}
    KeyLen <- MCKeyLen
    ValLen <- MCValLen
    Hash <- MCHash
    BlockSize = 18
    Width = 8
    FailAt = {1}
    MaxFailures = 1
    MaxRecords = 4
    MaxSessions = 2
    MaxAtClose = 3
    CloseRule = "aligned"
CHECK_DEADLOCK FALSE
SPECIFICATION Spec
INVARIANTS TypeOK ChainComplete CountsExact
PROPERTIES KeepsPromise

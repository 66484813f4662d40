CONSTANTS
    BlockSize = 3
    WCacheBlocks = 2
    RCacheBlocks = 2
    DeviceBlocks = 7
    Width = 63
    Lens = {1, 2}
    MaxBytes = 9
    MaxPending = 2
    CloseRule = "aligned"
    MaxSessions = 2
    FaultyCalls = {"read", "metadata"}
    Garbage = {}
    MaxFaults = 1
    MaxCrashes = 1
SPECIFICATION Spec
INVARIANTS TypeOK BytesKept ReadsTrue LogSurvives
PROPERTIES KeepsPromise

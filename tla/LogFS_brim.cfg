CONSTANTS
    BlockSize = 2
    WCacheBlocks = 2
    RCacheBlocks = 1
    DeviceBlocks = 8
    Width = 64
    Lens = {1, 4}
    MaxBytes = 8
    MaxPending = 6
    CloseRule = "aligned"
    MaxSessions = 1
    FaultyCalls = {}
    Garbage = {5}
    MaxFaults = 0
    MaxCrashes = 0
SPECIFICATION Spec
INVARIANT BytesKept

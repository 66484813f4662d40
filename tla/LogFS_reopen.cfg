CONSTANTS
    BlockSize = 2
    WCacheBlocks = 2
    RCacheBlocks = 1
    DeviceBlocks = 8
    Width = 64
    Lens = {1, 2}
    MaxBytes = 4
    MaxPending = 1
    CloseRule = "drained"
    MaxSessions = 2
    FaultyCalls = {}
    Garbage = {}
    MaxFaults = 0
    MaxCrashes = 0
SPECIFICATION Spec
INVARIANT RecordedStays

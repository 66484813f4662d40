CONSTANTS
    BlockSize = 2
    WCacheBlocks = 2
    RCacheBlocks = 1
    DeviceBlocks = 4
    Width = 14
    Lens = {1, 2, 3}
    MaxBytes = 7
    MaxPending = 7
    CloseRule = "any"
    MaxSessions = 1
    FaultyCalls = {"open", "flush"}
    Garbage = {5}
    MaxFaults = 1
    MaxCrashes = 0
SPECIFICATION FairSpec
INVARIANTS CountsConserved NoLostWakeup NoStandoff 
PROPERTIES QuietRead AllReturn

CONSTANTS
    Max = 25
    NumThreads = 2
    UIntSize = 64
    InitCapacity = 0
    MaxCapacity = 64
    MayFail = TRUE
SPECIFICATION FairSpec
INVARIANTS TypeOK AllFound
PROPERTIES KeepsPromise CallEnds

CHECK_DEADLOCK FALSE
SPECIFICATION ProgramsSpec
INVARIANTS WaitingServed Transposed Multiplied Evaluated LinesSound ArraySound ShareExact StudySound IndexSound ArgumentsRead TestsPass
PROPERTIES SpreadShrinks CallsEnd KeepsPromise
CONSTANTS
    Hashes = {0, 1, 5, 9, 15, 11}
    Offs = {7}
    Width = 16
    Spread = 3
    UInt = 4
    MaxTicks = 9
    MaxProcs = 4
    MaxModules = 3
    MaxCycles = 6
    QueueSize = 3
    SizesTried = {1, 2, 3, 5}
    ThreadsTried = {0, 1, 2, 3, 6}
    Sizes = {0, 1, 2, 3, 4}
    MaxThreads = 2
    MaxCreated = 3
    Grains = {0, 1, 2, 4}
    UIntSize = 1024
    Rings = {3, 4}
    LMIN = 1
    LMAX = 4
    DMIN = 1
    DMAX = 3
    H = 3
    N = 3
    T = 2
    Printable = {97}
    QuitKey = 97
    Capacities = {0, 1, 3}
    Values = {0, 1, 2}
    MaxSize = 5
    LONG_MIN <- LongMin
    LONG_MAX = 4
    Unsigned = 3
    MAX_LLIST_SIZE = 2
    MaxArgs = 3
    Numbers <- NumbersTried
    Texts <- TextsTried

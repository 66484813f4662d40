CONSTANTS
    Words = {1, 2}
    ItemSize <- TwoLengths
    MaxItemSize = 36
    Capacities = {4096, 8192}
    PageSize = 4096
    Editions = {"submitted"}
    Width = 65536
    TruncateRule = "fresh"
    RemoveRule = "simple"
    MaxItems = 3
CHECK_DEADLOCK FALSE
SPECIFICATION Spec
INVARIANT StateAtBase

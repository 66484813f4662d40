CONSTANTS
    Words = {1, 2, 3, 4, 5}
    ItemSize <- OneLength
    MaxItemSize = 2
    Capacities = {4096, 8192}
    PageSize = 4096
    Editions = {"submitted", "study"}
    Width = 65536
    TruncateRule = "any"
    RemoveRule = "simple"
    MaxItems = 5
CHECK_DEADLOCK FALSE
SPECIFICATION Spec
INVARIANT StateAtBase

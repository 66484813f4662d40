CONSTANTS
    Words = {1, 2, 3, 4, 5}
    ItemSize <- OneLength
    MaxItemSize = 2
    Capacities = {402, 412}
    PageSize = 2
    Editions = {"submitted", "study"}
    Width = 65536
    TruncateRule = "any"
    RemoveRule = "simple"
    MaxItems = 5
CHECK_DEADLOCK FALSE
SPECIFICATION Spec
INVARIANTS TreeSound
PROPERTIES CountersFollow KeepsPromise

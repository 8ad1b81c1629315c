SPECIFICATION Spec
CONSTANTS
    MaxDeferred = 2
    Clock = 5
    MaxTimeout = 2
    MaxLate = 1
    MaxOutage = 3
    MaxSize = 2
    n1 = n1
    n2 = n2
    Networks = {n1, n2}
    Empty = Empty
    Num = 3
    SlotLists <- MCSlots
    Slow = {n1}
    MaxScans = 1
    MaxSaves = 1
PROPERTIES
    RestartJustified
    OutageEnds
    NoStaleConnected
    NetworkServed

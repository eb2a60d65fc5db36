\* Synchronous requests between asynchronous ones; clients wait for the pools.
SPECIFICATION FairSpec
CONSTANTS
    NMods = 2
    Sectors <- TwoSectors
    NPages = 2
    Values = {v1}
    v1 = v1
    NOpra = 3
    NBuff = 1
    MaxOps = 4
    OtaMods = {0}
    SyncMods = {0, 1}
    ReErase = {1}
    CpUses = FALSE
    Null = Null
    Erased = Erased
    Torn = Torn
INVARIANT InOrder
PROPERTIES
    DeviceBusy
    QueueDrains
    JobReturns

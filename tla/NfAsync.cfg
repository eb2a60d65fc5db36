\* Two modules share the pools; the coprocessor holds flushing back at times.
SPECIFICATION Spec
CONSTANTS
    NMods = 2
    Sectors <- ThreeSectors
    NPages = 2
    Values = {v1, v2}
    v1 = v1
    v2 = v2
    NOpra = 4
    NBuff = 1
    MaxOps = 4
    OtaMods = {0}
    SyncMods = {}
    ReErase = {1}
    CpUses = TRUE
    Null = Null
    Erased = Erased
    Torn = Torn
SYMMETRY Interchangeable
INVARIANTS
    TypeOK
    Linked
    ReadsLatest
    InOrder

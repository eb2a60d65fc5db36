\* A response overtaken by a write.
SPECIFICATION Spec
CONSTANTS
    Buds = {L, R}
    L = L
    R = R
    Writers = {L}
    Settings = {d, u}
    d = d
    u = u
    Unknown = Unknown
    Default = d
    NoName <- Empty
    GattMax = 32
    NvMax = 31
    Names <- ShortNames
    MaxWrites = 3
    MaxDrops = 0
INVARIANT LastWriteStays
CHECK_DEADLOCK FALSE

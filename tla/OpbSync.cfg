\* One bud is written to; the link may drop and the buds may reboot.
SPECIFICATION FairSpec
CONSTANTS
    Buds = {L, R}
    L = L
    R = R
    Writers = {L}
    Settings = {d, u}
    d = d
    u = u
    Unknown = Unknown
    Default = d
    NoName <- Empty
    GattMax = 32
    NvMax = 31
    Names <- LongNames
    MaxWrites = 3
    MaxDrops = 2
INVARIANTS
    TypeOK
    InStep
    SavedAsApplied
PROPERTY Settles
CHECK_DEADLOCK FALSE

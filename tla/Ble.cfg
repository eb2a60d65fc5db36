CONSTANTS
    RS = rs
    BOX = box
    SwitchUsers = {rs, box}
    Slow = slow
    Fast = fast
    NoUser = nouser
    Fills = {d1, d2, nouser}
    Conidx = {c1}
    MaxCalls = 4
    MaxFails = 1
    OtherThreads = FALSE
SPECIFICATION Spec
INVARIANTS TypeOK StateAgrees OffMeansOff Advertised NotConnectable
PROPERTY Settles
CHECK_DEADLOCK FALSE

\* A tap, a hold right after it, and another tap.
SPECIFICATION Spec
CONSTANTS
    Debounce = 2
    Dither = 1
    DoubleClick = 4
    LongPress = 4
    LongLongPress = 6
    Repeat = 2
    CntLimit = 3
    Config <- Actions
    NoAction = NoAction
    VolumeDown = VolumeDown
    TwsLink = FALSE
    MaxTouches = 3
    Hurried = TRUE
    Preempts = FALSE
INVARIANT Recognised
CHECK_DEADLOCK FALSE

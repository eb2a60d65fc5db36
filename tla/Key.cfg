\* Two gestures, or one and a contact that is too short.
SPECIFICATION Spec
CONSTANTS
    Debounce = 2
    Dither = 1
    DoubleClick = 4
    LongPress = 4
    LongLongPress = 6
    Repeat = 2
    CntLimit = 3
    Config <- Actions
    NoAction = NoAction
    VolumeDown = VolumeDown
    TwsLink = FALSE
    MaxTouches = 2
    Hurried = FALSE
    Preempts = FALSE
INVARIANTS TypeOK CountAgrees NeverDeaf Recognised TapFits
PROPERTY ComesToRest
CHECK_DEADLOCK FALSE

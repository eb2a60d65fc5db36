\* After boot only the sleep hook flushes.
SPECIFICATION FairSpec
CONSTANTS
    NPages = 2
    MaxVersion = 4
    Threads = {app}
    Main = app
    Callers = {}
    app = app
    None = None
    Erased = Erased
    Torn = Torn
INVARIANT NoLostUpdate
PROPERTY UpdateReachesFlash

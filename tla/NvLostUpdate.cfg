SPECIFICATION Spec
CONSTANTS
    NPages = 2
    MaxVersion = 3
    Threads = {app}
    Main = app
    Callers = {app}
    app = app
    None = None
    Erased = Erased
    Torn = Torn
INVARIANT NoLostUpdate

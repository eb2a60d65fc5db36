\* One thread flushes synchronously, the idle loop asynchronously, and other
\* threads change the record in between.
SPECIFICATION FairSpec
CONSTANTS
    NPages = 2
    MaxVersion = 3
    Threads = {app}
    Main = app
    Callers = {app}
    app = app
    None = None
    Erased = Erased
    Torn = Torn
INVARIANTS
    TypeOK
    CrashSafe
    ProgramsErasedPages
    RestsOnTwoCopies
PROPERTIES
    NeverLoseBoth
    ImplementsDurable
    FlushReturns

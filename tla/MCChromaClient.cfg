\* Three threads that call again and again; the constructor raises twice.
SPECIFICATION FairSpec
CONSTANTS
    Threads = {t1, t2, t3}
    NoThread = NoThread
    NoClient = NoClient
    MaxOutages = 2
INVARIANT TypeOK
PROPERTIES
    ImplementsSharedClient
    CallsReturn

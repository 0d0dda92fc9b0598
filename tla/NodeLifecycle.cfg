CONSTANTS
    Apps = {a1, a2, a3}
    Background = Background
    NoThread = NoThread
    MaxDeferred = 1
SPECIFICATION FairSpec
INVARIANTS
    TypeOK
    OneLoop
    ShutdownIsFinal
PROPERTIES
    NoticesAreRun
    ShutdownReturns
CHECK_DEADLOCK FALSE

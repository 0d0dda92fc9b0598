CONSTANTS
    Apps = {a1, a2}
    Background = Background
    NoThread = NoThread
    MaxDeferred = 1
SPECIFICATION FairSpec
PROPERTY
    StartReturns
CHECK_DEADLOCK FALSE

CONSTANTS
    A = A
    B = B
    Addrs = {a1}
    Width = 2
    GenLen = 2
    MaxAhead = 1
    MaxFar = 2
    FarInterval = 1
    Keepalive = 1
    IdleTimeout = 1
    MaxCounter <- MCBothSend
SPECIFICATION Spec
PROPERTIES
    ImplementsService
CHECK_DEADLOCK FALSE

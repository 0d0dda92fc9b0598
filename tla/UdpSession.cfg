CONSTANTS
    A = A
    B = B
    Addrs = {a1, a2}
    Width = 2
    GenLen = 2
    MaxAhead = 1
    MaxFar = 2
    FarInterval = 1
    Keepalive = 1
    IdleTimeout = 2
    MaxCounter <- MCMaxCounter
SPECIFICATION FairSpec
INVARIANTS
    TypeOK
    NonceNeverReused
    TakenAtMostOnce
    StragglersOpen
    NewestOpensAfterLoss
    PeerNoticeIsTrue
PROPERTIES
    OnlyNewPacketsMoveTheReceiver
    PeerGoneNoticed
CHECK_DEADLOCK FALSE

CONSTANTS
    Callers = {a1, a2, a3}
    Loop = Loop
    Nobody = Nobody
SPECIFICATION FairSpec
INVARIANTS
    HolderIsInside
    NobodyOvertakesTwice
    FlagMeansLoopIsComing
PROPERTIES
    LoopGetsTheLock

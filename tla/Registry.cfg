CONSTANTS
    c1 = c1
    c2 = c2
    c3 = c3
    e1 = e1
    e2 = e2
    ip1 = ip1
    Conns = {c1, c2, c3}
    Topics = {t1, t2}
    Endpoints = {e1, e2}
    Ip <- MCIp
    PeerOf <- MCPeerOf
    Modes = {Open, Keyed}
    Hidings = {TRUE, FALSE}
    StaleAfter = 1
    MaxPerIpPerTopic = 2
    MaxPerIpTotal = 3
    MaxEntries = 3
    MaxTopics = 2
    PageLimit = 1
    OrderBits = 30
    MaxOrder = 3
    Absent = Absent
SYMMETRY MCSymmetry
SPECIFICATION Spec
INVARIANTS
    TypeOK
    OwnershipExact
    QuotasExact
    ListingExact
    FreshCountsExact
    WalkMeetsEveryTopic
PROPERTIES
    TopicIdentityStable

CONSTANTS
    c1 = c1
    c2 = c2
    c3 = c3
    e1 = e1
    e2 = e2
    Conns = {c1, c2, c3}
    Topics = {t1}
    Endpoints = {e1, e2}
    Ip <- MCIp
    PeerOf <- MCPeerOf
    Modes = {Open}
    Hidings = {FALSE}
    StaleAfter = 0
    MaxPerIpPerTopic = 1
    MaxPerIpTotal = 1
    MaxEntries = 2
    MaxTopics = 1
    PageLimit = 1
    OrderBits = 30
    MaxOrder = 1
    Absent = Absent
    UdpAddrs = {u1, u2}
    RelayEnabled = TRUE
    RelayExpiry = 1
    MaxRelays = 1
    MaxRelaysPerIp = 1
    RelayMaxBytes = 2
    Sizes = {1, 2}
    MaxRelayId = 2
SPECIFICATION RelayFairSpec
INVARIANT
    RelayQuotaExact
PROPERTY
    UnusedRelaysExpire

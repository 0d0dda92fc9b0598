CONSTANTS
    c1 = c1
    c2 = c2
    c3 = c3
    c4 = c4
    e1 = e1
    e2 = e2
    e3 = e3
    e4 = e4
    ip1 = ip1
    ip2 = ip2
    Conns = {c1, c2, c3, c4}
    Topics = {t1, t2, t3}
    Endpoints = {e1, e2, e3, e4}
    Ip <- MCIp
    PeerOf <- MCPeerOf
    Modes = {Open}
    Hidings = {FALSE}
    StaleAfter = 0
    MaxPerIpPerTopic = 2
    MaxPerIpTotal = 3
    MaxEntries = 4
    MaxTopics = 2
    PageLimit = 3
    OrderBits = 30
    MaxOrder = 3
    Absent = Absent
SYMMETRY MCSymmetry
SPECIFICATION Spec
INVARIANT
    QuotasExact

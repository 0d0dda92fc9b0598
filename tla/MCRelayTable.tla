----------------------------- MODULE MCRelayTable -----------------------------
\* RelayTable for TLC.
EXTENDS RelayTable, TLC

CONSTANTS c1, c2, c3, e1, e2

\* c2 is the connection the device at e1 comes back with.
MCPeerOf == (c1 :> e1) @@ (c2 :> e1) @@ (c3 :> e2)
MCIp(ep) == ep

\* UDP addresses are interchangeable: the code only compares them for equality.
MCSymmetry == Permutations(UdpAddrs)
=============================================================================

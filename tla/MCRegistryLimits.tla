--------------------------- MODULE MCRegistryLimits ---------------------------
\* Registry for TLC, with enough devices and topics to go past every limit.
EXTENDS Registry, TLC

CONSTANTS c1, c2, c3, c4, e1, e2, e3, e4, ip1, ip2

\* Three devices behind one address, one behind another.
MCPeerOf == (c1 :> e1) @@ (c2 :> e2) @@ (c3 :> e3) @@ (c4 :> e4)
MCIp(ep) == IF ep = e4 THEN ip2 ELSE ip1

MCSymmetry == Permutations(Topics)
=============================================================================

------------------------------ MODULE MCRegistry ------------------------------
\* Registry for TLC.
EXTENDS Registry, TLC

CONSTANTS c1, c2, c3, e1, e2, ip1

\* c2 is the connection the device at e1 comes back with; e2 shares its address.
MCPeerOf == (c1 :> e1) @@ (c2 :> e1) @@ (c3 :> e2)
MCIp(ep) == ip1

\* Topics and modes are interchangeable: the code only compares them for equality.
MCSymmetry == Permutations(Topics) \cup Permutations(Modes)
=============================================================================

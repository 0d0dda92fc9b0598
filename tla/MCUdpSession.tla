----------------------------- MODULE MCUdpSession -----------------------------
\* UdpSession for TLC.
EXTENDS UdpSession

\* One direction carries enough data to cross two key boundaries; the other carries
\* close notices only.  The ends are alike, so one busy direction is enough.
MCMaxCounter == [e \in Ends |-> IF e = A THEN 5 ELSE 0]

\* Both ends send data, for what the channel promises its users.
MCBothSend == [e \in Ends |-> IF e = A THEN 3 ELSE 1]
=============================================================================

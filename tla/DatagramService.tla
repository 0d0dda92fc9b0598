--------------------------- MODULE DatagramService ---------------------------
(***************************************************************************)
(* What a datagram channel promises its users: packets may be lost and     *)
(* reordered, but each is delivered at most once, none is invented, none   *)
(* is delivered to an end that closed, and an end that says its peer       *)
(* closed was told so by the peer.                                         *)
(***************************************************************************)
EXTENDS Naturals

CONSTANTS
    Ends,       \* the two ends of the channel
    Other(_)    \* the end across from one

VARIABLES
    up,      \* up[e]: end e is open
    sent,    \* sent[e]: the numbers of the packets e has sent
    notice,  \* notice[e]: those of them that are close notices
    got,     \* got[e]: the numbers of the packets e has taken from the other end
    count    \* count[e]: how many payloads e was handed

vars == <<up, sent, notice, got, count>>

Init ==
    /\ up = [e \in Ends |-> TRUE]
    /\ sent = [e \in Ends |-> {}]
    /\ notice = [e \in Ends |-> {}]
    /\ got = [e \in Ends |-> {}]
    /\ count = [e \in Ends |-> 0]

Fresh(e, new) == \A m \in new : m \in Nat /\ m \notin sent[e]

Send(e, m) ==
    /\ up[e]
    /\ Fresh(e, {m})
    /\ sent' = [sent EXCEPT ![e] = @ \cup {m}]
    /\ UNCHANGED <<up, notice, got, count>>

Deliver(e, m) ==
    /\ up[e]
    /\ m \in (sent[Other(e)] \ notice[Other(e)]) \ got[e]
    /\ got' = [got EXCEPT ![e] = @ \cup {m}]
    /\ count' = [count EXCEPT ![e] = @ + 1]
    /\ UNCHANGED <<up, sent, notice>>

\* An end closes on its own, telling its peer (new # {}) or not.
Close(e, new) ==
    /\ up[e]
    /\ Fresh(e, new)
    /\ up' = [up EXCEPT ![e] = FALSE]
    /\ sent' = [sent EXCEPT ![e] = @ \cup new]
    /\ notice' = [notice EXCEPT ![e] = @ \cup new]
    /\ UNCHANGED <<got, count>>

\* An end closes because a notice of its peer reached it.
Notified(e, m) ==
    /\ up[e]
    /\ m \in notice[Other(e)] \ got[e]
    /\ up' = [up EXCEPT ![e] = FALSE]
    /\ got' = [got EXCEPT ![e] = @ \cup {m}]
    /\ UNCHANGED <<sent, notice, count>>

Next ==
    \E e \in Ends :
        \/ \E m \in sent'[e] : Send(e, m)
        \/ \E m \in sent[Other(e)] : Deliver(e, m) \/ Notified(e, m)
        \/ Close(e, sent'[e] \ sent[e])

Spec == Init /\ [][Next]_vars
=============================================================================

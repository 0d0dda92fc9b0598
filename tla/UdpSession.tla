------------------------------ MODULE UdpSession ------------------------------
(***************************************************************************)
(* The two ends of one UDP datagram channel (src/src/session/session.cpp): *)
(* the sealed packets between them, the replay window, the counter-driven  *)
(* key ratchet, path migration, keepalives and closing.                    *)
(*                                                                         *)
(* An end is one record of sess, with the fields of class Session.  A key  *)
(* is the number of rekey() steps that lead to it from the keys the TCP    *)
(* session handed over; the direction is the sender's name, so packets of  *)
(* the two directions never share a key.  The network is the set of all    *)
(* packets ever sent: any of them may arrive late, twice or never, from    *)
(* any address, and with its unauthenticated header damaged.               *)
(*                                                                         *)
(* The code's instants are kept relative to the clock, which makes them    *)
(* finite: silence is now - last_recv_ (capped at the idle timeout, beyond *)
(* which it makes no difference), keepalive_in is next_keepalive_ - now    *)
(* and far_jump_in is next_far_jump_ - now, both 0 once due.               *)
(***************************************************************************)
EXTENDS Integers, FiniteSets

CONSTANTS
    A, B,          \* the two ends
    Addrs,         \* addresses a packet can come from
    Width,         \* ReplayWindow::kWidth
    GenLen,        \* 2^rekey_shift, agreed by both ends before any traffic
    MaxAhead,      \* max_generations_ahead
    MaxFar,        \* max_generations_far
    FarInterval,   \* far_jump_interval
    Keepalive,     \* keepalive
    IdleTimeout,   \* idle_timeout
    MaxCounter     \* bound: how many data and keepalive packets each end sends

ASSUME EndsDistinct == A # B

ASSUME ConstantsAssumption ==
    /\ Addrs # {}
    /\ Width \in Nat \ {0}
    /\ GenLen \in Nat \ {0}
    /\ {MaxAhead, MaxFar, FarInterval, Keepalive, IdleTimeout} \subseteq Nat
    /\ MaxCounter \in [{A, B} -> Nat]

\* session.hpp:48-52: the ratchet period stays at or above the replay window.
ASSUME PeriodCoversWindow == Width <= GenLen

Ends == {A, B}
Other(e) == IF e = A THEN B ELSE A

CloseCopies == 3               \* kCloseCopies
NoKey == -1                    \* a CipherState that is cleared or was never set
Counters(e) == 0 .. MaxCounter[e] + CloseCopies

VARIABLES
    sess,      \* the Session at each end
    net,       \* every packet ever put on the wire
    accepted   \* history: the packets each end has taken, by serial number

vars == <<sess, net, accepted>>

-----------------------------------------------------------------------------
(* ReplayWindow::accept.  The bitmap is the set of its one bits: bit b     *)
(* stands for the counter highest - b.                                     *)

AcceptFirst(w, c) == [seen |-> TRUE, highest |-> c, bitmap |-> {0}]

\* Mutant: the bitmap is shifted without dropping what leaves the window.
AcceptAheadUntruncated(w, c) ==
    [w EXCEPT !.highest = c, !.bitmap = {b + c - w.highest : b \in @} \cup {0}]

AcceptAhead(w, c) ==
    LET shift == c - w.highest
    IN [w EXCEPT !.highest = c,
                 !.bitmap = {b \in shift .. Width - 1 : b - shift \in w.bitmap} \cup {0}]

AcceptBehind(w, c) == [w EXCEPT !.bitmap = @ \cup {w.highest - c}]

\* Mutant: the bitmap is not consulted.
AcceptableUnseen(w, c) == ~w.seen \/ c > w.highest \/ w.highest - c < Width

\* Mutant: the window reaches back one counter too far (behind > kWidth).
AcceptableTooOld(w, c) ==
    \/ ~w.seen
    \/ c > w.highest
    \/ w.highest - c <= Width /\ w.highest - c \notin w.bitmap

Acceptable(w, c) ==
    \/ ~w.seen
    \/ c > w.highest
    \/ w.highest - c < Width /\ w.highest - c \notin w.bitmap

Accept(w, c) ==
    IF ~w.seen THEN AcceptFirst(w, c)
    ELSE IF c > w.highest THEN AcceptAhead(w, c)
    ELSE AcceptBehind(w, c)

-----------------------------------------------------------------------------
(* The key ratchet and open_packet.                                        *)

Generation(c) == c \div GenLen

LongJump(s, g) == g > s.recv_gen + MaxAhead

\* Mutant: only the short jump is tried.
MayJumpShortOnly(s, g) == g > s.recv_gen /\ ~LongJump(s, g)

MayJump(s, g) ==
    /\ g > s.recv_gen
    /\ LongJump(s, g) => g - s.recv_gen <= MaxFar /\ s.far_jump_in = 0

\* The key open_packet tries for generation g, NoKey when it tries none.
KeyFor(s, g) ==
    IF g = s.recv_gen THEN s.recv_cs
    ELSE IF g + 1 = s.recv_gen THEN s.recv_cs_prev
    ELSE IF MayJump(s, g) THEN s.recv_cs + (g - s.recv_gen)
    ELSE NoKey

\* Mutant: the generation is adopted before the packet has verified.
ProbedAdopting(s, g) ==
    IF MayJump(s, g)
    THEN [s EXCEPT !.recv_cs_prev = @ + 1, !.recv_cs = s.recv_cs + (g - s.recv_gen), !.recv_gen = g]
    ELSE s

\* What trying to open a packet costs, verified or not: a long jump's turn.
Probed(s, g) ==
    IF MayJump(s, g) /\ LongJump(s, g)
    THEN [s EXCEPT !.far_jump_in = FarInterval]
    ELSE s

\* Mutant: the close notice is sealed without its type byte.
VerifiesAnyType(key, type, c, p) == key # NoKey /\ key = p.key /\ c = p.counter

\* The AEAD: key, nonce and associated data are those the packet was sealed with.
Verifies(key, type, c, p) == key # NoKey /\ key = p.key /\ c = p.counter /\ type = p.type

Opens(s, type, c, p) ==
    Verifies(KeyFor(s, Generation(c)), type, c, p) /\ Acceptable(s.replay, c)

\* Mutant: the key in use before the jump is kept for stragglers, however far the jump.
OpenedKeepingOldKey(s, c) ==
    LET g == Generation(c)
        o == [Probed(s, g) EXCEPT !.replay = Accept(s.replay, c)]
    IN IF g > s.recv_gen
       THEN [o EXCEPT !.recv_cs_prev = s.recv_cs, !.recv_cs = s.recv_cs + (g - s.recv_gen),
                      !.recv_gen = g]
       ELSE o

\* The session once a packet with counter c has opened.
Opened(s, c) ==
    LET g == Generation(c)
        o == [Probed(s, g) EXCEPT !.replay = Accept(s.replay, c)]
    IN IF g > s.recv_gen
       THEN [o EXCEPT !.recv_cs_prev = s.recv_cs + (g - 1 - s.recv_gen),
                      !.recv_cs = s.recv_cs + (g - s.recv_gen),
                      !.recv_gen = g]
       ELSE o

-----------------------------------------------------------------------------
(* Sending and closing.                                                    *)

AdvanceSendKeys(s) ==
    LET g == Generation(s.send_counter)
    IN IF s.send_gen < g
       THEN [s EXCEPT !.send_cs = @ + (g - s.send_gen), !.send_gen = g]
       ELSE s

\* serial numbers an end's packets in the order they are sealed (history only).
Sealed(e, s, type, serial) ==
    [src |-> e, type |-> type, counter |-> s.send_counter, key |-> s.send_cs,
     serial |-> serial]

\* Mutant: the copies of a close notice share one counter.
QueueCloseSameCounter(s) == AdvanceSendKeys(s)

\* queue_close: one sealed notice, out of the transport counter space.
QueueClose(s) == LET k == AdvanceSendKeys(s) IN [k EXCEPT !.send_counter = @ + 1]

CloseWithCause(s, cause) ==
    [s EXCEPT !.state = "Closed", !.cause = cause,
              !.send_cs = NoKey, !.recv_cs = NoKey, !.recv_cs_prev = NoKey]

\* send_packet on an Established session.
SendPacket(e) ==
    LET s == AdvanceSendKeys(sess[e]) IN
    /\ s.send_counter < MaxCounter[e]
    /\ net' = net \cup {Sealed(e, s, "Transport", sess[e].sealed)}
    /\ sess' = [sess EXCEPT ![e] = [s EXCEPT !.send_counter = @ + 1, !.sealed = @ + 1,
                                             !.keepalive_in = Keepalive]]

-----------------------------------------------------------------------------
(* The operations of a Session.                                            *)

NewSession(path) ==
    [state |-> "Established", cause |-> "None", path |-> path,
     send_cs |-> 0, recv_cs |-> 0, recv_cs_prev |-> NoKey, send_gen |-> 0, recv_gen |-> 0,
     replay |-> [seen |-> FALSE, highest |-> 0, bitmap |-> {}], far_jump_in |-> 0,
     send_counter |-> 0, sealed |-> 0, received |-> 0,
     silence |-> 0, keepalive_in |-> Keepalive]

Init ==
    /\ \E path \in [Ends -> Addrs] : sess = [e \in Ends |-> NewSession(path[e])]
    /\ net = {}
    /\ accepted = [e \in Ends |-> {}]

Send(e) ==
    /\ sess[e].state = "Established"
    /\ SendPacket(e)
    /\ UNCHANGED accepted

SetPath(e, path) ==
    /\ sess' = [sess EXCEPT ![e].path = path, ![e].keepalive_in = 0]
    /\ UNCHANGED <<net, accepted>>

\* Mutant: last_recv_ is refreshed before the packet has verified.
OnDatagramDroppedRefreshing(e, p, type, c) ==
    /\ sess[e].state = "Established"
    /\ p.src = Other(e)
    /\ ~Opens(sess[e], type, c, p)
    /\ sess' = [sess EXCEPT ![e] = [Probed(sess[e], Generation(c)) EXCEPT !.silence = 0]]
    /\ UNCHANGED <<net, accepted>>

\* A packet arrives whose tag does not verify under its header, or a replay.
OnDatagramDropped(e, p, type, c) ==
    /\ sess[e].state = "Established"
    /\ p.src = Other(e)
    /\ ~Opens(sess[e], type, c, p)
    /\ sess' = [sess EXCEPT ![e] = Probed(@, Generation(c))]
    /\ UNCHANGED <<net, accepted>>

OnTransport(e, p, type, c, from) ==
    /\ sess[e].state = "Established"
    /\ p.src = Other(e)
    /\ type = "Transport"
    /\ Opens(sess[e], type, c, p)
    /\ LET o == Opened(sess[e], c)
       IN sess' = [sess EXCEPT ![e] = [o EXCEPT !.received = o.received + 1, !.silence = 0,
                                                !.path = from]]
    /\ accepted' = [accepted EXCEPT ![e] = @ \cup {p.serial}]
    /\ UNCHANGED net

OnClose(e, p, type, c) ==
    /\ sess[e].state = "Established"
    /\ p.src = Other(e)
    /\ type = "Close"
    /\ Opens(sess[e], type, c, p)
    /\ sess' = [sess EXCEPT ![e] =
                    CloseWithCause([Opened(@, c) EXCEPT !.silence = 0], "PeerNotice")]
    /\ accepted' = [accepted EXCEPT ![e] = @ \cup {p.serial}]
    /\ UNCHANGED net

Close(e) ==
    /\ sess[e].state = "Established"
    /\ sess' = [sess EXCEPT ![e] = CloseWithCause(@, "Local")]
    /\ UNCHANGED <<net, accepted>>

CloseWithNotice(e) ==
    LET s0 == AdvanceSendKeys(sess[e])
        s1 == AdvanceSendKeys(QueueClose(s0))
        s2 == AdvanceSendKeys(QueueClose(s1))
        n == sess[e].sealed
    IN
    /\ sess[e].state = "Established"
    /\ net' = net \cup {Sealed(e, s0, "Close", n), Sealed(e, s1, "Close", n + 1),
                        Sealed(e, s2, "Close", n + 2)}
    /\ sess' = [sess EXCEPT ![e] = CloseWithCause([QueueClose(s2) EXCEPT !.sealed = n + CloseCopies],
                                                  "Local")]
    /\ UNCHANGED accepted

OnTimeoutIdle(e) ==
    /\ sess[e].state = "Established"
    /\ sess[e].silence >= IdleTimeout
    /\ sess' = [sess EXCEPT ![e] = CloseWithCause(@, "TimedOut")]
    /\ UNCHANGED <<net, accepted>>

OnTimeoutKeepalive(e) ==
    /\ sess[e].state = "Established"
    /\ sess[e].silence < IdleTimeout
    /\ sess[e].keepalive_in = 0
    /\ SendPacket(e)
    /\ UNCHANGED accepted

\* The clock both ends are driven with moves on.
Aged(s) ==
    [s EXCEPT !.silence = IF @ < IdleTimeout THEN @ + 1 ELSE @,
              !.keepalive_in = IF @ > 0 THEN @ - 1 ELSE @,
              !.far_jump_in = IF @ > 0 THEN @ - 1 ELSE @]

Tick ==
    /\ sess' = [e \in Ends |-> Aged(sess[e])]
    /\ UNCHANGED <<net, accepted>>

Next ==
    \/ \E e \in Ends :
        \/ Send(e)
        \/ \E path \in Addrs : SetPath(e, path)
        \/ \E p \in net, type \in {"Transport", "Close"}, c \in Counters(Other(e)) :
            \/ OnDatagramDropped(e, p, type, c)
            \/ \E from \in Addrs : OnTransport(e, p, type, c, from)
            \/ OnClose(e, p, type, c)
        \/ Close(e)
        \/ CloseWithNotice(e)
        \/ OnTimeoutIdle(e)
        \/ OnTimeoutKeepalive(e)
    \/ Tick

Spec == Init /\ [][Next]_vars

\* The node's loop runs on: it wakes for next_timeout() and calls on_timeout().
Fairness == WF_vars(Tick) /\ \A e \in Ends : WF_vars(OnTimeoutIdle(e))

FairSpec == Spec /\ Fairness

-----------------------------------------------------------------------------
(* Properties.                                                             *)

ReplayWindows == [seen : BOOLEAN, highest : Nat, bitmap : SUBSET (0 .. Width - 1)]

Keys == Nat \cup {NoKey}

Sessions ==
    [state : {"Established", "Closed"}, cause : {"None", "Local", "TimedOut", "PeerNotice"},
     path : Addrs, send_cs : Keys, recv_cs : Keys, recv_cs_prev : Keys,
     send_gen : Nat, recv_gen : Nat, replay : ReplayWindows, far_jump_in : 0 .. FarInterval,
     send_counter : Nat, sealed : Nat, received : Nat,
     silence : 0 .. IdleTimeout, keepalive_in : 0 .. Keepalive]

Packets ==
    [src : Ends, type : {"Transport", "Close"}, counter : Nat, key : Keys, serial : Nat]

\* Every variable and every field of a session has its type.
TypeOK ==
    /\ sess \in [Ends -> Sessions]
    /\ net \subseteq Packets
    /\ accepted \in [Ends -> SUBSET Nat]

\* "a nonce is never used twice under one key" (session.hpp:14): send, keepalives
\* and the close copies all seal under a (key, counter) pair nobody sealed under
\* before, and never under a cleared key.
NonceNeverReused ==
    /\ \A p, q \in net : p.src = q.src /\ p.key = q.key /\ p.counter = q.counter => p = q
    /\ \A p \in net : p.key # NoKey

\* on_datagram takes no packet twice, whatever the network duplicates or delays:
\* the packets counted in received_, and the close notice if there was one, are
\* all different packets.
TakenAtMostOnce ==
    \A e \in Ends :
        sess[e].received + (IF sess[e].cause = "PeerNotice" THEN 1 ELSE 0)
            = Cardinality(accepted[e])

\* "One previous generation is provably enough" (session.hpp:214): a packet that was
\* overtaken, is still inside the replay window and was not taken yet, opens when it
\* arrives, across any key boundary in between.
StragglersOpen ==
    \A e \in Ends, p \in net :
        /\ sess[e].state = "Established"
        /\ p.src = Other(e)
        /\ sess[e].replay.seen
        /\ p.counter <= sess[e].replay.highest
        /\ sess[e].replay.highest - p.counter < Width
        /\ p.serial \notin accepted[e]
        => Opens(sess[e], p.type, p.counter, p)

\* A burst of loss strands nobody (#69): the newest packet opens whenever it is at
\* most max_generations_far ahead and the long jump's turn has come.
NewestOpensAfterLoss ==
    \A e \in Ends, p \in net :
        /\ sess[e].state = "Established"
        /\ p.src = Other(e)
        /\ p.counter > sess[e].replay.highest
        /\ Generation(p.counter) - sess[e].recv_gen <= MaxFar
        /\ sess[e].far_jump_in = 0
        => Opens(sess[e], p.type, p.counter, p)

\* A session that says the peer closed it is right: a data packet re-typed in flight,
\* a replay or a damaged header never passes for a close notice (session.cpp:81).
PeerNoticeIsTrue ==
    \A e \in Ends : sess[e].cause = "PeerNotice" => sess[Other(e)].state = "Closed"

Receiving(s) ==
    <<s.replay, s.recv_gen, s.recv_cs, s.recv_cs_prev, s.received>>

\* "Everything that mutates state lives after the AEAD" (session.hpp:194): while a
\* session stays up, its window, its receive keys and its count move only together
\* with a packet that it takes for the first time, and so does its path unless the
\* layer above sets one (which makes a keepalive due).
OnlyNewPacketsMoveTheReceiver ==
    [][\A e \in Ends :
          sess'[e].state = "Established" /\ accepted'[e] = accepted[e]
          => /\ Receiving(sess[e])' = Receiving(sess[e])
             /\ sess'[e].path # sess[e].path => sess'[e].keepalive_in = 0]_vars

\* When one end is gone the other notices, notice or no notice: its idle timeout is
\* the backstop, and neither stale copies nor damaged packets hold it off for ever.
PeerGoneNoticed ==
    \A e \in Ends : sess[Other(e)].state = "Closed" ~> sess[e].state = "Closed"

\* The packets an end has sent, and its close notices, by serial number.
SentBy == [e \in Ends |-> {p.serial : p \in {q \in net : q.src = e}}]
NoticesBy == [e \in Ends |-> {p.serial : p \in {q \in net : q.src = e /\ q.type = "Close"}}]

Service == INSTANCE DatagramService WITH
    up <- [e \in Ends |-> sess[e].state = "Established"],
    sent <- SentBy,
    notice <- NoticesBy,
    got <- accepted,
    count <- [e \in Ends |-> sess[e].received]

\* The channel implements the at-most-once datagram service: what on_datagram hands on
\* was sent by the peer, was not handed on before, and comes to an open session only.
ImplementsService == Service!Spec
=============================================================================

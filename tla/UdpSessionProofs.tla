--------------------------- MODULE UdpSessionProofs ---------------------------
(***************************************************************************)
(* What UdpSession's runs check on a small instance, proved for every      *)
(* window width, ratchet period, jump limit, timer and number of packets.  *)
(***************************************************************************)
EXTENDS UdpSession, FiniteSetTheorems, TLAPS

-----------------------------------------------------------------------------
(* The inductive invariant.                                                *)

\* The keys an open session holds are the ones its generation numbers name.
KeysMatch(s) ==
    /\ s.state = "Established" => /\ s.cause = "None"
                                  /\ s.send_cs = s.send_gen
                                  /\ s.recv_cs = s.recv_gen
                                  /\ s.recv_gen > 0 => s.recv_cs_prev = s.recv_gen - 1
    /\ s.send_gen <= Generation(s.send_counter)
    /\ s.sealed = s.send_counter

\* The receive generation is the one of the highest counter taken.
GenerationMatches(s) ==
    IF s.replay.seen THEN s.recv_gen = Generation(s.replay.highest)
    ELSE s.recv_gen = 0 /\ s.replay.highest = 0

\* The window says exactly which counters were taken, for as far as it reaches back.
WindowExact(w, taken) ==
    /\ ~w.seen => taken = {}
    /\ \A c \in taken : c <= w.highest
    /\ \A c \in Nat : w.seen /\ c <= w.highest /\ w.highest - c < Width
                      => (w.highest - c \in w.bitmap <=> c \in taken)

\* Every packet was sealed under the key its counter calls for, and no counter twice.
NetSound ==
    /\ \A p \in net : /\ p.counter < sess[p.src].send_counter
                      /\ p.serial = p.counter
                      /\ p.key = Generation(p.counter)
                      /\ p.type = "Close" => sess[p.src].state = "Closed"
    /\ \A p, q \in net : p.src = q.src /\ p.counter = q.counter => p = q

Counted(s, taken) ==
    /\ IsFiniteSet(taken)
    /\ s.received + (IF s.cause = "PeerNotice" THEN 1 ELSE 0) = Cardinality(taken)

EndSound(s, taken) ==
    /\ KeysMatch(s)
    /\ GenerationMatches(s)
    /\ WindowExact(s.replay, taken)
    /\ Counted(s, taken)

IInv ==
    /\ TypeOK
    /\ NetSound
    /\ PeerNoticeIsTrue
    /\ \A e \in Ends : EndSound(sess[e], accepted[e])

-----------------------------------------------------------------------------
(* Lemmas about generations.                                               *)

\* Generation is division by the ratchet period.
LEMMA GenerationFacts ==
  ASSUME NEW c \in Nat
  PROVE  /\ Generation(c) \in Nat
         /\ GenLen * Generation(c) <= c
         /\ c < GenLen * Generation(c) + GenLen
  BY ConstantsAssumption, SMT DEF Generation

\* Distinct generations are at least one ratchet period apart.
LEMMA PeriodsApart ==
  ASSUME NEW a \in Nat, NEW b \in Nat, a < b
  PROVE  GenLen * a + GenLen <= GenLen * b
  BY ConstantsAssumption, SMTT(20)

\* A later counter never belongs to an earlier generation.
LEMMA GenerationMonotone ==
  ASSUME NEW c \in Nat, NEW d \in Nat, c <= d
  PROVE  Generation(c) <= Generation(d)
<1>1. SUFFICES ASSUME Generation(d) < Generation(c) PROVE FALSE
  BY GenerationFacts
<1> DEFINE x == GenLen * Generation(d)
           y == GenLen * Generation(c)
<1>2. x + GenLen <= y
  BY Zenon, <1>1, GenerationFacts, PeriodsApart
<1>3. x \in Nat /\ y \in Nat /\ GenLen \in Nat /\ y <= c /\ d < x + GenLen
  BY ConstantsAssumption, GenerationFacts
<1> HIDE DEF x, y
<1>4. QED BY <1>2, <1>3

\* Counters within one replay window of each other are at most one generation
\* apart (session.hpp:48-52), because the ratchet period covers the window.
LEMMA WindowSpansTwoGenerations ==
  ASSUME NEW c \in Nat, NEW d \in Nat, c <= d, d - c < Width
  PROVE  Generation(d) <= Generation(c) + 1
<1>1. SUFFICES ASSUME Generation(c) + 1 < Generation(d) PROVE FALSE
  BY GenerationFacts
<1> DEFINE x == GenLen * Generation(c)
           z == GenLen * (Generation(c) + 1)
           y == GenLen * Generation(d)
<1>2. z + GenLen <= y
  BY <1>1, GenerationFacts, PeriodsApart
<1>3. x + GenLen <= z
  BY GenerationFacts, PeriodsApart
<1>4. x \in Nat /\ y \in Nat /\ z \in Nat /\ GenLen \in Nat /\ Width \in Nat
  BY ConstantsAssumption, GenerationFacts
<1>5. c < x + GenLen /\ y <= d
  BY Zenon, GenerationFacts
<1> HIDE DEF x, y, z
<1>6. QED BY <1>2, <1>3, <1>4, <1>5, PeriodCoversWindow

-----------------------------------------------------------------------------
(* Lemmas about the operators of a session.                                *)

\* ReplayWindow::accept keeps the window exact, and takes no counter twice.
LEMMA AcceptExact ==
  ASSUME NEW w \in ReplayWindows, NEW c \in Nat, NEW taken \in SUBSET Nat,
         WindowExact(w, taken), Acceptable(w, c)
  PROVE  /\ Accept(w, c) \in ReplayWindows
         /\ Accept(w, c).seen
         /\ Accept(w, c).highest = IF w.seen /\ c <= w.highest THEN w.highest ELSE c
         /\ WindowExact(Accept(w, c), taken \cup {c})
         /\ c \notin taken
<1> USE ConstantsAssumption DEF ReplayWindows
<1>1. CASE ~w.seen
  <2>1. taken = {}
    BY Zenon, <1>1 DEF WindowExact
  <2>2. Accept(w, c) = [seen |-> TRUE, highest |-> c, bitmap |-> {0}]
    BY Zenon, <1>1 DEF Accept, AcceptFirst
  <2>3. QED BY <1>1, <2>1, <2>2 DEF WindowExact
<1>2. CASE w.seen /\ c > w.highest
  <2> DEFINE n == Accept(w, c)
  <2>1. n = AcceptAhead(w, c)
    BY Zenon, <1>2 DEF Accept
  <2>2. /\ n.seen /\ n.highest = c
        /\ n.bitmap = {b \in c - w.highest .. Width - 1 : b - (c - w.highest) \in w.bitmap} \cup {0}
        /\ n \in ReplayWindows
    <3> DEFINE m == {b \in c - w.highest .. Width - 1 : b - (c - w.highest) \in w.bitmap} \cup {0}
    <3>1. n = [w EXCEPT !.highest = c, !.bitmap = m]
      BY Zenon, <2>1 DEF AcceptAhead
    <3>2. m \in SUBSET (0 .. Width - 1)
      BY <1>2
    <3> HIDE DEF m, n
    <3>3. n.seen /\ n.highest = c /\ n.bitmap = m /\ n \in ReplayWindows
      BY Zenon, <1>2, <3>1, <3>2
    <3>4. QED BY Zenon, <3>3 DEF m
  <2>3. c \notin taken
    BY <1>2 DEF WindowExact
  <2>4. \A d \in taken \cup {c} : d <= n.highest
    <3>1. w.highest \in Nat /\ taken \subseteq Nat /\ c \in Nat /\ n.highest = c
      BY Zenon, <2>2
    <3>2. \A d \in taken : d <= w.highest
      BY Zenon, <1>2 DEF WindowExact
    <3>3. ASSUME NEW d \in taken \cup {c} PROVE d <= c
      <4>1. CASE d = c
        BY <3>1, <4>1
      <4>2. CASE d \in taken
        <5>1. d \in Nat /\ d <= w.highest
          BY Zenon, <3>1, <3>2, <4>2
        <5>2. QED BY <1>2, <3>1, <5>1
      <4>3. QED BY Zenon, <4>1, <4>2
    <3>4. QED BY Zenon, <3>1, <3>3
  <2>5. ASSUME NEW d \in Nat, d <= c, c - d < Width
        PROVE  c - d \in n.bitmap <=> d \in taken \cup {c}
    <3>1. CASE d = c
      BY <2>2, <3>1
    <3>2. CASE d # c /\ d <= w.highest
      <4>1. c - d \in n.bitmap <=> w.highest - d \in w.bitmap
        BY <1>2, <2>2, <2>5, <3>2
      <4>2. w.highest - d \in w.bitmap <=> d \in taken
        BY <1>2, <2>5, <3>2 DEF WindowExact
      <4>3. QED BY Zenon, <4>1, <4>2, <3>2
    <3>3. CASE d # c /\ d > w.highest
      <4>1. c - d \notin n.bitmap
        BY <1>2, <2>2, <2>5, <3>3
      <4>2. d \notin taken
        BY <3>3 DEF WindowExact
      <4>3. QED BY Zenon, <4>1, <4>2, <3>3
    <3>4. QED BY <3>1, <3>2, <3>3
  <2>6. WindowExact(n, taken \cup {c})
    BY <2>2, <2>4, <2>5 DEF WindowExact
  <2> HIDE DEF n
  <2>7. QED BY <1>2, <2>2, <2>3, <2>6 DEF n
<1>3. CASE w.seen /\ ~(c > w.highest)
  <2>1. w.highest - c < Width /\ w.highest - c \notin w.bitmap
    BY Zenon, <1>3 DEF Acceptable
  <2>2. Accept(w, c) = [w EXCEPT !.bitmap = @ \cup {w.highest - c}]
    BY Zenon, <1>3 DEF Accept, AcceptBehind
  <2>3. c \notin taken
    BY Zenon, <1>3, <2>1 DEF WindowExact
  <2>4. ASSUME NEW d \in Nat, d <= w.highest, w.highest - d < Width
        PROVE  w.highest - d \in w.bitmap \cup {w.highest - c} <=> d \in taken \cup {c}
    BY <1>3, <2>4 DEF WindowExact
  <2>5. QED BY <1>3, <2>1, <2>2, <2>3, <2>4 DEF WindowExact
<1>4. QED BY Zenon, <1>1, <1>2, <1>3

\* The fields that sealing a packet leaves alone.
Kept == {"state", "cause", "recv_cs", "recv_cs_prev", "recv_gen", "replay", "received"}

\* advance_send_keys leaves the session with the key of its next counter.
LEMMA AdvanceSendKeysSound ==
  ASSUME NEW s \in Sessions, s.send_cs = s.send_gen, s.send_gen <= Generation(s.send_counter)
  PROVE  LET k == AdvanceSendKeys(s) IN
         /\ k \in Sessions
         /\ k.send_gen = Generation(s.send_counter)
         /\ k.send_cs = Generation(s.send_counter)
         /\ k.send_counter = s.send_counter
         /\ k.sealed = s.sealed
         /\ \A f \in Kept : k[f] = s[f]
<1> DEFINE g == Generation(s.send_counter)
           k == AdvanceSendKeys(s)
<1>1. g \in Nat /\ g \in Keys /\ s.send_gen \in Nat /\ s.send_gen <= g
  BY Zenon, GenerationFacts DEF Sessions, Keys
<1>2. k = IF s.send_gen < g
          THEN [s EXCEPT !.send_cs = s.send_cs + (g - s.send_gen), !.send_gen = g]
          ELSE s
  BY Zenon DEF AdvanceSendKeys, Sessions
<1> HIDE DEF g, k
<1>3. s.send_cs + (g - s.send_gen) = g
  BY <1>1
<1>4. CASE s.send_gen < g
  <2>1. k = [s EXCEPT !.send_cs = g, !.send_gen = g]
    BY Zenon, <1>2, <1>3, <1>4
  <2>2. k \in Sessions
    BY Zenon, <1>1, <2>1 DEF Sessions
  <2>3. QED BY Zenon, <2>1, <2>2 DEF g, k, Kept, Sessions
<1>5. CASE ~(s.send_gen < g)
  <2>1. s.send_gen = g
    BY <1>1, <1>5
  <2>2. k = s
    BY Zenon, <1>2, <1>5
  <2>3. QED BY Zenon, <2>1, <2>2 DEF g, k
<1>6. QED BY Zenon, <1>4, <1>5

\* queue_close seals one packet and leaves the session ready for the next.
LEMMA QueueCloseSound ==
  ASSUME NEW s \in Sessions, s.send_cs = s.send_gen, s.send_gen <= Generation(s.send_counter)
  PROVE  LET q == QueueClose(s) IN
         /\ q \in Sessions
         /\ q.send_counter = s.send_counter + 1
         /\ q.send_cs = q.send_gen
         /\ q.send_gen <= Generation(q.send_counter)
         /\ q.sealed = s.sealed
         /\ \A f \in Kept : q[f] = s[f]
<1> DEFINE k == AdvanceSendKeys(s)
           q == QueueClose(s)
<1>1. /\ k \in Sessions /\ k.send_counter = s.send_counter /\ k.sealed = s.sealed
      /\ k.send_gen = Generation(s.send_counter) /\ k.send_cs = Generation(s.send_counter)
      /\ \A f \in Kept : k[f] = s[f]
  BY Zenon, AdvanceSendKeysSound
<1>2. q = [k EXCEPT !.send_counter = k.send_counter + 1]
  BY Zenon DEF QueueClose
<1> HIDE DEF k, q
<1>3. s.send_counter \in Nat /\ k.send_counter + 1 \in Nat
  BY <1>1 DEF Sessions
<1>4. Generation(s.send_counter) <= Generation(s.send_counter + 1)
  BY <1>3, GenerationMonotone
<1>5. q \in Sessions
  BY Zenon, <1>1, <1>2, <1>3 DEF Sessions
<1>6. QED BY <1>1, <1>2, <1>4, <1>5 DEF Kept, Sessions, q

\* A live session in step, given the counters it took, and a counter its window accepts.
ReadyToOpen(s, taken, c) ==
    /\ s \in Sessions /\ taken \in SUBSET Nat /\ c \in Nat
    /\ s.state = "Established" /\ KeysMatch(s) /\ GenerationMatches(s)
    /\ WindowExact(s.replay, taken) /\ Acceptable(s.replay, c)

\* The session after opening c is in step again, and c is new to it.
OpenedWell(s, taken, c) ==
    /\ Opened(s, c) \in Sessions
    /\ KeysMatch(Opened(s, c))
    /\ GenerationMatches(Opened(s, c))
    /\ WindowExact(Opened(s, c).replay, taken \cup {c})
    /\ \A f \in {"state", "cause", "send_counter", "sealed", "received"} :
          Opened(s, c)[f] = s[f]
    /\ c \notin taken

\* A packet that opens leaves keys, generation and window in step (open_packet).
LEMMA OpenedSound ==
  ASSUME NEW s, NEW taken, NEW c, ReadyToOpen(s, taken, c)
  PROVE  OpenedWell(s, taken, c)
<1>0. SUFFICES ASSUME s \in Sessions, taken \in SUBSET Nat, c \in Nat,
                      s.state = "Established", KeysMatch(s), GenerationMatches(s),
                      WindowExact(s.replay, taken), Acceptable(s.replay, c)
               PROVE  /\ Opened(s, c) \in Sessions
                      /\ KeysMatch(Opened(s, c))
                      /\ GenerationMatches(Opened(s, c))
                      /\ WindowExact(Opened(s, c).replay, taken \cup {c})
                      /\ \A f \in {"state", "cause", "send_counter", "sealed", "received"} :
                            Opened(s, c)[f] = s[f]
                      /\ c \notin taken
  BY Zenon DEF ReadyToOpen, OpenedWell
<1> USE <1>0
<1> DEFINE g == Generation(c)
           w == Accept(s.replay, c)
           o == [Probed(s, g) EXCEPT !.replay = w]
<1>1. g \in Nat /\ s.replay \in ReplayWindows
  BY Zenon, GenerationFacts DEF Sessions
<1>2. /\ w \in ReplayWindows /\ w.seen
      /\ w.highest = IF s.replay.seen /\ c <= s.replay.highest THEN s.replay.highest ELSE c
      /\ WindowExact(w, taken \cup {c})
      /\ c \notin taken
  BY <1>1, AcceptExact, Zenon
<1> HIDE DEF w
<1>3. /\ o \in Sessions /\ o.replay = w
      /\ o.recv_gen = s.recv_gen /\ o.recv_cs = s.recv_cs /\ o.recv_cs_prev = s.recv_cs_prev
      /\ o.send_gen = s.send_gen /\ o.send_cs = s.send_cs
      /\ \A f \in {"state", "cause", "send_counter", "sealed", "received"} : o[f] = s[f]
  BY <1>2, ConstantsAssumption DEF Probed, Sessions
<1>4. Opened(s, c) = IF g > s.recv_gen
                     THEN [o EXCEPT !.recv_cs_prev = s.recv_cs + (g - 1 - s.recv_gen),
                                    !.recv_cs = s.recv_cs + (g - s.recv_gen),
                                    !.recv_gen = g]
                     ELSE o
  BY Zenon DEF Opened, w
<1>5. s.recv_cs = s.recv_gen /\ s.recv_gen \in Nat
  BY Zenon DEF KeysMatch, Sessions
<1> HIDE DEF g, o
<1>6. CASE g > s.recv_gen
  <2>1. Opened(s, c) = [o EXCEPT !.recv_cs_prev = g - 1, !.recv_cs = g, !.recv_gen = g]
    <3>1. s.recv_cs + (g - 1 - s.recv_gen) = g - 1 /\ s.recv_cs + (g - s.recv_gen) = g
      BY <1>1, <1>5
    <3>2. QED BY Zenon, <1>4, <1>6, <3>1
  <2>2. ~(s.replay.seen /\ c <= s.replay.highest)
    <3>1. SUFFICES ASSUME s.replay.seen, c <= s.replay.highest PROVE FALSE
      BY Zenon
    <3>2. g <= Generation(s.replay.highest)
      BY Zenon, <3>1, <1>1, GenerationMonotone DEF g, ReplayWindows
    <3>3. QED BY <3>1, <3>2, <1>6, <1>1, <1>5 DEF GenerationMatches
  <2>3. Opened(s, c) \in Sessions
    <3>1. g \in Keys /\ g - 1 \in Keys
      BY <1>1, <1>5, <1>6 DEF Keys
    <3>2. QED BY <1>1, <1>3, <2>1, <3>1, ZenonT(40) DEF Sessions
  <2>4. KeysMatch(Opened(s, c))
    BY <1>1, <1>3, <2>1 DEF KeysMatch, Sessions
  <2>5. GenerationMatches(Opened(s, c))
    BY <1>2, <1>3, <2>1, <2>2 DEF GenerationMatches, Sessions, g
  <2>6. QED BY <1>2, <1>3, <2>1, <2>3, <2>4, <2>5 DEF Sessions
<1>7. CASE ~(g > s.recv_gen)
  <2>1. Opened(s, c) = o
    BY Zenon, <1>4, <1>7
  <2>2. KeysMatch(o)
    BY Zenon, <1>3 DEF KeysMatch
  <2>3. GenerationMatches(o)
    <3>1. CASE s.replay.seen /\ c <= s.replay.highest
      BY Zenon, <3>1, <1>2, <1>3 DEF GenerationMatches
    <3>2. CASE s.replay.seen /\ ~(c <= s.replay.highest)
      <4>1. Generation(s.replay.highest) <= g
        BY <3>2, <1>1, GenerationMonotone DEF g, ReplayWindows
      <4>2. s.recv_gen = g
        BY <4>1, <3>2, <1>7, <1>1, <1>5 DEF GenerationMatches
      <4>3. QED BY Zenon, <4>2, <3>2, <1>2, <1>3 DEF GenerationMatches, g
    <3>3. CASE ~s.replay.seen
      <4>1. s.recv_gen = g
        BY <3>3, <1>7, <1>1, <1>5 DEF GenerationMatches
      <4>2. QED BY Zenon, <4>1, <3>3, <1>2, <1>3 DEF GenerationMatches, g
    <3>4. QED BY Zenon, <3>1, <3>2, <3>3
  <2>4. QED BY Zenon, <1>2, <1>3, <2>1, <2>2, <2>3
<1>8. QED BY Zenon, <1>6, <1>7, <1>1, <1>5

-----------------------------------------------------------------------------
(* The invariant is inductive.                                             *)

\* Packets that end e, becoming t, may put on the wire: fresh counters, each once.
FreshPackets(new, e, t) ==
    /\ new \subseteq Packets
    /\ \A p \in new : /\ p.src = e
                      /\ sess[e].send_counter <= p.counter
                      /\ p.counter < t.send_counter
                      /\ p.serial = p.counter
                      /\ p.key = Generation(p.counter)
                      /\ p.type = "Close" => t.state = "Closed"
    /\ \A p, q \in new : p.counter = q.counter => p = q

\* A step of one end keeps the invariant when the end's new record is sound, its
\* counter does not go back, a closed end stays closed and its packets are fresh.
LEMMA StepOfOneEnd ==
  ASSUME IInv, NEW e \in Ends, NEW t \in Sessions, NEW taken \in SUBSET Nat, NEW new,
         sess' = [sess EXCEPT ![e] = t],
         accepted' = [accepted EXCEPT ![e] = taken],
         net' = net \cup new,
         FreshPackets(new, e, t),
         EndSound(t, taken),
         sess[e].send_counter <= t.send_counter,
         sess[e].state = "Closed" => t.state = "Closed",
         t.cause = "PeerNotice" => sess[Other(e)].state = "Closed"
  PROVE  IInv'
<1>1. sess \in [Ends -> Sessions] /\ accepted \in [Ends -> SUBSET Nat] /\ net \subseteq Packets
  BY Zenon DEF IInv, TypeOK
<1>2. sess'[e] = t /\ \A f \in Ends : f # e => sess'[f] = sess[f]
  BY Zenon, <1>1
<1>3. accepted'[e] = taken /\ \A f \in Ends : f # e => accepted'[f] = accepted[f]
  BY Zenon, <1>1
<1>4. TypeOK'
  BY Zenon, <1>1 DEF TypeOK, FreshPackets
<1>5. NetSound'
  <2>1. /\ sess[e].send_counter \in Nat /\ t.send_counter \in Nat
        /\ \A p \in net \cup new : p.src \in Ends /\ p.counter \in Nat
    BY Zenon, <1>1 DEF Sessions, Packets, FreshPackets
  <2>2. \A f \in Ends : /\ sess[f].send_counter \in Nat
                        /\ sess[f].send_counter <= sess'[f].send_counter
                        /\ sess[f].state = "Closed" => sess'[f].state = "Closed"
    BY <1>1, <1>2, <2>1 DEF Sessions
  <2>3. ASSUME NEW p \in net'
        PROVE  /\ p.counter < sess'[p.src].send_counter
               /\ p.serial = p.counter
               /\ p.key = Generation(p.counter)
               /\ p.type = "Close" => sess'[p.src].state = "Closed"
    <3>1. CASE p \in net
      <4>1. p.counter < sess[p.src].send_counter /\ sess'[p.src].send_counter \in Nat
        BY Zenon, <3>1, <1>2, <2>1, <2>2 DEF IInv, NetSound
      <4>2. QED BY <3>1, <4>1, <2>1, <2>2 DEF IInv, NetSound
    <3>2. CASE p \in new
      BY Zenon, <3>2, <1>2 DEF FreshPackets
    <3>3. QED BY Zenon, <3>1, <3>2
  <2>4. ASSUME NEW p \in net', NEW q \in net', p.src = q.src, p.counter = q.counter
        PROVE  p = q
    <3>1. CASE p \in net /\ q \in net
      BY Zenon, <3>1, <2>4 DEF IInv, NetSound
    <3>2. CASE p \in new /\ q \in new
      BY Zenon, <3>2, <2>4 DEF FreshPackets
    <3>3. CASE p \in net /\ q \in new
      BY <3>3, <2>1, <2>4 DEF IInv, NetSound, FreshPackets
    <3>4. CASE p \in new /\ q \in net
      BY <3>4, <2>1, <2>4 DEF IInv, NetSound, FreshPackets
    <3>5. QED BY Zenon, <3>1, <3>2, <3>3, <3>4
  <2>5. QED BY Zenon, <2>3, <2>4 DEF NetSound
<1>6. PeerNoticeIsTrue'
  BY Zenon, <1>2 DEF IInv, PeerNoticeIsTrue, Ends, Other
<1>7. \A f \in Ends : EndSound(sess'[f], accepted'[f])
  BY Zenon, <1>2, <1>3 DEF IInv
<1>8. QED BY Zenon, <1>4, <1>5, <1>6, <1>7 DEF IInv

\* The same for a step that sends nothing.
LEMMA SilentStepOfOneEnd ==
  ASSUME IInv, NEW e \in Ends, NEW t \in Sessions, NEW taken \in SUBSET Nat,
         sess' = [sess EXCEPT ![e] = t],
         accepted' = [accepted EXCEPT ![e] = taken],
         net' = net,
         EndSound(t, taken),
         sess[e].send_counter = t.send_counter,
         sess[e].state = "Closed" => t.state = "Closed",
         t.cause = "PeerNotice" => sess[Other(e)].state = "Closed"
  PROVE  IInv'
<1>1. FreshPackets({}, e, t) /\ net' = net \cup {}
  BY Zenon DEF FreshPackets
<1>2. sess[e].send_counter <= t.send_counter
  BY DEF Sessions
<1>3. QED BY Zenon, <1>1, <1>2, StepOfOneEnd

\* A fresh channel satisfies the invariant.
LEMMA InitEstablishes ==
  Init => IInv
<1>1. SUFFICES ASSUME Init PROVE IInv
  BY Zenon
<1>2. PICK path \in [Ends -> Addrs] : sess = [e \in Ends |-> NewSession(path[e])]
  BY Zenon, <1>1 DEF Init
<1>3. Generation(0) = 0
  BY ConstantsAssumption DEF Generation
<1>4. ASSUME NEW a \in Addrs
      PROVE  NewSession(a) \in Sessions /\ EndSound(NewSession(a), {})
  <2>1. NewSession(a) \in Sessions
    BY <1>4, ConstantsAssumption DEF NewSession, Sessions, Keys, ReplayWindows, NoKey
  <2>2. Counted(NewSession(a), {})
    BY FS_EmptySet DEF NewSession, Counted
  <2>3. KeysMatch(NewSession(a))
    BY <1>3 DEF NewSession, KeysMatch
  <2>4. GenerationMatches(NewSession(a))
    BY Zenon DEF NewSession, GenerationMatches
  <2>5. WindowExact(NewSession(a).replay, {})
    BY Zenon DEF NewSession, WindowExact
  <2>6. QED BY Zenon, <2>1, <2>2, <2>3, <2>4, <2>5 DEF EndSound
<1>5. TypeOK /\ NetSound
  BY Zenon, <1>1, <1>2, <1>4 DEF Init, TypeOK, NetSound
<1>6. PeerNoticeIsTrue
  BY Zenon, <1>2 DEF PeerNoticeIsTrue, NewSession
<1>7. \A e \in Ends : EndSound(sess[e], accepted[e])
  BY Zenon, <1>1, <1>2, <1>4 DEF Init
<1>8. QED BY Zenon, <1>5, <1>6, <1>7 DEF IInv

\* send_packet, from send() or from the keepalive timer.
LEMMA SendPacketPreserves ==
  ASSUME IInv, NEW e \in Ends, sess[e].state = "Established", SendPacket(e), accepted' = accepted
  PROVE  IInv'
<1> DEFINE s == sess[e]
           g == Generation(s.send_counter)
           k == AdvanceSendKeys(s)
           t == [k EXCEPT !.send_counter = k.send_counter + 1, !.sealed = k.sealed + 1,
                          !.keepalive_in = Keepalive]
           p == Sealed(e, k, "Transport", s.sealed)
<1>1. s \in Sessions /\ EndSound(s, accepted[e]) /\ accepted[e] \in SUBSET Nat
      /\ accepted \in [Ends -> SUBSET Nat] /\ s.state = "Established"
  BY Zenon DEF IInv, TypeOK
<1>2. sess' = [sess EXCEPT ![e] = t] /\ net' = net \cup {p}
  BY Zenon DEF SendPacket
<1> HIDE DEF s
<1>3. /\ k \in Sessions /\ k.send_gen = g /\ k.send_cs = g
      /\ k.send_counter = s.send_counter /\ k.sealed = s.sealed
      /\ \A f \in Kept : k[f] = s[f]
  BY Zenon, <1>1, AdvanceSendKeysSound DEF EndSound, KeysMatch
<1>4. s.send_counter \in Nat /\ s.sealed = s.send_counter /\ g \in Nat
  BY Zenon, <1>1, GenerationFacts DEF Sessions, EndSound, KeysMatch
<1> HIDE DEF k
<1>5. t \in Sessions
  <2>1. k.send_counter + 1 \in Nat /\ k.sealed + 1 \in Nat /\ Keepalive \in 0 .. Keepalive
    BY <1>3, <1>4, ConstantsAssumption
  <2>2. QED BY Zenon, <1>3, <2>1 DEF Sessions
<1>6. /\ t.send_counter = s.send_counter + 1 /\ t.sealed = s.sealed + 1
      /\ t.send_gen = g /\ t.send_cs = g
      /\ \A f \in Kept : t[f] = s[f]
  BY Zenon, <1>3 DEF Sessions, Kept
<1>7. p = [src |-> e, type |-> "Transport", counter |-> s.send_counter, key |-> g,
           serial |-> s.send_counter]
  BY Zenon, <1>3, <1>4 DEF Sealed
<1> HIDE DEF t, p
<1>8. g <= Generation(s.send_counter + 1)
  BY <1>4, GenerationMonotone
<1> HIDE DEF g
<1>9. FreshPackets({p}, e, t)
  <2>1. p \in Packets
    BY Zenon, <1>4, <1>7 DEF Packets, Keys
  <2>2. QED BY <1>4, <1>6, <1>7, <2>1 DEF FreshPackets, s, g
<1>10. EndSound(t, accepted[e])
  <2>1. KeysMatch(t)
    BY Zenon, <1>1, <1>4, <1>6, <1>8 DEF EndSound, KeysMatch, Kept
  <2>2. GenerationMatches(t) /\ WindowExact(t.replay, accepted[e]) /\ Counted(t, accepted[e])
    BY Zenon, <1>1, <1>6 DEF EndSound, GenerationMatches, Counted, Kept
  <2>3. QED BY Zenon, <2>1, <2>2 DEF EndSound
<1>11. accepted' = [accepted EXCEPT ![e] = accepted[e]]
  BY Zenon, <1>1
<1>12. /\ sess[e].send_counter <= t.send_counter
       /\ sess[e].state # "Closed"
       /\ t.cause # "PeerNotice"
  BY <1>1, <1>4, <1>6 DEF s, EndSound, KeysMatch, Kept
<1>13. QED BY Zenon, <1>1, <1>2, <1>5, <1>9, <1>10, <1>11, <1>12, StepOfOneEnd

\* An end that closes keeps everything but its keys.
LEMMA CloseWithCauseSound ==
  ASSUME NEW s \in Sessions, NEW cause \in {"Local", "TimedOut", "PeerNotice"}
  PROVE  LET t == CloseWithCause(s, cause) IN
         /\ t \in Sessions
         /\ t.state = "Closed" /\ t.cause = cause
         /\ \A f \in {"send_counter", "sealed", "send_gen", "recv_gen", "replay", "received"} :
               t[f] = s[f]
  BY Zenon DEF CloseWithCause, Sessions, Keys

\* close() and the idle timeout: the end closes without a word.
LEMMA SilentClosePreserves ==
  ASSUME IInv, NEW e \in Ends, NEW cause \in {"Local", "TimedOut"},
         sess[e].state = "Established",
         sess' = [sess EXCEPT ![e] = CloseWithCause(@, cause)],
         net' = net, accepted' = accepted
  PROVE  IInv'
<1> DEFINE t == CloseWithCause(sess[e], cause)
<1>1. sess[e] \in Sessions /\ EndSound(sess[e], accepted[e]) /\ accepted[e] \in SUBSET Nat
      /\ accepted \in [Ends -> SUBSET Nat] /\ sess \in [Ends -> Sessions]
  BY Zenon DEF IInv, TypeOK
<1>2. /\ t \in Sessions /\ t.state = "Closed" /\ t.cause = cause
      /\ \A f \in {"send_counter", "sealed", "send_gen", "recv_gen", "replay", "received"} :
            t[f] = sess[e][f]
  BY <1>1, CloseWithCauseSound
<1>3. sess' = [sess EXCEPT ![e] = t] /\ accepted' = [accepted EXCEPT ![e] = accepted[e]]
  BY Zenon, <1>1
<1> HIDE DEF t
<1>4. EndSound(t, accepted[e])
  BY Zenon, <1>1, <1>2 DEF EndSound, KeysMatch, GenerationMatches, Counted
<1>5. QED BY Zenon, <1>1, <1>2, <1>3, <1>4, SilentStepOfOneEnd

\* close_with_notice: three sealed copies, possibly across a key boundary.
LEMMA CloseWithNoticePreserves ==
  ASSUME IInv, NEW e \in Ends, CloseWithNotice(e)
  PROVE  IInv'
<1> DEFINE s == sess[e]
           c == s.send_counter
           s0 == AdvanceSendKeys(s)
           q0 == QueueClose(s0)
           s1 == AdvanceSendKeys(q0)
           q1 == QueueClose(s1)
           s2 == AdvanceSendKeys(q1)
           q2 == QueueClose(s2)
           r == [q2 EXCEPT !.sealed = s.sealed + CloseCopies]
           t == CloseWithCause(r, "Local")
           new == {Sealed(e, s0, "Close", s.sealed), Sealed(e, s1, "Close", s.sealed + 1),
                   Sealed(e, s2, "Close", s.sealed + 2)}
           Notice(n) == [src |-> e, type |-> "Close", counter |-> n, key |-> Generation(n),
                         serial |-> n]
           Ready(x, n) == /\ x \in Sessions /\ x.send_counter = n /\ x.send_cs = x.send_gen
                          /\ x.send_gen <= Generation(n)
                          /\ \A f \in Kept : x[f] = s[f]
<1>1. s \in Sessions /\ EndSound(s, accepted[e]) /\ accepted[e] \in SUBSET Nat
      /\ accepted \in [Ends -> SUBSET Nat] /\ sess \in [Ends -> Sessions]
      /\ s.state = "Established" /\ c \in Nat /\ s.sealed = c
  BY Zenon DEF IInv, TypeOK, EndSound, KeysMatch, CloseWithNotice, Sessions
<1>2. sess' = [sess EXCEPT ![e] = t] /\ net' = net \cup new /\ accepted' = accepted
  BY Zenon DEF CloseWithNotice
<1>3. Ready(s, c)
  BY Zenon, <1>1 DEF EndSound, KeysMatch
<1> HIDE DEF s
<1>4. ASSUME NEW x, NEW n \in Nat, Ready(x, n)
      PROVE  /\ Ready(AdvanceSendKeys(x), n)
             /\ AdvanceSendKeys(x).send_cs = Generation(n)
             /\ Ready(QueueClose(x), n + 1)
  BY <1>4, AdvanceSendKeysSound, QueueCloseSound, GenerationFacts
<1> HIDE DEF Ready, c
<1>5. Ready(s0, c) /\ s0.send_cs = Generation(c)
  BY Zenon, <1>1, <1>3, <1>4
<1>6. Ready(q0, c + 1)
  BY Zenon, <1>1, <1>4, <1>5
<1>7. Ready(s1, c + 1) /\ s1.send_cs = Generation(c + 1)
  BY <1>1, <1>4, <1>6
<1>8. Ready(q1, (c + 1) + 1)
  <2>1. c + 1 \in Nat
    BY <1>1
  <2>2. QED BY Zenon, <1>4, <1>7, <2>1
<1>9. Ready(s2, (c + 1) + 1) /\ s2.send_cs = Generation((c + 1) + 1)
  <2>1. (c + 1) + 1 \in Nat
    BY <1>1
  <2>2. QED BY Zenon, <1>4, <1>8, <2>1
<1>10. Ready(q2, ((c + 1) + 1) + 1)
  <2>1. (c + 1) + 1 \in Nat
    BY <1>1
  <2>2. QED BY <1>4, <1>9, <2>1, Zenon
<1> HIDE DEF s0, q0, s1, q1, s2, q2
<1>11. new = {Notice(c), Notice(c + 1), Notice(c + 2)}
  <2>1. (c + 1) + 1 = c + 2
    BY <1>1
  <2>2. QED BY Zenon, <1>1, <1>5, <1>7, <1>9, <2>1 DEF Sealed, Ready
<1> HIDE DEF new
<1>12. r \in Sessions /\ r.send_counter = c + 3 /\ r.sealed = c + 3
       /\ r.send_gen <= Generation(c + 3) /\ \A f \in Kept : r[f] = s[f]
  <2>1. s.sealed + CloseCopies = c + 3 /\ ((c + 1) + 1) + 1 = c + 3 /\ c + 3 \in Nat
    BY <1>1 DEF CloseCopies
  <2>2. r = [q2 EXCEPT !.sealed = c + 3]
    BY Zenon, <2>1
  <2>3. r \in Sessions
    BY Zenon, <1>10, <2>1, <2>2 DEF Sessions, Ready
  <2>4. QED BY Zenon, <1>10, <2>1, <2>2, <2>3 DEF Sessions, Kept, Ready
<1> HIDE DEF r
<1>13. /\ t \in Sessions /\ t.state = "Closed" /\ t.cause = "Local"
       /\ \A f \in {"send_counter", "sealed", "send_gen", "recv_gen", "replay", "received"} :
             t[f] = r[f]
  BY Zenon, <1>12, CloseWithCauseSound
<1> HIDE DEF t
<1>14. FreshPackets(new, e, t)
  <2>1. \A n \in Nat : Notice(n) \in Packets
    BY Zenon, GenerationFacts DEF Packets, Keys
  <2>2. c \in Nat /\ t.send_counter = c + 3 /\ sess[e].send_counter = c
    BY Zenon, <1>1, <1>12, <1>13 DEF c, s
  <2>3. QED BY <1>11, <1>13, <2>1, <2>2, SMTT(60) DEF FreshPackets
<1>15. EndSound(t, accepted[e])
  <2>1. KeysMatch(t)
    BY Zenon, <1>12, <1>13 DEF KeysMatch
  <2>2. GenerationMatches(t) /\ WindowExact(t.replay, accepted[e]) /\ Counted(t, accepted[e])
    <3>1. t.replay = s.replay /\ t.recv_gen = s.recv_gen /\ t.received = s.received
      BY Zenon, <1>12, <1>13 DEF Kept
    <3>2. s.cause # "PeerNotice"
      BY Zenon, <1>1 DEF EndSound, KeysMatch
    <3>3. QED BY Zenon, <1>1, <1>13, <3>1, <3>2 DEF EndSound, GenerationMatches, Counted
  <2>3. QED BY Zenon, <2>1, <2>2 DEF EndSound
<1>16. accepted' = [accepted EXCEPT ![e] = accepted[e]]
  BY Zenon, <1>1, <1>2
<1>17. sess[e].send_counter <= t.send_counter
  BY <1>1, <1>12, <1>13 DEF c, s
<1>18. QED BY Zenon, <1>1, <1>2, <1>13, <1>14, <1>15, <1>16, <1>17, StepOfOneEnd

\* Changing the path, the long jump's turn or the timers leaves an end sound.
LEMMA SoundnessIgnoresTimers ==
  ASSUME NEW s \in Sessions, NEW t \in Sessions, NEW taken, EndSound(s, taken),
         t.send_counter = s.send_counter, t.sealed = s.sealed,
         t.send_gen = s.send_gen, t.send_cs = s.send_cs,
         \A f \in Kept : t[f] = s[f]
  PROVE  EndSound(t, taken)
  BY Zenon DEF EndSound, KeysMatch, GenerationMatches, Counted, Kept

\* set_path.
LEMMA SetPathPreserves ==
  ASSUME IInv, NEW e \in Ends, NEW path \in Addrs, SetPath(e, path)
  PROVE  IInv'
<1> DEFINE t == [sess[e] EXCEPT !.path = path, !.keepalive_in = 0]
<1>1. sess[e] \in Sessions /\ EndSound(sess[e], accepted[e]) /\ accepted[e] \in SUBSET Nat
      /\ accepted \in [Ends -> SUBSET Nat] /\ sess \in [Ends -> Sessions]
  BY Zenon DEF IInv, TypeOK
<1>2. sess' = [sess EXCEPT ![e] = t] /\ net' = net /\ accepted' = [accepted EXCEPT ![e] = accepted[e]]
  BY Zenon, <1>1 DEF SetPath, Sessions
<1>3. t \in Sessions
  <2>1. 0 \in 0 .. Keepalive
    BY ConstantsAssumption
  <2>2. QED BY Zenon, <1>1, <2>1 DEF Sessions
<1>4. /\ t.send_counter = sess[e].send_counter /\ t.sealed = sess[e].sealed
      /\ t.send_gen = sess[e].send_gen /\ t.send_cs = sess[e].send_cs
      /\ \A f \in Kept : t[f] = sess[e][f]
  BY Zenon, <1>1 DEF Sessions, Kept
<1> HIDE DEF t
<1>5. EndSound(t, accepted[e])
  BY Zenon, <1>1, <1>3, <1>4, SoundnessIgnoresTimers
<1>6. t.cause = "PeerNotice" => sess[Other(e)].state = "Closed"
  BY Zenon, <1>4 DEF Kept, IInv, PeerNoticeIsTrue
<1>7. QED BY Zenon, <1>1, <1>2, <1>3, <1>4, <1>5, <1>6, SilentStepOfOneEnd DEF Kept

\* A datagram that is dropped.
LEMMA OnDatagramDroppedPreserves ==
  ASSUME IInv, NEW e \in Ends, NEW p, NEW type, NEW c, OnDatagramDropped(e, p, type, c)
  PROVE  IInv'
<1> DEFINE t == Probed(sess[e], Generation(c))
<1>1. sess[e] \in Sessions /\ EndSound(sess[e], accepted[e]) /\ accepted[e] \in SUBSET Nat
      /\ accepted \in [Ends -> SUBSET Nat] /\ sess \in [Ends -> Sessions]
  BY Zenon DEF IInv, TypeOK
<1>2. sess' = [sess EXCEPT ![e] = t] /\ net' = net /\ accepted' = [accepted EXCEPT ![e] = accepted[e]]
  BY Zenon, <1>1 DEF OnDatagramDropped
<1>3. t \in Sessions
  BY <1>1, ConstantsAssumption DEF Sessions, Probed
<1>4. /\ t.send_counter = sess[e].send_counter /\ t.sealed = sess[e].sealed
      /\ t.send_gen = sess[e].send_gen /\ t.send_cs = sess[e].send_cs
      /\ \A f \in Kept : t[f] = sess[e][f]
  BY Zenon, <1>1 DEF Sessions, Kept, Probed
<1> HIDE DEF t
<1>5. EndSound(t, accepted[e])
  BY Zenon, <1>1, <1>3, <1>4, SoundnessIgnoresTimers
<1>6. t.cause = "PeerNotice" => sess[Other(e)].state = "Closed"
  BY <1>4, Zenon DEF Kept, IInv, PeerNoticeIsTrue
<1>7. QED BY Zenon, <1>1, <1>2, <1>3, <1>4, <1>5, <1>6, SilentStepOfOneEnd DEF Kept

\* A packet that opens was not taken before; taking it is counted once.
LEMMA OpensSound ==
  ASSUME IInv, NEW e \in Ends, NEW p \in net, NEW type, NEW c \in Nat,
         sess[e].state = "Established", p.src = Other(e), Opens(sess[e], type, c, p)
  PROVE  LET o == Opened(sess[e], c)
             taken == accepted[e] \cup {p.serial}
         IN /\ o \in Sessions /\ KeysMatch(o) /\ GenerationMatches(o)
            /\ WindowExact(o.replay, taken)
            /\ taken \in SUBSET Nat /\ IsFiniteSet(taken)
            /\ o.received + 1 = Cardinality(taken)
            /\ o.state = "Established" /\ o.cause = "None"
            /\ o.send_counter = sess[e].send_counter /\ o.sealed = sess[e].sealed
<1> DEFINE s == sess[e]
           o == Opened(s, c)
<1>1. s \in Sessions /\ EndSound(s, accepted[e]) /\ accepted[e] \in SUBSET Nat
  BY Zenon DEF IInv, TypeOK
<1>2. c = p.counter /\ p.serial = c /\ Acceptable(s.replay, c)
  BY Zenon DEF IInv, NetSound, Opens, Verifies
<1>3. s.cause = "None" /\ s.received = Cardinality(accepted[e]) /\ IsFiniteSet(accepted[e])
  <2>1. s.cause = "None" /\ s.received \in Nat
    BY Zenon, <1>1 DEF EndSound, KeysMatch, Sessions
  <2>2. s.received + 0 = Cardinality(accepted[e]) /\ IsFiniteSet(accepted[e])
    BY Zenon, <1>1, <2>1 DEF EndSound, Counted
  <2>3. QED BY <2>1, <2>2, SMTT(60)
<1>4. /\ o \in Sessions /\ KeysMatch(o) /\ GenerationMatches(o)
      /\ WindowExact(o.replay, accepted[e] \cup {c})
      /\ \A f \in {"state", "cause", "send_counter", "sealed", "received"} : o[f] = s[f]
      /\ c \notin accepted[e]
  <2>1. ReadyToOpen(s, accepted[e], c)
    BY Zenon, <1>1, <1>2 DEF ReadyToOpen, EndSound
  <2> HIDE DEF s
  <2>2. OpenedWell(s, accepted[e], c)
    BY Zenon, <2>1, OpenedSound
  <2>3. QED BY Zenon, <2>2 DEF OpenedWell
<1> HIDE DEF s
<1>5. IsFiniteSet(accepted[e] \cup {c}) /\ Cardinality(accepted[e] \cup {c}) = s.received + 1
  <2>1. /\ IsFiniteSet(accepted[e] \cup {c})
        /\ Cardinality(accepted[e] \cup {c}) =
              IF c \in accepted[e] THEN Cardinality(accepted[e]) ELSE Cardinality(accepted[e]) + 1
    BY <1>3, FS_AddElement, Zenon
  <2>2. QED BY Zenon, <1>3, <1>4, <2>1
<1>6. QED BY Zenon, <1>1, <1>2, <1>3, <1>4, <1>5 DEF s

\* A Transport packet that opens.
LEMMA OnTransportPreserves ==
  ASSUME IInv, NEW e \in Ends, NEW p \in net, NEW type, NEW c \in Nat, NEW from \in Addrs,
         OnTransport(e, p, type, c, from)
  PROVE  IInv'
<1> DEFINE o == Opened(sess[e], c)
           taken == accepted[e] \cup {p.serial}
           t == [o EXCEPT !.received = o.received + 1, !.silence = 0, !.path = from]
<1>1. sess[e] \in Sessions /\ sess \in [Ends -> Sessions]
  BY Zenon DEF IInv, TypeOK
<1>2. /\ o \in Sessions /\ KeysMatch(o) /\ GenerationMatches(o)
      /\ WindowExact(o.replay, taken)
      /\ taken \in SUBSET Nat /\ IsFiniteSet(taken)
      /\ o.received + 1 = Cardinality(taken)
      /\ o.state = "Established" /\ o.cause = "None"
      /\ o.send_counter = sess[e].send_counter /\ o.sealed = sess[e].sealed
  BY Zenon, OpensSound DEF OnTransport
<1>3. sess' = [sess EXCEPT ![e] = t] /\ accepted' = [accepted EXCEPT ![e] = taken] /\ net' = net
      /\ sess[e].state = "Established"
  BY Zenon DEF OnTransport
<1> HIDE DEF o, taken
<1>4. t \in Sessions
  <2>1. o.received + 1 \in Nat /\ 0 \in 0 .. IdleTimeout
    BY <1>2, ConstantsAssumption, SMTT(60) DEF Sessions
  <2>2. QED BY Zenon, <1>2, <2>1 DEF Sessions
<1>5. /\ t.received = o.received + 1
      /\ \A f \in {"state", "cause", "send_counter", "sealed", "send_gen", "send_cs", "recv_cs",
                   "recv_cs_prev", "recv_gen", "replay"} : t[f] = o[f]
  BY Zenon, <1>2 DEF Sessions
<1> HIDE DEF t
<1>6. EndSound(t, taken)
  <2>1. KeysMatch(t) /\ GenerationMatches(t) /\ WindowExact(t.replay, taken)
    BY Zenon, <1>2, <1>5 DEF KeysMatch, GenerationMatches
  <2>2. t.received \in Nat /\ t.received = Cardinality(taken) /\ t.cause # "PeerNotice"
    BY Zenon, <1>2, <1>4, <1>5 DEF Sessions
  <2>3. QED BY <1>2, <2>1, <2>2 DEF EndSound, Counted
<1>7. QED BY Zenon, <1>1, <1>2, <1>3, <1>4, <1>5, <1>6, SilentStepOfOneEnd

\* A Close packet that opens.
LEMMA OnClosePreserves ==
  ASSUME IInv, NEW e \in Ends, NEW p \in net, NEW type, NEW c \in Nat, OnClose(e, p, type, c)
  PROVE  IInv'
<1> DEFINE o == Opened(sess[e], c)
           taken == accepted[e] \cup {p.serial}
           r == [o EXCEPT !.silence = 0]
           t == CloseWithCause(r, "PeerNotice")
<1>1. sess[e] \in Sessions /\ sess \in [Ends -> Sessions]
  BY Zenon DEF IInv, TypeOK
<1>2. /\ o \in Sessions /\ KeysMatch(o) /\ GenerationMatches(o)
      /\ WindowExact(o.replay, taken)
      /\ taken \in SUBSET Nat /\ IsFiniteSet(taken)
      /\ o.received + 1 = Cardinality(taken)
      /\ o.state = "Established" /\ o.cause = "None"
      /\ o.send_counter = sess[e].send_counter /\ o.sealed = sess[e].sealed
  BY Zenon, OpensSound DEF OnClose
<1>3. sess' = [sess EXCEPT ![e] = t] /\ accepted' = [accepted EXCEPT ![e] = taken] /\ net' = net
      /\ sess[e].state = "Established"
  BY Zenon DEF OnClose
<1>4. sess[Other(e)].state = "Closed"
  BY Zenon DEF OnClose, Opens, Verifies, IInv, NetSound
<1> HIDE DEF o, taken
<1>5. r \in Sessions /\ r.send_counter = o.send_counter /\ r.sealed = o.sealed
      /\ r.send_gen = o.send_gen /\ r.recv_gen = o.recv_gen /\ r.replay = o.replay
      /\ r.received = o.received
  BY <1>2, ConstantsAssumption DEF Sessions
<1> HIDE DEF r
<1>6. /\ t \in Sessions /\ t.state = "Closed" /\ t.cause = "PeerNotice"
      /\ \A f \in {"send_counter", "sealed", "send_gen", "recv_gen", "replay", "received"} :
            t[f] = r[f]
  BY Zenon, <1>5, CloseWithCauseSound
<1> HIDE DEF t
<1>7. EndSound(t, taken)
  BY Zenon, <1>2, <1>5, <1>6 DEF EndSound, KeysMatch, GenerationMatches, Counted
<1>8. QED BY Zenon, <1>1, <1>2, <1>3, <1>4, <1>5, <1>6, <1>7, SilentStepOfOneEnd

\* The clock.
LEMMA TickPreserves ==
  ASSUME IInv, Tick
  PROVE  IInv'
<1>1. ASSUME NEW e \in Ends
      PROVE  /\ sess[e] \in Sessions /\ sess'[e] \in Sessions
             /\ sess'[e].send_counter = sess[e].send_counter /\ sess'[e].sealed = sess[e].sealed
             /\ sess'[e].send_gen = sess[e].send_gen /\ sess'[e].send_cs = sess[e].send_cs
             /\ \A f \in Kept : sess'[e][f] = sess[e][f]
  <2> DEFINE s == sess[e]
             sil == IF s.silence < IdleTimeout THEN s.silence + 1 ELSE s.silence
             ka == IF s.keepalive_in > 0 THEN s.keepalive_in - 1 ELSE s.keepalive_in
             fj == IF s.far_jump_in > 0 THEN s.far_jump_in - 1 ELSE s.far_jump_in
             t == [s EXCEPT !.silence = sil, !.keepalive_in = ka, !.far_jump_in = fj]
  <2>1. s \in Sessions
    BY Zenon DEF IInv, TypeOK
  <2>2. sess'[e] = t
    BY Zenon, <2>1 DEF Tick, Aged, Sessions
  <2> HIDE DEF s
  <2>3. sil \in 0 .. IdleTimeout /\ ka \in 0 .. Keepalive /\ fj \in 0 .. FarInterval
    BY <2>1, ConstantsAssumption DEF Sessions
  <2> HIDE DEF sil, ka, fj
  <2>4. t \in Sessions
    BY Zenon, <2>1, <2>3 DEF Sessions
  <2>5. t.send_counter = s.send_counter /\ t.sealed = s.sealed
        /\ t.send_gen = s.send_gen /\ t.send_cs = s.send_cs
        /\ \A f \in Kept : t[f] = s[f]
    BY Zenon, <2>1 DEF Sessions, Kept
  <2> HIDE DEF t
  <2>6. QED BY Zenon, <2>1, <2>2, <2>4, <2>5 DEF s
<1>2. net' = net /\ accepted' = accepted /\ sess' = [e \in Ends |-> sess'[e]]
  BY Zenon DEF Tick
<1>3. TypeOK'
  BY Zenon, <1>1, <1>2 DEF IInv, TypeOK
<1>4. \A e \in Ends : sess'[e].state = sess[e].state /\ sess'[e].cause = sess[e].cause
  BY Zenon, <1>1 DEF Kept
<1>5. NetSound'
  BY Zenon, <1>1, <1>2, <1>4 DEF IInv, NetSound, TypeOK, Packets
<1>6. PeerNoticeIsTrue'
  BY Zenon, <1>4 DEF IInv, PeerNoticeIsTrue, Ends, Other
<1>7. \A e \in Ends : EndSound(sess'[e], accepted'[e])
  BY <1>1, <1>2, SoundnessIgnoresTimers DEF IInv
<1>8. QED BY Zenon, <1>3, <1>5, <1>6, <1>7 DEF IInv

\* Every step keeps the invariant: one case per action.
LEMMA NextPreserves ==
  IInv /\ [Next]_vars => IInv'
<1>1. SUFFICES ASSUME IInv, [Next]_vars PROVE IInv'
  BY Zenon
<1>2. ASSUME NEW e \in Ends, Send(e) PROVE IInv'
  BY Zenon, <1>1, <1>2, SendPacketPreserves DEF Send
<1>3. ASSUME NEW e \in Ends, NEW path \in Addrs, SetPath(e, path) PROVE IInv'
  BY Zenon, <1>1, <1>3, SetPathPreserves
<1>4. ASSUME NEW e \in Ends, NEW p \in net, NEW type \in {"Transport", "Close"},
             NEW c \in Counters(Other(e)),
             \/ OnDatagramDropped(e, p, type, c)
             \/ \E from \in Addrs : OnTransport(e, p, type, c, from)
             \/ OnClose(e, p, type, c)
      PROVE  IInv'
  <2>1. c \in Nat
    BY ConstantsAssumption DEF Counters, CloseCopies, Other, Ends
  <2>2. QED BY Zenon, <1>1, <1>4, <2>1, OnDatagramDroppedPreserves, OnTransportPreserves, OnClosePreserves
<1>5. ASSUME NEW e \in Ends, Close(e) PROVE IInv'
  BY Zenon, <1>1, <1>5, SilentClosePreserves DEF Close
<1>6. ASSUME NEW e \in Ends, CloseWithNotice(e) PROVE IInv'
  BY Zenon, <1>1, <1>6, CloseWithNoticePreserves
<1>7. ASSUME NEW e \in Ends, OnTimeoutIdle(e) PROVE IInv'
  BY Zenon, <1>1, <1>7, SilentClosePreserves DEF OnTimeoutIdle
<1>8. ASSUME NEW e \in Ends, OnTimeoutKeepalive(e) PROVE IInv'
  BY Zenon, <1>1, <1>8, SendPacketPreserves DEF OnTimeoutKeepalive
<1>9. CASE Tick
  BY Zenon, <1>1, <1>9, TickPreserves
<1>10. CASE UNCHANGED vars
  <2>1. sess' = sess /\ net' = net /\ accepted' = accepted
    BY Zenon, <1>10 DEF vars
  <2>2. QED BY Zenon, <1>1, <2>1 DEF IInv, TypeOK, NetSound, PeerNoticeIsTrue
<1>11. QED BY Zenon, <1>1, <1>2, <1>3, <1>4, <1>5, <1>6, <1>7, <1>8, <1>9, <1>10 DEF Next

\* The invariant holds in every reachable state.
THEOREM Invariant == Spec => []IInv
<1>1. QED BY InitEstablishes, NextPreserves, PTL DEF Spec

-----------------------------------------------------------------------------
(* What the invariant implies.                                             *)

\* Every variable and every session field keeps its type, for any constants.
THEOREM TypeCorrect == Spec => []TypeOK
<1>1. IInv => TypeOK
  BY Zenon DEF IInv
<1>2. QED BY <1>1, Invariant, PTL

\* No (key, counter) pair seals two packets, whichever of send, keepalive and
\* close notice drew the counter.
THEOREM NonceUnique == Spec => []NonceNeverReused
<1>1. IInv => NonceNeverReused
  BY GenerationFacts DEF IInv, NetSound, NonceNeverReused, TypeOK, Packets, NoKey
<1>2. QED BY <1>1, Invariant, PTL

\* Each packet is taken at most once, however often the network delivers it.
THEOREM AtMostOnce == Spec => []TakenAtMostOnce
<1>1. IInv => TakenAtMostOnce
  BY Zenon DEF IInv, EndSound, Counted, TakenAtMostOnce
<1>2. QED BY <1>1, Invariant, PTL

\* A close notice that was believed was sent: PeerNotice implies the peer closed.
THEOREM NoticeTrue == Spec => []PeerNoticeIsTrue
<1>1. IInv => PeerNoticeIsTrue
  BY Zenon DEF IInv
<1>2. QED BY <1>1, Invariant, PTL

\* One previous key is enough for every packet the replay window still admits.
THEOREM PreviousKeySuffices == Spec => []StragglersOpen
<1>1. IInv => StragglersOpen
  <2>1. SUFFICES ASSUME IInv, NEW e \in Ends, NEW p \in net,
                        sess[e].state = "Established", p.src = Other(e), sess[e].replay.seen,
                        p.counter <= sess[e].replay.highest,
                        sess[e].replay.highest - p.counter < Width,
                        p.serial \notin accepted[e]
                 PROVE  Opens(sess[e], p.type, p.counter, p)
    BY Zenon DEF StragglersOpen
  <2> DEFINE s == sess[e]
             h == s.replay.highest
             g == Generation(p.counter)
  <2>2. /\ s \in Sessions /\ p \in Packets /\ h \in Nat /\ p.counter \in Nat
        /\ p.key = g /\ p.serial = p.counter /\ EndSound(s, accepted[e])
    BY <2>1, Zenon DEF IInv, TypeOK, NetSound, Sessions, ReplayWindows, Packets
  <2>3. g \in Nat /\ g <= Generation(h) /\ Generation(h) <= g + 1 /\ Generation(h) \in Nat
    BY <2>1, <2>2, GenerationFacts, GenerationMonotone, WindowSpansTwoGenerations, Zenon
  <2>4. /\ s.recv_gen = Generation(h) /\ s.recv_cs = s.recv_gen
        /\ s.recv_gen > 0 => s.recv_cs_prev = s.recv_gen - 1
    BY <2>1, <2>2, Zenon DEF EndSound, KeysMatch, GenerationMatches
  <2>5. Acceptable(s.replay, p.counter)
    BY Zenon, <2>1, <2>2 DEF EndSound, WindowExact, Acceptable
  <2> HIDE DEF g, s
  <2>6. KeyFor(s, g) = g
    BY <2>3, <2>4, SMTT(30) DEF KeyFor
  <2>7. QED BY <2>2, <2>3, <2>5, <2>6, SMTT(60) DEF Opens, Verifies, NoKey, g, s
<1>2. QED BY <1>1, Invariant, PTL

\* No burst of loss within max_generations_far strands the receiver.
THEOREM LossDoesNotStrand == Spec => []NewestOpensAfterLoss
<1>1. IInv => NewestOpensAfterLoss
  <2>1. SUFFICES ASSUME IInv, NEW e \in Ends, NEW p \in net,
                        sess[e].state = "Established", p.src = Other(e),
                        p.counter > sess[e].replay.highest,
                        Generation(p.counter) - sess[e].recv_gen <= MaxFar,
                        sess[e].far_jump_in = 0
                 PROVE  Opens(sess[e], p.type, p.counter, p)
    BY Zenon DEF NewestOpensAfterLoss
  <2> DEFINE s == sess[e]
             g == Generation(p.counter)
  <2>2. /\ s \in Sessions /\ p.counter \in Nat /\ s.replay.highest \in Nat /\ s.recv_gen \in Nat
        /\ p.key = g /\ EndSound(s, accepted[e]) /\ g \in Nat
    BY Zenon, <2>1, GenerationFacts DEF IInv, TypeOK, NetSound, Sessions, ReplayWindows, Packets
  <2>3. s.recv_gen <= g
    <3>1. CASE s.replay.seen
      BY <3>1, <2>1, <2>2, GenerationMonotone, SMTT(90) DEF EndSound, GenerationMatches
    <3>2. CASE ~s.replay.seen
      BY <3>2, <2>2, SMTT(90) DEF EndSound, GenerationMatches
    <3>3. QED BY Zenon, <3>1, <3>2
  <2>4. s.recv_cs = s.recv_gen
    BY Zenon, <2>1, <2>2 DEF EndSound, KeysMatch
  <2>5. Acceptable(s.replay, p.counter)
    BY Zenon, <2>1 DEF Acceptable
  <2>6. g - s.recv_gen <= MaxFar /\ s.far_jump_in = 0
    BY Zenon, <2>1
  <2> HIDE DEF g, s
  <2>7. KeyFor(s, g) = g
    BY <2>2, <2>3, <2>4, <2>6 DEF KeyFor, MayJump
  <2>8. QED BY <2>2, <2>5, <2>7 DEF Opens, Verifies, NoKey, g, s
<1>2. QED BY <1>1, Invariant, PTL

\* A session that changes nothing but path, timers and send state has not moved.
LEMMA UnmovedWhenKept ==
  ASSUME NEW s, NEW t, \A f \in Kept : t[f] = s[f]
  PROVE  Receiving(t) = Receiving(s)
  BY Zenon DEF Kept, Receiving

\* While a session stays up, only a packet taken for the first time moves its replay
\* window, its receive keys or its count, or follows the peer to a new address.
THEOREM ReceiverMovesOnNewPackets == Spec => OnlyNewPacketsMoveTheReceiver
<1> DEFINE Unmoved(e) ==
             sess'[e].state = "Established" /\ accepted'[e] = accepted[e]
             => /\ Receiving(sess[e])' = Receiving(sess[e])
                /\ sess'[e].path # sess[e].path => sess'[e].keepalive_in = 0
<1>1. ASSUME IInv, [Next]_vars PROVE [\A e \in Ends : Unmoved(e)]_vars
  <2>1. SUFFICES ASSUME Next, NEW e \in Ends PROVE Unmoved(e)
    BY Zenon, <1>1
  <2>2. sess \in [Ends -> Sessions] /\ accepted \in [Ends -> SUBSET Nat]
        /\ \A f \in Ends : sess[f] \in Sessions /\ EndSound(sess[f], accepted[f])
    BY Zenon, <1>1 DEF IInv, TypeOK
  <2>3. ASSUME NEW f \in Ends, SendPacket(f), sess[f].state = "Established" PROVE Unmoved(e)
    <3> DEFINE k == AdvanceSendKeys(sess[f])
               t == [k EXCEPT !.send_counter = k.send_counter + 1, !.sealed = k.sealed + 1,
                              !.keepalive_in = Keepalive]
    <3>1. sess' = [sess EXCEPT ![f] = t]
      BY <2>3, Zenon DEF SendPacket
    <3>2. k \in Sessions /\ \A x \in Kept : k[x] = sess[f][x]
      BY Zenon, <2>2, <2>3, AdvanceSendKeysSound DEF EndSound, KeysMatch
    <3>3. k.path = sess[f].path
      BY Zenon, <2>2 DEF AdvanceSendKeys, Sessions
    <3> HIDE DEF k
    <3>4. t.path = sess[f].path /\ \A x \in Kept : t[x] = sess[f][x]
      BY <3>2, <3>3, Zenon DEF Sessions, Kept
    <3> HIDE DEF t
    <3>5. QED BY ZenonT(60), <2>2, <3>1, <3>4, UnmovedWhenKept
  <2>4. ASSUME NEW f \in Ends, NEW path \in Addrs, SetPath(f, path) PROVE Unmoved(e)
    <3> DEFINE t == [sess[f] EXCEPT !.path = path, !.keepalive_in = 0]
    <3>1. sess' = [sess EXCEPT ![f] = t]
      BY Zenon, <2>2, <2>4 DEF SetPath, Sessions
    <3>2. t.keepalive_in = 0 /\ \A x \in Kept : t[x] = sess[f][x]
      BY ZenonT(60), <2>2 DEF Sessions, Kept
    <3> HIDE DEF t
    <3>3. QED BY Zenon, <2>2, <3>1, <3>2, UnmovedWhenKept
  <2>5. ASSUME NEW f \in Ends, NEW p \in net, NEW type, NEW c, OnDatagramDropped(f, p, type, c)
        PROVE  Unmoved(e)
    <3> DEFINE t == Probed(sess[f], Generation(c))
    <3>1. sess' = [sess EXCEPT ![f] = t]
      BY Zenon, <2>5 DEF OnDatagramDropped
    <3>2. t.path = sess[f].path /\ \A x \in Kept : t[x] = sess[f][x]
      BY Zenon, <2>2 DEF Sessions, Kept, Probed
    <3> HIDE DEF t
    <3>3. QED BY Zenon, <2>2, <3>1, <3>2, UnmovedWhenKept
  <2>6. ASSUME NEW f \in Ends, NEW p \in net, NEW type, NEW c \in Nat, NEW from,
               OnTransport(f, p, type, c, from)
        PROVE  Unmoved(e)
    <3>1. /\ Acceptable(sess[f].replay, c) /\ c = p.counter /\ p.serial = p.counter
          /\ accepted' = [accepted EXCEPT ![f] = @ \cup {p.serial}]
          /\ sess[f].replay \in ReplayWindows
      BY <1>1, <2>2, <2>6, Zenon DEF OnTransport, Opens, Verifies, IInv, NetSound, Sessions
    <3>2. p.serial \notin accepted[f]
      BY Zenon, <2>2, <3>1, AcceptExact DEF EndSound
    <3>3. CASE e = f
      BY Zenon, <2>2, <3>1, <3>2, <3>3
    <3>4. CASE e # f
      BY Zenon, <2>2, <2>6, <3>4 DEF OnTransport
    <3>5. QED BY Zenon, <3>3, <3>4
  <2>7. ASSUME NEW f \in Ends, NEW s, NEW cause,
               sess' = [sess EXCEPT ![f] = CloseWithCause(s, cause)]
        PROVE  Unmoved(e)
    <3>1. sess'[f] = CloseWithCause(s, cause) /\ CloseWithCause(s, cause) \in Sessions
      BY Zenon, <1>1, <2>2, <2>7, NextPreserves DEF IInv, TypeOK
    <3>2. sess'[f].state = "Closed"
      BY Zenon, <3>1 DEF CloseWithCause, Sessions
    <3>3. CASE e = f
      BY Zenon, <3>2, <3>3
    <3>4. CASE e # f
      BY Zenon, <2>2, <2>7, <3>4
    <3>5. QED BY Zenon, <3>3, <3>4
  <2>8. CASE Tick
    <3>1. sess'[e] = Aged(sess[e])
      BY Zenon, <2>8 DEF Tick
    <3>2. Aged(sess[e]).path = sess[e].path /\ \A x \in Kept : Aged(sess[e])[x] = sess[e][x]
      BY <2>2, ZenonT(60) DEF Aged, Sessions, Kept
    <3>3. QED BY Zenon, <3>1, <3>2, UnmovedWhenKept
  <2>9. ASSUME NEW f \in Ends, NEW p \in net, NEW type, NEW c \in Counters(Other(f)),
               \/ OnDatagramDropped(f, p, type, c)
               \/ \E from \in Addrs : OnTransport(f, p, type, c, from)
               \/ OnClose(f, p, type, c)
        PROVE  Unmoved(e)
    <3>1. c \in Nat
      BY ConstantsAssumption DEF Counters, CloseCopies, Other, Ends
    <3>2. CASE OnClose(f, p, type, c)
      BY Zenon, <3>2, <2>7 DEF OnClose
    <3>3. QED BY Zenon, <2>5, <2>6, <2>9, <3>1, <3>2
  <2>10. ASSUME NEW f \in Ends, Send(f) \/ OnTimeoutKeepalive(f) PROVE Unmoved(e)
    BY Zenon, <2>3, <2>10 DEF Send, OnTimeoutKeepalive
  <2>11. ASSUME NEW f \in Ends, Close(f) \/ OnTimeoutIdle(f) \/ CloseWithNotice(f)
         PROVE  Unmoved(e)
    BY <2>7, <2>11 DEF Close, OnTimeoutIdle, CloseWithNotice
  <2> HIDE DEF Unmoved
  <2>12. QED BY Zenon, <2>1, <2>4, <2>8, <2>9, <2>10, <2>11 DEF Next
<1>2. QED BY <1>1, Invariant, PTL DEF Spec, OnlyNewPacketsMoveTheReceiver
=============================================================================

------------------------------ MODULE RelayTable ------------------------------
(***************************************************************************)
(* Relay bindings (src/server/registry.cpp, "Relays") beside the records   *)
(* they are made for: allocation and the offer to the peer, UDP binding    *)
(* and forwarding, the byte budget, the per-address quota, expiry, and the *)
(* release of a closed connection's bindings.                              *)
(*                                                                         *)
(* A relay id is the number of the allocation: ids are random 64-bit       *)
(* numbers in the code and never come back.  A token is its relay and      *)
(* side, so relay_side is the side itself.                                 *)
(***************************************************************************)
EXTENDS Registry

CONSTANTS
    UdpAddrs,                      \* addresses UDP datagrams come from
    RelayEnabled, RelayExpiry, MaxRelays, MaxRelaysPerIp, RelayMaxBytes,
    Sizes,                         \* payload sizes
    MaxRelayId                     \* bound: allocations

ASSUME RelayConstants ==
    /\ RelayEnabled \in BOOLEAN
    /\ RelayExpiry \in Nat \ {0} /\ MaxRelays \in Nat /\ MaxRelaysPerIp \in Nat
    /\ RelayMaxBytes \in Nat /\ MaxRelayId \in Nat /\ Sizes \subseteq Nat

VARIABLES
    relays,          \* relays_: a Relay per id, or Absent
    next_relay,      \* the id of the next allocation
    relays_per_ip,   \* relays_per_ip_
    offer            \* the RelayOffer sent by this step, if it is an allocation

relayVars == <<relays, next_relay, relays_per_ip, offer>>

Ids == 1 .. MaxRelayId
Kinds == {"Tcp", "Udp"}
Sides == {0, 1}

Relays ==
    [kind : Kinds, dev : [Sides -> Devs], owner : [Sides -> Conns],
     udp : [Sides -> UdpAddrs \cup {Absent}], counted_ip : Ips, idle : 0 .. RelayExpiry,
     bytes : 0 .. RelayMaxBytes, exhausted : BOOLEAN]

Bound == {id \in Ids : relays[id] # Absent}

-----------------------------------------------------------------------------
(* Allocation.                                                             *)

\* A mutation of Between: a binding is found only by the side that asked for it.
BetweenOneWay(r, kind, from, peer) ==
    r.kind = kind /\ r.dev[0] = from /\ r.dev[1] = peer

Between(r, kind, from, peer) ==
    r.kind = kind /\ \E side \in Sides : r.dev[side] = from /\ r.dev[1 - side] = peer

\* What relay_alloc asks of the caller before it looks at any binding.
MayAsk(c, from, peer) ==
    /\ RelayEnabled
    /\ c \in open
    /\ from \in Live /\ peer \in Live
    /\ by_dev[from].owner = c
    /\ from[1] = peer[1]

\* There is a binding for the pair: it is handed out again, unless it is spent, and
\* offered to the peer's side again.
RelayAgain(c, from, peer, kind) ==
    /\ MayAsk(c, from, peer)
    /\ \E id \in Bound, side \in Sides :
          /\ Between(relays[id], kind, from, peer)
          /\ relays[id].dev[side] = from
          /\ ~relays[id].exhausted
          /\ relays' = [relays EXCEPT ![id].idle = 0]
          /\ offer' = [id |-> id, dev |-> peer, to |-> relays[id].owner[1 - side]]
    /\ UNCHANGED <<next_relay, relays_per_ip, vars>>

\* A mutation of RelayWithinQuota: only the address has a limit.
RelayWithinQuotaOfAddress(ip) == relays_per_ip[ip] < MaxRelaysPerIp

RelayWithinQuota(ip) ==
    Cardinality(Bound) < MaxRelays /\ relays_per_ip[ip] < MaxRelaysPerIp

RelayNew(c, from, peer, kind) ==
    LET ip == Ip(PeerOf[c])
        binding == [kind |-> kind,
                    dev |-> [side \in Sides |-> IF side = 0 THEN from ELSE peer],
                    owner |-> [side \in Sides |-> IF side = 0 THEN c ELSE by_dev[peer].owner],
                    udp |-> [side \in Sides |-> Absent], counted_ip |-> ip,
                    idle |-> 0, bytes |-> 0, exhausted |-> FALSE]
    IN
    /\ MayAsk(c, from, peer)
    /\ \A id \in Bound : ~Between(relays[id], kind, from, peer)
    /\ RelayWithinQuota(ip)
    /\ next_relay \in Ids
    /\ relays' = [relays EXCEPT ![next_relay] = binding]
    /\ next_relay' = next_relay + 1
    /\ relays_per_ip' = [relays_per_ip EXCEPT ![ip] = @ + 1]
    /\ offer' = [id |-> next_relay, dev |-> peer, to |-> by_dev[peer].owner]
    /\ UNCHANGED vars

-----------------------------------------------------------------------------
(* Traffic.                                                                *)

\* A mutation of Charged: the budget is noticed after it is exceeded.
ChargedLate(r, n) ==
    IF r.exhausted THEN r
    ELSE [r EXCEPT !.bytes = @ + n, !.idle = 0, !.exhausted = r.bytes + n > RelayMaxBytes]

\* A mutation of Charged: a spent binding takes what still fits.
ChargedIfItFits(r, n) ==
    IF r.bytes + n > RelayMaxBytes THEN [r EXCEPT !.exhausted = TRUE]
    ELSE [r EXCEPT !.bytes = @ + n, !.idle = 0]

Charged(r, n) ==
    IF r.exhausted \/ r.bytes + n > RelayMaxBytes THEN [r EXCEPT !.exhausted = TRUE]
    ELSE [r EXCEPT !.bytes = @ + n, !.idle = 0]

\* relay_charge, for bytes of a TCP splice.
RelayCharge(id, n) ==
    /\ id \in Bound
    /\ relays[id].kind = "Tcp"
    /\ relays' = [relays EXCEPT ![id] = Charged(@, n)]
    /\ offer' = Absent
    /\ UNCHANGED <<next_relay, relays_per_ip, vars>>

UdpBind(id, side, src) ==
    /\ id \in Bound
    /\ relays[id].kind = "Udp"
    /\ relays' = [relays EXCEPT ![id].udp[side] = src, ![id].idle = 0]
    /\ offer' = Absent
    /\ UNCHANGED <<next_relay, relays_per_ip, vars>>

UdpForward(id, src, n) ==
    /\ id \in Bound
    /\ relays[id].kind = "Udp"
    /\ LET from == IF relays[id].udp[0] = src THEN 0 ELSE 1
       IN relays[id].udp[from] = src /\ relays[id].udp[1 - from] # Absent
    /\ relays' = [relays EXCEPT ![id] = Charged(@, n)]
    /\ offer' = Absent
    /\ UNCHANGED <<next_relay, relays_per_ip, vars>>

-----------------------------------------------------------------------------
(* Release.                                                                *)

HeldBy(ids, ip) == Cardinality({id \in ids : relays[id].counted_ip = ip})

\* A mutation of ReleaseRelays: the address is not given its quota back.
ReleaseRelaysLeaking(ids) ==
    /\ relays' = [id \in Ids |-> IF id \in ids THEN Absent ELSE relays[id]]
    /\ offer' = Absent
    /\ UNCHANGED <<next_relay, relays_per_ip>>

\* release_relay for each of the given bindings.
ReleaseRelays(ids) ==
    /\ relays' = [id \in Ids |-> IF id \in ids THEN Absent ELSE relays[id]]
    /\ relays_per_ip' = [ip \in Ips |-> Decremented(relays_per_ip[ip], HeldBy(ids, ip))]
    /\ offer' = Absent
    /\ UNCHANGED next_relay

\* A mutation of CloseConnection: only the side that asked for a binding ends it.
CloseConnectionOfAsker(c) ==
    /\ OnClose(c)
    /\ ReleaseRelays({id \in Bound : relays[id].owner[0] = c})

\* ControlService::on_close: drop_owner releases the records and the bindings.
CloseConnection(c) ==
    /\ OnClose(c)
    /\ ReleaseRelays({id \in Bound : \E side \in Sides : relays[id].owner[side] = c})

\* A mutation of SweepAll: only spent bindings are released.
SweepAllSpent ==
    /\ Sweep
    /\ ReleaseRelays({id \in Bound : relays[id].idle >= RelayExpiry /\ relays[id].exhausted})

\* ControlService::tick.
SweepAll ==
    /\ Sweep
    /\ ReleaseRelays({id \in Bound : relays[id].idle >= RelayExpiry})

Idler(r) == [r EXCEPT !.idle = IF @ < RelayExpiry THEN @ + 1 ELSE @]

TickAll ==
    /\ Tick
    /\ relays' = [id \in Ids |-> IF id \in Bound THEN Idler(relays[id]) ELSE Absent]
    /\ offer' = Absent
    /\ UNCHANGED <<next_relay, relays_per_ip>>

RelayInit ==
    /\ Init
    /\ relays = [id \in Ids |-> Absent]
    /\ next_relay = 1
    /\ relays_per_ip = [ip \in Ips |-> 0]
    /\ offer = Absent

\* What a connection does to its records leaves the bindings alone.
RecordStep ==
    /\ \E c \in Conns : OnOpen(c) \/ Request(c)
    /\ offer' = Absent
    /\ UNCHANGED <<relays, next_relay, relays_per_ip>>

\* A node asks for a relay to a peer, never to itself (node.cpp:1140, 2233).
RelayNext ==
    \/ RecordStep
    \/ \E c \in Conns : CloseConnection(c)
    \/ \E c \in Conns, from, peer \in Devs, kind \in Kinds :
          from # peer /\ (RelayAgain(c, from, peer, kind) \/ RelayNew(c, from, peer, kind))
    \/ \E id \in Ids, n \in Sizes : RelayCharge(id, n)
    \/ \E id \in Ids, side \in Sides, src \in UdpAddrs : UdpBind(id, side, src)
    \/ \E id \in Ids, src \in UdpAddrs, n \in Sizes : UdpForward(id, src, n)
    \/ SweepAll
    \/ TickAll

RelaySpec == RelayInit /\ [][RelayNext]_<<vars, relayVars>>

\* The server's loop ticks: the clock moves on and tick() is called again and again.
RelayFairSpec ==
    RelaySpec /\ WF_<<vars, relayVars>>(TickAll) /\ WF_<<vars, relayVars>>(SweepAll)

-----------------------------------------------------------------------------
(* Properties.                                                             *)

\* Every relay variable has its type; no binding has carried more than its budget.
RelayTypeOK ==
    /\ relays \in [Ids -> Relays \cup {Absent}]
    /\ next_relay \in 1 .. MaxRelayId + 1
    /\ relays_per_ip \in [Ips -> Nat]
    /\ offer \in [id : Ids, dev : Devs, to : Conns] \cup {Absent}

\* The relay quota of an address is exactly what the bindings counted against it hold,
\* however they end, and no limit is exceeded.
RelayQuotaExact ==
    /\ \A ip \in Ips : /\ relays_per_ip[ip] = HeldBy(Bound, ip)
                       /\ relays_per_ip[ip] <= MaxRelaysPerIp
    /\ Cardinality(Bound) <= MaxRelays

\* "returns the existing binding rather than a second one" (registry.hpp:135), from
\* whichever side and through whatever re-registrations.
OneBindingPerPair ==
    \A i, j \in Bound :
        /\ relays[i].kind = relays[j].kind
        /\ {relays[i].dev[s] : s \in Sides} = {relays[j].dev[s] : s \in Sides}
        => i = j

\* "A relay whose either side has gone can carry nothing more" (registry.cpp:178): both
\* connections a binding was made for are open as long as it is there.
RelayPartiesOpen ==
    \A id \in Bound, side \in Sides : relays[id].owner[side] \in open

\* A binding that a payload did not fit into is spent for good ("Spent: refused, not
\* handed back to carry nothing", registry.cpp:387): a smaller payload that would still
\* fit is not counted, and the binding is neither revived nor handed out again.
SpentStaysSpent ==
    [][\A id \in Bound : relays[id].exhausted /\ relays'[id] # Absent
          => /\ relays'[id].exhausted
             /\ relays'[id].bytes = relays[id].bytes
             /\ offer' # Absent => offer'.id # id]_<<vars, relayVars>>

\* "unused bindings evaporate" (registry.hpp:58): a binding is used again and again, or
\* it is released.
UnusedRelaysExpire ==
    \A id \in Ids : []<>(relays[id] = Absent \/ relays[id].idle = 0)

\* "The peer learns of the binding from the server" (control_service.cpp:223): the offer
\* goes to the connection that the peer's record belongs to.
OfferReachesPeer ==
    offer # Absent => by_dev[offer.dev].owner = offer.to
=============================================================================

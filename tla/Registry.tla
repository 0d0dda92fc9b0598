------------------------------- MODULE Registry -------------------------------
(***************************************************************************)
(* The rendezvous server's records and topics (src/server/registry.cpp),   *)
(* as the control connections drive them through ControlService            *)
(* (src/server/control_service.cpp).                                       *)
(*                                                                         *)
(* A device id is derived from the topic and the TCP address, so it is     *)
(* that pair.  A topic's member vector is the set of its members; member   *)
(* order never shows, because LOOKUP samples at random.  A counter map in  *)
(* which an absent key means none is a function with 0 for absent.  The    *)
(* instants last_seen are ages, capped at StaleAfter.  A refused request   *)
(* changes nothing but a statistics counter and is a stuttering step.      *)
(***************************************************************************)
EXTENDS Integers, FiniteSets, FiniteSetsExt

CONSTANTS
    Conns,              \* connection keys, never reused
    Topics, Endpoints,  \* topic ids and TCP addresses
    Ip(_),              \* the address part of an endpoint
    PeerOf,             \* PeerOf[c]: where connection c comes from
    Modes,              \* TopicMode
    Hidings,            \* the values of Register.unlisted that clients send
    StaleAfter, MaxPerIpPerTopic, MaxPerIpTotal, MaxEntries, MaxTopics,
    PageLimit,          \* topics asked for in one TOPICS request
    OrderBits,          \* the width of next_order_: 32
    MaxOrder,           \* bound: the last creation order given out
    Absent              \* no such key in the map

Ips == {Ip(ep) : ep \in Endpoints}
Devs == Topics \X Endpoints
IpOf(d) == Ip(d[2])

VARIABLES
    open, used,      \* connections that are open, and those that ever were
    by_dev,          \* by_dev_: a record per device, or Absent
    by_owner,        \* by_owner_: the devices a connection owns
    topics,          \* topics_: a TopicState per topic, or Absent
    per_ip_total,    \* per_ip_total_
    listing,         \* listing_: creation order and topic
    next_order,      \* next_order_
    fresh_order,     \* fresh_order_: (last_seen, device)
    entries_fresh,   \* stats_.entries_fresh
    walk             \* one client paging through the listing (explore_pages)

records == <<by_dev, by_owner, topics, per_ip_total, listing, next_order>>
freshness == <<fresh_order, entries_fresh>>
vars == <<open, used, records, freshness, walk>>

Entries == [owner : Conns, age : 0 .. StaleAfter]

TopicStates ==
    [mode : Modes, listed : BOOLEAN, members : SUBSET Devs, per_ip : [Ips -> Nat],
     order : Nat, fresh : Nat]

ASSUME RegistryConstants ==
    /\ PeerOf \in [Conns -> Endpoints]
    /\ Hidings \subseteq BOOLEAN
    /\ StaleAfter \in Nat /\ MaxPerIpPerTopic \in Nat /\ MaxPerIpTotal \in Nat
    /\ MaxEntries \in Nat /\ MaxTopics \in Nat /\ MaxOrder \in Nat
    /\ OrderBits \in Nat
    /\ PageLimit \in Nat \ {0}

-----------------------------------------------------------------------------
(* Freshness: forget_fresh, mark_fresh, expire_fresh.                      *)

Live == {d \in Devs : by_dev[d] # Absent}
Known == {t \in Topics : topics[t] # Absent}

\* The keys forget_fresh erases for the given records.
Forgotten(devs) ==
    {f \in fresh_order : /\ f.dev \in devs
                         /\ by_dev[f.dev] # Absent
                         /\ f.age = by_dev[f.dev].age}

MarkFresh(d) ==
    /\ fresh_order' = (fresh_order \ Forgotten({d})) \cup {[dev |-> d, age |-> 0]}
    /\ entries_fresh' = entries_fresh - Cardinality(Forgotten({d})) + 1

\* A mutation of MarkedFresh: the earlier key is not taken off the topic's count.
MarkedFreshTwice(topic, d) == [topic EXCEPT !.fresh = @ + 1]

MarkedFresh(topic, d) == [topic EXCEPT !.fresh = @ - Cardinality(Forgotten({d})) + 1]

Stale == {f \in fresh_order : f.age >= StaleAfter}

\* A mutation of ExpireFresh: the expired keys stay, to be counted off again.
ExpireFreshKeepingKeys ==
    /\ fresh_order' = fresh_order
    /\ entries_fresh' = entries_fresh - Cardinality(Stale)
    /\ UNCHANGED topics

ExpireFresh ==
    /\ fresh_order' = fresh_order \ Stale
    /\ entries_fresh' = entries_fresh - Cardinality(Stale)
    /\ topics' = [t \in Topics |->
                     IF t \in Known
                     THEN [topics[t] EXCEPT !.fresh = @ - Cardinality({f \in Stale : f.dev[1] = t})]
                     ELSE Absent]

-----------------------------------------------------------------------------
(* register_entry.                                                         *)

NewTopic(mode) ==
    [mode |-> mode, listed |-> TRUE, members |-> {}, per_ip |-> [ip \in Ips |-> 0],
     order |-> next_order, fresh |-> 0]

\* A mutation of TopicFor: every new registration takes a place in the listing.
TopicForMoving(t, mode) ==
    IF t \in Known THEN [topics[t] EXCEPT !.order = next_order] ELSE NewTopic(mode)

\* The mode and the place are given by the first member alone.
TopicFor(t, mode) == IF t \in Known THEN topics[t] ELSE NewTopic(mode)

Joined(topic, d) ==
    [topic EXCEPT !.members = @ \cup {d}, !.per_ip[IpOf(d)] = @ + 1]

\* Hiding is sticky and topic-wide.
Hidden(topic, unlisted) == [topic EXCEPT !.listed = @ /\ ~unlisted]

Delist(l, order, unlisted) == IF unlisted THEN {x \in l : x.order # order} ELSE l

\* listing_[next_order_] = t
Listed(t) ==
    {l \in listing : l.order # next_order} \cup {[order |-> next_order, topic |-> t]}

\* A mutation of WithinQuota: the limit on an address over all topics is not looked at.
WithinQuotaPerTopic(t, d) ==
    /\ Cardinality(Live) < MaxEntries
    /\ IF t \in Known THEN topics[t].per_ip[IpOf(d)] < MaxPerIpPerTopic
       ELSE Cardinality(Known) < MaxTopics

WithinQuota(t, d) ==
    /\ Cardinality(Live) < MaxEntries
    /\ per_ip_total[IpOf(d)] < MaxPerIpTotal
    /\ IF t \in Known THEN topics[t].per_ip[IpOf(d)] < MaxPerIpPerTopic
       ELSE Cardinality(Known) < MaxTopics

RegisterNew(c, t, mode, unlisted) ==
    LET d == <<t, PeerOf[c]>>
        topic == TopicFor(t, mode)
        listed == IF t \in Known THEN listing ELSE Listed(t)
    IN
    /\ c \in open
    /\ d \notin Live
    /\ WithinQuota(t, d)
    /\ t \in Known \/ next_order <= MaxOrder
    /\ by_dev' = [by_dev EXCEPT ![d] = [owner |-> c, age |-> 0]]
    /\ by_owner' = [by_owner EXCEPT ![c] = @ \cup {d}]
    /\ topics' = [topics EXCEPT ![t] = Hidden(MarkedFresh(Joined(topic, d), d), unlisted)]
    /\ per_ip_total' = [per_ip_total EXCEPT ![IpOf(d)] = @ + 1]
    /\ listing' = Delist(listed, topic.order, unlisted)
    /\ next_order' = IF t \in Known THEN next_order ELSE (next_order + 1) % 2^OrderBits
    /\ MarkFresh(d)
    /\ UNCHANGED <<open, used, walk>>

\* A mutation of RegisterAgain: the old connection keeps the record in its list.
RegisterAgainSharing(c, t, unlisted) ==
    LET d == <<t, PeerOf[c]>> IN
    /\ c \in open
    /\ d \in Live
    /\ by_owner' = [by_owner EXCEPT ![c] = @ \cup {d}]
    /\ by_dev' = [by_dev EXCEPT ![d] = [owner |-> c, age |-> 0]]
    /\ topics' = [topics EXCEPT ![t] = Hidden(MarkedFresh(@, d), unlisted)]
    /\ listing' = Delist(listing, topics[t].order, unlisted)
    /\ MarkFresh(d)
    /\ UNCHANGED <<open, used, per_ip_total, next_order, walk>>

\* The record exists: its owner registers again, or the device has reconnected and
\* its new connection takes the record over.
RegisterAgain(c, t, unlisted) ==
    LET d == <<t, PeerOf[c]>> IN
    /\ c \in open
    /\ d \in Live
    /\ by_owner' = [o \in Conns |-> IF o = c THEN by_owner[o] \cup {d} ELSE by_owner[o] \ {d}]
    /\ by_dev' = [by_dev EXCEPT ![d] = [owner |-> c, age |-> 0]]
    /\ topics' = [topics EXCEPT ![t] = Hidden(MarkedFresh(@, d), unlisted)]
    /\ listing' = Delist(listing, topics[t].order, unlisted)
    /\ MarkFresh(d)
    /\ UNCHANGED <<open, used, per_ip_total, next_order, walk>>

-----------------------------------------------------------------------------
(* refresh, update, unregister, drop_owner.                                *)

\* refresh and update: both touch the caller's own record and mark it fresh.
Refresh(c, d) ==
    /\ c \in open
    /\ d \in Live
    /\ by_dev[d].owner = c
    /\ by_dev' = [by_dev EXCEPT ![d].age = 0]
    /\ topics' = [topics EXCEPT ![d[1]] = MarkedFresh(@, d)]
    /\ MarkFresh(d)
    /\ UNCHANGED <<open, used, by_owner, per_ip_total, listing, next_order, walk>>

\* decrement, b times over: the counter stops at absent.
Decremented(a, b) == IF a >= b THEN a - b ELSE 0

HowMany(devs, ip) == Cardinality({d \in devs : IpOf(d) = ip})

Emptied(devs) == {t \in Known : topics[t].members \subseteq devs}

\* A mutation of TopicWithout: the addresses' counters are not given back.
TopicWithoutLeaking(t, devs) ==
    [topics[t] EXCEPT
        !.members = @ \ devs,
        !.fresh = @ - Cardinality({f \in Forgotten(devs) : f.dev[1] = t})]

TopicWithout(t, devs) ==
    LET gone == topics[t].members \cap devs IN
    [topics[t] EXCEPT
        !.members = @ \ devs,
        !.per_ip = [ip \in Ips |-> Decremented(@[ip], HowMany(gone, ip))],
        !.fresh = @ - Cardinality({f \in Forgotten(devs) : f.dev[1] = t})]

\* A mutation of EraseEntries: an emptied topic stays in the listing.
EraseEntriesListed(devs) ==
    /\ by_dev' = [d \in Devs |-> IF d \in devs THEN Absent ELSE by_dev[d]]
    /\ topics' = [t \in Topics |->
                     IF t \in Known \ Emptied(devs) THEN TopicWithout(t, devs) ELSE Absent]
    /\ listing' = listing
    /\ per_ip_total' = [ip \in Ips |-> Decremented(per_ip_total[ip], HowMany(devs, ip))]
    /\ fresh_order' = fresh_order \ Forgotten(devs)
    /\ entries_fresh' = entries_fresh - Cardinality(Forgotten(devs))

\* erase_entry for each of the given records.
EraseEntries(devs) ==
    /\ by_dev' = [d \in Devs |-> IF d \in devs THEN Absent ELSE by_dev[d]]
    /\ topics' = [t \in Topics |->
                     IF t \in Known \ Emptied(devs) THEN TopicWithout(t, devs) ELSE Absent]
    /\ listing' = {l \in listing : ~ \E t \in Emptied(devs) : topics[t].order = l.order}
    /\ per_ip_total' = [ip \in Ips |-> Decremented(per_ip_total[ip], HowMany(devs, ip))]
    /\ fresh_order' = fresh_order \ Forgotten(devs)
    /\ entries_fresh' = entries_fresh - Cardinality(Forgotten(devs))

Unregister(c, d) ==
    /\ c \in open
    /\ d \in Live
    /\ by_dev[d].owner = c
    /\ by_owner' = [by_owner EXCEPT ![c] = @ \ {d}]
    /\ EraseEntries({d})
    /\ UNCHANGED <<open, used, next_order, walk>>

DropOwner(c) ==
    /\ EraseEntries(by_owner[c])
    /\ by_owner' = [by_owner EXCEPT ![c] = {}]
    /\ UNCHANGED <<next_order, walk>>

-----------------------------------------------------------------------------
(* Connections, the listing, and time.                                     *)

OnOpen(c) ==
    /\ c \in Conns \ used
    /\ open' = open \cup {c}
    /\ used' = used \cup {c}
    /\ UNCHANGED <<records, freshness, walk>>

OnClose(c) ==
    /\ c \in open
    /\ open' = open \ {c}
    /\ DropOwner(c)
    /\ UNCHANGED used

Orders == {l.order : l \in listing}

\* A mutation of Ahead: upper_bound, which passes over the topic at the cursor.
AheadExclusive == {o \in Orders : o > walk.cursor}

Ahead == {o \in Orders : o >= walk.cursor}

\* list_topics, with the cursor the previous page returned (0 begins a new walk).
ListTopics ==
    LET page == {o \in Ahead : Cardinality({x \in Ahead : x < o}) < PageLimit}
        rest == Ahead \ page
        fresh_walk == walk.cursor = 0
    IN
    /\ ExpireFresh
    /\ walk' = [cursor |-> IF rest = {} THEN 0 ELSE Min(rest),
                started |-> IF fresh_walk THEN Orders ELSE walk.started,
                seen |-> IF fresh_walk THEN page ELSE walk.seen \cup page,
                twice |-> ~fresh_walk /\ walk.seen \cap page # {}]
    /\ UNCHANGED <<open, used, by_dev, by_owner, per_ip_total, listing, next_order>>

\* sweep and stats, as far as records go.
Sweep ==
    /\ ExpireFresh
    /\ UNCHANGED <<open, used, by_dev, by_owner, per_ip_total, listing, next_order, walk>>

Older(age) == IF age < StaleAfter THEN age + 1 ELSE age

Tick ==
    /\ by_dev' = [d \in Devs |-> IF d \in Live THEN [by_dev[d] EXCEPT !.age = Older(@)] ELSE Absent]
    /\ fresh_order' = {[f EXCEPT !.age = Older(@)] : f \in fresh_order}
    /\ UNCHANGED <<open, used, by_owner, topics, per_ip_total, listing, next_order,
                   entries_fresh, walk>>

Init ==
    /\ open = {} /\ used = {}
    /\ by_dev = [d \in Devs |-> Absent]
    /\ by_owner = [c \in Conns |-> {}]
    /\ topics = [t \in Topics |-> Absent]
    /\ per_ip_total = [ip \in Ips |-> 0]
    /\ listing = {}
    /\ next_order = 1
    /\ fresh_order = {}
    /\ entries_fresh = 0
    /\ walk = [cursor |-> 0, started |-> {}, seen |-> {}, twice |-> FALSE]

\* Requests of a connection other than opening and closing it.
Request(c) ==
    \/ \E t \in Topics, mode \in Modes, unlisted \in Hidings : RegisterNew(c, t, mode, unlisted)
    \/ \E t \in Topics, unlisted \in Hidings : RegisterAgain(c, t, unlisted)
    \/ \E d \in Devs : Refresh(c, d) \/ Unregister(c, d)

Next ==
    \/ \E c \in Conns : OnOpen(c) \/ OnClose(c) \/ Request(c)
    \/ ListTopics
    \/ Sweep
    \/ Tick

Spec == Init /\ [][Next]_vars

-----------------------------------------------------------------------------
(* Properties.                                                             *)

\* Every variable has its type.
TypeOK ==
    /\ open \subseteq used /\ used \subseteq Conns
    /\ by_dev \in [Devs -> Entries \cup {Absent}]
    /\ by_owner \in [Conns -> SUBSET Devs]
    /\ \A t \in Known : topics[t] \in TopicStates
    /\ per_ip_total \in [Ips -> Nat]
    /\ listing \subseteq [order : Nat, topic : Topics]
    /\ next_order \in Nat
    /\ fresh_order \subseteq [dev : Devs, age : 0 .. StaleAfter]
    /\ entries_fresh \in Nat
    /\ walk \in [cursor : Nat, started : SUBSET Nat, seen : SUBSET Nat, twice : BOOLEAN]

\* "Records ... live exactly as long as their owning connection" (registry.hpp:161):
\* through takeovers, re-registrations and closes in any order, a live record is listed
\* by exactly one connection, its owner, and that connection is open.
OwnershipExact ==
    \A c \in Conns : /\ by_owner[c] = {d \in Live : by_dev[d].owner = c}
                     /\ by_owner[c] # {} => c \in open

\* The quota counters are exact, so none leaks: each address holds as many records, in
\* each topic and in all, as its counters say, and never more than it is allowed.
QuotasExact ==
    /\ \A t \in Topics : {d \in Live : d[1] = t} = IF t \in Known THEN topics[t].members ELSE {}
    /\ \A t \in Known, ip \in Ips :
          /\ topics[t].per_ip[ip] = HowMany(topics[t].members, ip)
          /\ topics[t].per_ip[ip] <= MaxPerIpPerTopic
    /\ \A ip \in Ips : /\ per_ip_total[ip] = HowMany(Live, ip)
                       /\ per_ip_total[ip] <= MaxPerIpTotal
    /\ Cardinality(Live) <= MaxEntries
    /\ \A t \in Known : topics[t].members # {}
    /\ Cardinality(Known) <= MaxTopics

\* "keyed by a counter that never repeats" (registry.hpp:244): no two topics that exist
\* at once have the same place in the listing.
OrderNeverRepeats ==
    \A t, u \in Known : topics[t].order = topics[u].order => t = u

\* The listing holds exactly the topics that exist and that no member asked to hide,
\* each once, under its creation order.
ListingExact ==
    /\ listing = {[order |-> topics[t].order, topic |-> t] : t \in {k \in Known : topics[k].listed}}
    /\ OrderNeverRepeats
    /\ \A t \in Known : topics[t].order \in 1 .. next_order - 1

\* The lazily maintained counts are what a full recount would give: once expired keys
\* are taken off, a topic's fresh count is the number of its members refreshed lately.
FreshCountsExact ==
    /\ entries_fresh = Cardinality(fresh_order)
    /\ {f.dev : f \in fresh_order \ Stale} = {d \in Live : by_dev[d].age < StaleAfter}
    /\ \A t \in Known : topics[t].fresh = Cardinality({f \in fresh_order : f.dev[1] = t})

\* "it stays valid however many topics before it disappear" (registry.cpp:333): a client
\* that pages to the end meets every topic that was listed throughout, and none twice.
WalkMeetsEveryTopic ==
    /\ walk.cursor = 0 => (walk.started \cap Orders) \subseteq walk.seen
    /\ ~walk.twice

\* As long as a topic has members, its mode is the one its creator gave it ("a later
\* registrant cannot relabel a keyed topic as open", registry.cpp:102), its place in the
\* listing does not move, and hiding is not undone.  A topic that emptied and is created
\* anew starts afresh: its place is behind every other topic's and is none that a paging
\* client has met or still expects.
TopicIdentityStable ==
    [][/\ \A t \in Known \cap Known' :
             /\ topics'[t].order = topics[t].order
             /\ topics'[t].mode = topics[t].mode
             /\ (topics'[t].listed => topics[t].listed)
       /\ \A t \in Known' \ Known :
             /\ \A u \in Known : topics[u].order < topics'[t].order
             /\ topics'[t].order \notin walk.started \cup walk.seen]_vars
=============================================================================

# TLA+ verification of uConnect

uConnect introduces devices that share a topic to each other through a rendezvous server,
connects them over TCP, and opens UDP datagram channels beside those connections. This
directory models the parts whose correctness depends on order: what the network does to
packets, which connection of a device closes first, which thread gets the lock. TLC checks
the models on small instances. TLAPS proves the central invariants for all sizes.

`PROJECT.json` maps every definition to the source lines it models, and lists the runs,
the mutants each property detects, the hazards and the findings.

## The system

| Part | Source | State | What is hard about it | Model |
|---|---|---|---|---|
| UDP session | `src/src/session/session.cpp` | keys, generations, replay window, counters, path, timers | loss, duplication, reordering across key changes; unauthenticated headers; lost close notices | `UdpSession`, `DatagramService` |
| Records and topics | `src/server/registry.cpp` | records, owners, topics, quota counters, listing, lazily expired fresh counts | reconnect takes a record over before the old connection closes; paging while topics come and go; counters that must never leak | `Registry` |
| Relay bindings | `src/server/registry.cpp` | bindings with two owners, budget, per-address quota | both sides ask; a side reconnects; spent, idle and orphaned bindings | `RelayTable` |
| Control service | `src/server/control_service.cpp` | open connections, rate buckets | decides which connection an offer or an introduction goes to | record and relay requests in `Registry`, `RelayTable` |
| Node lock | `src/src/api/node.cpp` 98-129 | `m_`, `loop_waiting_` | the loop must not starve; callers must not spin for ever | `LoopFirstMutex` |
| Node lifecycle | `src/src/api/node.cpp` 680-774, 2704-2751 | `running`, `stop`, thread, condition variable, deferred callbacks | starts and shutdowns from several threads and from callbacks | `NodeLifecycle` |
| Control connection, requests | `src/src/api/node.cpp` 776-1179, 2141-2275 | request table, deadlines, published topics | a late answer to a call that has given up; reconnect and re-register | planned: `NodeControl` |
| Introductions, peers | `src/src/api/node.cpp` 1184-1735 | attempts, pending connections, relay legs, peers | both ends introduce themselves at once; direct and relayed legs race | planned: `Introduction` |
| Datagram channels | `src/src/api/node.cpp` 1740-2110, 2397-2472 | epochs, offers, paths, fallbacks | crossing offers, epochs opened and closed, late relay answers | planned: `DatagramChannel` |
| TCP session | `src/src/session/tcp_session.cpp` | handshake, record keys | simultaneous open, half-closed streams, timeouts | planned, with `Introduction` |
| Punch session | `src/src/path/punch.cpp` | candidate pairs, backoff, nomination | answers that arrive after the last attempt | planned: `Punch` |
| Server runtime | `src/server/rendezvous.cpp` | connections, splices, worker inboxes | a pair in transit between threads; reaping half of it | planned: `Rendezvous` |
| C API | `src/src/capi/uconnect_c.cpp` | topic entries with user counts | leaving a topic during calls on it | planned, after the core |
| Wire, crypto, sockets, configuration, tools, web | `src/src/wire`, `src/src/crypto`, `src/src/io`, `src/server/config.cpp`, `src/tools`, `src/web` | none shared with the protocol | conversions, arithmetic and system calls | not modelled, reasons in `PROJECT.json` |

How they interact: a `Node` drives its sessions and its control connection from one loop
thread and takes calls from application threads, all under one lock. The server's
`ControlService` turns control messages into `Registry` operations. A `Session` gets its
keys from the `TcpSession` beside it and its path from a `PunchSession` or a relay binding.

## The modules

**UdpSession.** One record per end with the fields of class `Session`. A key is the number
of `rekey()` steps that lead to it. The AEAD is its guarantee: a packet opens only under the
key, counter and type it was sealed with. The network is the set of all packets ever sent,
so each may arrive late, repeatedly or never, from any address, and with any type and
counter in its unauthenticated header. Instants are kept relative to the clock. One action
per operation: `Send`, `SetPath`, the three outcomes of `on_datagram` (`OnDatagramDropped`,
`OnTransport`, `OnClose`), `Close`, `CloseWithNotice`, the two outcomes of `on_timeout`.
`serial` and `accepted` are history variables: they number packets in the order they are
sealed, independently of the counter, so that a reused counter would show.
The model assumes what `session.hpp` 48-52 requires: the ratchet period is not shorter than
the replay window. It also assumes that both ends have agreed on the period.
The `!w.ok()` returns of `send_packet` and `queue_close` (`session.cpp` 215, 258) are left
out: a payload reaches them only if it is larger than `Topic::send_datagram` lets through
(`node.cpp` 2449), and a close notice has a fixed small size.

**DatagramService.** What a channel promises: at-most-once delivery, nothing invented,
nothing delivered to a closed end, and a peer's notice only from the peer. `UdpSession`
implements it under the mapping in `Service`.

**Registry.** A device id is a (topic, address) pair, as it is derived from one. Counter
maps are total functions with 0 for an absent key. `RegisterNew` and `RegisterAgain` are the
two halves of `register_entry`, takeover included; `Refresh` stands for `refresh` and
`update`; `OnClose` is `drop_owner`. Loops over a connection's records are closed forms
(`EraseEntries`). A client pages through the listing in `ListTopics`. Refused requests
change nothing but statistics and are stuttering steps. The age of a record is capped at
`StaleAfter`, beyond which nothing distinguishes it.

**RelayTable** extends `Registry`: a step is a step on records, on bindings, or, when a
connection closes, the server sweeps or time passes, on both at once. A token is its binding
and side. `offer` is the RelayOffer the last step sent. Requests are those nodes make:
`request_relay` asks for a binding to a peer, so the model has none from a record to itself,
which `relay_alloc` would not refuse. `relay_close` is left out: nothing calls it.

**LoopFirstMutex.** One step per access to `loop_waiting_` or `m_`. The loop thread also
takes the lock as an ordinary caller does, from callbacks. Accesses are sequentially
consistent; in C++ terms this relies on the store of `loop_waiting_` not moving past the
read-modify-write of `m_.lock()`, as on every platform whose lock is a full barrier.

**NodeLifecycle.** A critical section of the lock is one step, which is what
`LoopFirstMutex` establishes. The condition variable is the set of threads blocked in it.
The loop's phases are separate steps, since it reads `stop`, polls and runs callbacks
without the lock. A callback may call `shutdown()` or disconnect a peer.

## The runs

| Run | Shows | Instance |
|---|---|---|
| `udp_session` | nonces unique; packets taken at most once; stragglers open; loss strands nobody; close notices are true; only new packets move the receiver; a lost peer is noticed | window 2, period 2, five packets one way: two key boundaries, a long jump, packets leaving the window; both ends close in every way |
| `udp_service` | `UdpSession` implements `DatagramService` | both ends send data |
| `registry` | ownership, quotas, listing and fresh counts exact; the paging client meets every topic once; topics keep mode, place and hiding, and one created anew gets a place of its own | three connections, two of them one device before and after a reconnect; two addresses of one IP; two topics; pages of one |
| `registry_limits` | no limit on records or topics is exceeded | three devices behind one IP and one behind another, three topics; limits 2 per IP and topic, 3 per IP, 4 in all, 2 topics, each the only obstacle to some registration |
| `relay_table` | quota exact; one binding per pair; parties open; no binding carries more than its budget; spent stays spent | a device that reconnects, its peer, both kinds, two allocations, one per IP; budget 2 and payloads of 1 and 2, so that a spent binding may have room left |
| `relay_expiry` | the table's own limit holds; unused bindings expire | as `relay_table`, with room for one binding in all |
| `loop_first_mutex` | exclusion; each caller overtakes the loop at most once; the flag is honest; the loop gets the lock | three callers |
| `node_lifecycle` | one loop; nothing runs after `shutdown()` returned; queued notices run; `shutdown()` returns | three threads, callbacks that stop or disconnect |
| `relay_offer` | violated, see below | as `relay_table` |
| `listing_wrap` | violated, see below | as `registry`, with a counter of two bits |
| `loop_first_one` | violated, see below | three callers |
| `lifecycle_start` | violated, see below | two threads |

Bounds are named constants (`MaxCounter`, `MaxOrder`, `MaxRelayId`, `MaxDeferred`), and each
is large enough for the cases named above. `OrderBits` is 32 in the code; the passing runs
use 30, the widest power TLC's integers hold, and never come near it. Deadlock is not
checked where the system may stop: both ends closed with every packet sent, or a node that
was shut down. `registry` and `registry_limits` use the symmetry of topics, `registry` that
of modes too, and `relay_table` that of UDP addresses: the code only compares them. None of
these three checks liveness.

Fairness. `udp_session`: the clock moves and an idle session is timed out, because the
node's loop wakes for `next_timeout()`; nothing is assumed of the network. `relay_expiry`:
the clock and the server's periodic `tick()`. `loop_first_mutex`: whoever holds the lock
releases it and the loop takes its own steps; nothing is assumed of the callers or of the
mutex's choice among waiters. `node_lifecycle`: threads inside a call are scheduled and
callbacks return; nothing is assumed of when calls are made, or of spurious wake-ups.

### Where the code and its words disagree

- `relay_offer`: a binding remembers the connections it was made with. When the peer has
  reconnected and taken its record over, a repeated RELAY_ALLOC sends the offer to the old
  connection (`registry.cpp:396`), so the peer does not learn of the binding.
- `listing_wrap`: the listing is "keyed by a counter that never repeats"
  (`registry.hpp:244`), which is 32 bits wide and repeats after 2^32 topics.
- `loop_first_one`: "one caller may slip in" ahead of the loop (`node.cpp:96`), but every
  caller that is already past its look at the flag may. Each can do so once.
- `lifecycle_start`: a `shutdown()` that comes before the background thread enters the loop
  leaves `run_in_background()` waiting for ever: nobody notifies it (`node.cpp:2710`).

## The proofs

`UdpSessionProofs` proves every safety property of `udp_session` for any window, period,
jump limits, timers, addresses and packet counts. The properties are not inductive alone.
The invariant `IInv` adds that the keys held are those the generation numbers name, that the
receive generation is that of the highest counter taken, that the window says exactly which
counters within it were taken (`WindowExact`), and that each packet on the wire carries the
key its counter calls for (`NetSound`). Lemmas on generations give the argument for one
previous key: counters less than a window apart lie in neighbouring generations because the
period covers the window (assumption `PeriodCoversWindow`). Other assumptions only type the
constants.

`LoopFirstMutexProofs` proves exclusion, the flag's honesty and the bound on overtaking for
any number of callers. The strengthening: a caller that has overtaken the waiting loop is
inside or back at the flag, not past it.

`NodeLifecycleProofs` proves for any number of threads that one loop runs at a time, that
none runs after release or return, and that no notice is thrown away. The strengthening: the
background thread is created at most once, the loop is left only after `stop`, `running`
says whether somebody is in the loop, and a queued notice exists only while a thread is in
the loop and before its last swap.

Only model-checked: liveness (`PeerGoneNoticed`, `UnusedRelaysExpire`, `LoopGetsTheLock`,
`ShutdownReturns`), which is beyond the prover; the refinement of `DatagramService`; all of
`Registry` and `RelayTable`; the bound on queue lengths in `NodeLifecycle`.

## The plan

1. Done: `UdpSession` with `DatagramService` and proofs; `Registry`, `RelayTable`;
   `LoopFirstMutex`, `NodeLifecycle` with proofs.
2. `DatagramChannel`: two nodes' channels over one TCP session, using what `UdpSession`
   promises. Epochs never reused, ends agree on an epoch, no end stays in Opening for ever.
3. `NodeControl`: requests, deadlines, publish and unpublish against `Registry`. No record
   survives its topic; a call that gave up leaves nothing behind.
4. `Introduction` with `TcpSession`: simultaneous introductions lead to one session both
   ends agree on; the relayed leg gives way to the direct one; limits on peers hold.
5. `Punch`: nomination follows validation; failure is reported only when nothing validates.
6. `Rendezvous`: splices and workers. No connection is lost between threads, bytes of a
   splice are charged once, both halves are reaped.
7. Proofs: ownership, quotas and listing of `Registry`, bindings of `RelayTable`, the step
   simulation of `DatagramService`, then the invariants of the new modules.
8. After that the C API's use counts and the dashboard's shared lookups.

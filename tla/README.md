# Mesh VPN: TLA+ models and proofs

Models of the parts of the repository that carry state and have to survive concurrency and
failure: the mesh (`src/src`, `src/server`: nodes register with a signalling server, connect over
WebRTC, learn the topology and send packets from a TUN device to an exit), the point-to-point
client `clean-vpn` (`src/scripts`) with the journals of what it changes on its host, and the USB
transmit queue of the ESP32 bridge (`src/device`). `PROJECT.json` lists components, runs, mutants,
hazards and theorems, and maps every definition to the lines it models.

Run a model with `tlc -workers 2 -config X.cfg M`, a proof with `tlapm XProofs.tla`.

## 1. The system

| Part | State | Operations | Talks to |
|---|---|---|---|
| Signalling server (`server/signalling-server.js`) | `nodes` (socket, address, links per node), `virtualIpCounter`, pins | register, re-register, peers, signal, topology-update, close | clients over WebSocket |
| Signalling client (`control/signalling.js`) | socket, `registered`, `peers`, reconnect timer | connect, messages, disconnect, reconnect | server; discovery by events |
| Discovery (`control/discovery.js`) | `pendingConnections`, `establishedPeers`, sessions, work chain, leave and reconnect timers | peers, join, leave, offer, answer, reconnect | signalling client, transport manager |
| WebRTC transport (`transport/webrtc.js`) | PeerConnections with epochs, data channels, send buffers, overflow queues, deferred disconnects | offer, answer, open, closed, failed, send | node-datachannel; manager by events |
| Send path (`node.js`, `manager.js`, `webrtc.js`, `send-buffer.js`) | retry queue, overflow queue, aggregation queue | send, flush, drain, buffer-low | data channel |
| Graph and router (`core/graph.js`, `core/router.js`) | nodes, edges, metrics, `activeRoutes` | link up/down, topology, rebuild, find route | node's event handlers |
| Crypto workers (`workers/`, chains of `node.js`) | worker queues, pending callbacks, a receive and an exit-transmit chain per peer | arrive, submit, result, crash, respawn, stop | worker threads; session keys of discovery |
| Userspace NAT (`exit/userspace-nat.js`) | TCP entries: sequence number, window, unacknowledged segments, backlog, FIN state | SYN, ACK, FIN, RST, socket events, linger, sweep | client over the mesh, `net.Socket` |
| Tunnel DNS journal (`scripts/lib/dns-tunnel-*.mjs`) | journal file, rules and routes of the host, lock | prepareRestart, begin, stages, activate, retain, restore | `iptables`, `ip`; client and recovery program |
| Ingress journal (`scripts/lib/ingress-*.mjs`) | the same, with an optional restart hold | prepare, begin, install, HTTPS redirect, activate, park, restore | the same |
| `clean-vpn` (`scripts/clean-vpn.js`) | both journals, the bridge between TUN and transport | start, stop, restart, wires made, disarmed, replaced | all of the above, TCP |
| USB transmit queue (`device/components/meshvpn_usb`) | slots, two index queues, epoch, notification | submit, worker, wait for capacity, mount, unmount | lwIP tasks, TinyUSB task |
| Onion forwarding, reorder buffer, TUN set-up, other transports and journals, the rest of the firmware | | | not modelled, see 8 |

What is hard: sockets that are replaced while old ones still deliver or close; snapshots that are
older than what they are merged into; timers (0 ms, 1.1 s, 20 s, leave delay) that race the events
they were set for; callbacks of destroyed PeerConnections; an awaiting work chain; three bounded
queues that feed each other while another thread changes `bufferedAmount`; workers that die with
jobs in their queues; a process that is killed between writing an intent, running a command and
reading it back, while the command lives on; a socket whose end and close come late, after a
new one has taken its place; tasks on two cores that pass buffers to each other. What runs in one
event loop is modelled turn by turn: an action is a handler up to its end or its `await`. In the
journals an action is the part of a call between two writes or commands, in the firmware one
critical section or one call of the kernel.

What makes the parts correct: addresses are not handed out twice and a live registration survives its node's old
sockets; every registered node is known to every client; both ends of an open channel hold one
session, and a connection that can be had is had; accepted packets are neither lost, duplicated nor
reordered; packets go along routes that exist, and a reachable exit is found; a chain of messages
keeps its order and never waits for good; a download is complete and does not stall; whatever a
dead process left on its host is accounted for on disk, and DNS and forwarded traffic do not leave
directly meanwhile; a bridge never keeps a dead wire; a slot has one owner.

## 2. Modules

| Module | Models | Instances |
|---|---|---|
| `Signalling` | server and clients, with FIFO sockets in both directions | `MCSignalling` |
| `SignallingProofs` | five theorems about it | |
| `Handshake` | discovery and WebRTC connection set-up of two nodes, over an abstraction of `Signalling` | `MCHandshake` |
| `HandshakeProofs` | one session at both ends, and that a connection ends only for a reason | |
| `SendPath` | the way of packets to one peer, over one connection and its replacement | `MCSendPath` |
| `SendPathProofs` | frame limits, order and completeness of its queues | |
| `MeshRouter` | one node's graph and routes, fed by links, reports and snapshots | `MCMeshRouter` |
| `PathSearch` | the search loop for the path of least latency | `MCPathSearch` |
| `OwnedState` | abstract: what a recovery journal promises | |
| `TunnelDns` | the tunnel DNS journal under client and recovery program | `MCTunnelDns` |
| `Ingress` | the ingress journal and the installer it drives | |
| `VpnClient` | composes `TunnelDns` and `Ingress` under one client process and two recovery programs | `MCVpnClient` |
| `VpnClientProofs` | eight theorems about the two journals and the client that drives them | |
| `Pipeline` | the per-peer chains over a pool of crypto workers | `MCPipeline` |
| `NodeProofs` | `MeshRouter`: the route is always a path; `PathSearch`: it finds a cheapest one; `Pipeline`: messages of a connection are handled in turn | |
| `UserspaceNat` | TCP of the exit's NAT | `MCUserspaceNat` |
| `UserspaceNatProofs` | the stream, the count of segments, FIN and RST, and that nothing stalls | |
| `TunBridge` | the bridge of `clean-vpn` at both ends of a TCP connection | `MCTunBridge` |
| `TunBridgeProofs` | no wire that is armed and dead, whole packets in order | |
| `UsbTxQueue` | the USB transmit queue of the firmware | `MCUsbTxQueue` |
| `UsbTxQueueProofs` | owners of slots, wake-ups, order of frames | |

`Handshake` and `MeshRouter` contain what they need of signalling: per-node FIFOs that a dropped
socket empties, a join for each registration, a leave for each close the server acts on. Module
`Signalling` shows the sockets behind it (order, at most once, stale closes). Modules that are extended
together name their own formulas apart: `VpnClient` (`ClientSpec`, ...) extends `TunnelDns` and
instantiates `Ingress`; `NodeProofs` extends `MeshRouter` (`RouterSpec`, ...), `PathSearch`
(`SearchSpec`, ...) and `Pipeline` (`Spec`).

### Signalling
A socket is `<<node, number>>`; `sv` is its state at the server, `c2s`/`s2c` what is under way.
`nodes`, `virtualIpCounter`, `peers`, `registered`, `virtualIp` are the fields of the same name,
`phase` the client's connection state. `Register`/`ReRegister`, `GetPeers`, `TopologyUpdate`,
`RelaySignal` and `ServerClose` are the server's handlers with all they broadcast; `Connect`,
`ClientClose`, `ReconnectTimer`, `Disconnect`, `Restart` and the `On...` actions those of the
client; `LinkChange` is discovery's report. An address is a number, and a pin may be any, those that
the counter will come to among them.

### Handshake
Per node: the work chain (`work`, and `busy` while it awaits the local description), `pending`
(none, fresh, or older than 20 s), `est`, `sess`, the PeerConnection `pc` with the counterpart it
has a description of, the epoch `uid`, destroyed PeerConnections that may still report (`zombies`)
and the three timers. Ephemeral keys are named by the PeerConnection they are made with. What
node-datachannel does (channels open between matching PeerConnections, one without a counterpart
fails) is modelled from its use and marked external. Timing that the model relies on: the 1.1 s
reconnect timer outlasts zero-delay timers and late reports of destroyed PeerConnections, ICE gives
up later than signalling delivers, and a channel takes longer to open than a zero-delay timer.
Descriptions are exchanged complete; trickled candidates and WebSocket mode are left out.

### SendPath
A packet is a number with a length. The queues are those of the code: `_sendRetryQueues` (node),
`_sendOverflow` (transport) and the queue of `TransportSendBuffer`, whose `push` and `_flush` are
broken into the steps between which the channel's thread may change `bufferedAmount`. Limits are
small numbers with the same relations as the defaults, in particular a full aggregation queue
fills more than a frame.

### MeshRouter and PathSearch
`links` is what is really up; each end notices by itself (`est`), reports, and the server sends
snapshots in the order of registration, which matters because `addNode` empties the edges of an
unknown node. `graph` is `NetworkGraph` with directed `edges` as in its Map of sets; `route` and
`unavailable` are `activeRoutes`, with a key for any exit and one per exit. Latencies are left
open, so a rebuild may choose any path without repeated nodes and without an exit on the way;
`PathSearch` models the loop that does choose, with latencies, and compares it with a definition of
cheapest path. A step is one turn of the loop; the neighbours of a node come in any order. The result
is the walk that `prev` leads back along (`LedBack`).

### OwnedState, TunnelDns, Ingress, VpnClient
`OwnedState` is the promise in two variables: an item (a rule, a route, a setting) is claimed on
disk before it is installed and given up only when it is gone. `TunnelDns` and `Ingress` implement
it (`JournalSpec`, `IngressJournal`), with `claimed` the first operations and gates that the file
counts and `present` what the network namespace has. In both, `file` is the journal, `proc` the
process that holds it and where in which call it is, `cmd` the command it awaits and `orphan` a
command that outlived its process; a command has its effect, or fails, when it ends. A lock that
commands inherit keeps others out until they are over (`Unlocked`). Conditions that only decide
whether a call throws (scope, firewall backend, identity of a link, deadlines) are one action,
`Fail`. `VpnClient` runs both journals in the order of `runClient` and `finishNetwork`, the death of
the client at any point, and the two recovery programs, which open one journal each. DNS is recovered
between clients only: a stopping client gives its DNS journal up when it is released (a restore that
throws ends in `Die`, with both journals retained), so that who opens it before the ingress is closed
finds nothing to do.

### Pipeline
A behaviour is about the receive or the transmit pool, which run the same code. A connection has a
number, which also names its session key and the chain its messages are on: `peer-disconnected`
deletes the chain from the map (`current`), not the messages on it, so that a reconnected peer has
two. `Submit`, `Work`, `Result` are the way of a job through `_rxPending` and a worker's queues;
`Crash` and `Exit` the death of a worker and its event, which flushes the pending jobs of all
workers (`FlushPending`) and respawns it; `Keyless` and `Synchronous` what happens without a
session or without workers. Packets that need no worker are `inline`.

### UserspaceNat
`conn` is the entry of `tcpConnections` with its fields (`seq`, window, last ACK,
`pendingResponses`, backlog, `paused`, FIN state); the client's kernel, the server and socket events
are external. The connections of one port follow each other: `isn` says which of them an entry or a
segment belongs to, a SYN may meet the entry of the last one or its segments, and a client that has
closed (`ClientDone`) may connect again. `End` may come to a paused socket, and `Close` or `Timeout`
while bytes are held back; `expired` remembers that timer, sweep or the client removed an entry after
FIN. `Flushed`, `Synced` and `Acknowledged` are `_flushServerReadBacklog`,
`_syncServerSocketPause` and `_updatePeerWindowAndAck`, which `Sent` and `FinIfDue` end in segments of
data and FIN; sequence numbers are counted modulo `W`. The client's own data, which is only written
to the socket, and pure ACKs are left out.

### TunBridge
The state of an end holds the variables of the closure of `attachTunBridge` and what Node keeps of
each socket (which events are still to come, what its writer has not flushed, what the peer has not
read); the functions of the code are operators on it and an action is one turn. `Connected` has the
closed form of the loop that sends what has waited, batch by batch. A packet is two
bytes on the wire, so that chunks end inside frames and bytes out of step are read as a length.
TCP itself (delivery, half close, a peer that is gone) is external. The branches of `RespondFin` and
`GracefulClose` for endpoints marked `__cleanVpnGracefulFinUnsafe` concern sockets that are not plain
TCP and are left out.

### UsbTxQueue
Producers and the worker are program counters over `s_free`, `s_pending` and the pool; `tusb` is
what the TinyUSB task is in the middle of. Each of the code's critical sections, queue calls and
looks at `tud_ready` that another task could tell apart is a step (a host seen by `LookAtHost` may be gone
when `TakeSlot` runs); adjacent ones that only touch the
task's own slot are one. `host`, the NTBs of the NCM driver and the time-outs are external.

## 3. Runs

| Run | Shows |
|---|---|
| `signalling_registry` | two nodes come to share an address only when the counter reaches a pinned one in use (both are pinned to an address it will reach), registration survives stale sockets, a quiet client misses nobody, the server's record of links catches up, signals in order and at most once; a node with a live socket gets registered, one that stops is forgotten |
| `sendpath_queues` | limits, order and size of frames, every accepted packet in one place, none overtakes the retry queue; queues drain by themselves while the connection lasts |
| `router` | the route is a path of the present graph; while signalling stays up a reachable exit is found |
| `path_search` | cheapest path, with its cost |
| `handshake` | an end of an open channel has the keys of its handshake or none, no connection ends by a stale event or a late peer-leave; after failed PeerConnections the nodes connect for good |
| `handshake_keyless` | violated: a channel can be open at both ends while one has no session (section 5) |
| `tunnel_dns` | the journal implements `OwnedState`, every save is valid, DNS never leaves directly before a full restore, every rollback ends |
| `client_restart` | the same of the ingress journal, with the client that drives both: forwarded traffic never leaves directly, and is released only while DNS is protected |
| `pipeline` | order and at-most-once per connection, no mixing with the next, no chain that waits for good |
| `nat` | the client's stream is the server's while its entry is there, and one that was cut off never ends with FIN; limits hold across wrap-around and cumulative ACKs, no RST to a client that closes, no stall |
| `bridge` | whole packets in order over replaced connections, no armed but dead wire, idle sockets closed at both ends |
| `usb_queue` | one owner per slot, order, at most one frame across a mount, no lost wake-up, the worker drains whatever the host does |

All runs but `handshake_keyless` pass. That one asks what the comments at `webrtc.js:130` and `:692` promise, and
TLC's counterexample is the finding of `PROJECT.json`. Each property of a passing run has a mutant in `PROJECT.json`: a plausible slip in one definition that
makes TLC report that property.

## 4. Bounds

The theorems of section 7 state every invariant and every safety property of the runs without these
bounds; what the bounds are for is liveness, and to try an invariant before it is proved.

* Signalling: two nodes. A behaviour starts with one of the budgets of `Budgets`: one node reconnects and
  both may be gone in the end; both reconnect (an old and a new socket is what stale events need); one
  reconnects and sends two signals; or links change three times. In the second and third the last
  sockets stay (`MayEnd`). Both nodes are pinned to the second address of the counter, so that pins are
  refused, granted, and met by the counter. `TunNodes` has one node with a TUN device and one without.
* Handshake: `Budgets` limits crashes, dropped sockets, failures and failed gatherings: one crash, one
  drop, a failure with a failed gathering, or two failures, whose handshakes may overlap. One failure is
  enough for `handshake_keyless`.
* SendPath: six packets of two lengths, frames of two short packets, queues of one to three entries,
  two connections: every queue fills and empties, and a long packet needs a frame of its own.
* MeshRouter: an exit and a relay, so that there are routes of one and two hops; three link events
  (up, up, down), two and a dropped socket, or two whose handlers await; one or two snapshots under way.
* PathSearch: all 4096 weighted graphs of four nodes, two sets of goals, with and without an
  excluded node. Edges are symmetric there.
* TunnelDns: two operations in each of the three stages, one of which vanishes with the TUN, three
  gates; crashes and failures are not bounded. Two items per stage tell a partial stage from a full
  one, three gates a partial hold from an empty and a full one.
* VpnClient: a plan of one guard, one route and one rule and two gates for DNS; two guards, a route
  of the TUN, a setting that has its value already, one HTTPS rule and two gates for the ingress.
  Unbounded deaths, restarts and recoveries.
* Pipeline: one peer (chains of different peers share only the pool, whose limit is 1 or 2), two
  workers, two connections, four messages, one dead worker at a time.
* UserspaceNat: segments of two bytes, at most three unacknowledged, windows 0, 2 and 6 bytes, reads
  of one or four bytes, eleven bytes in all; the modulus 16 and first number 13 let the numbers wrap
  in every download; two SYNs from one port, as a repetition or as two connections (2.8 million states).
* TunBridge: two connections, two packets of the client and one of the exit, a waiting queue of one, a
  batch of two, one restart, keep-alive at any set of ends.
* UsbTxQueue: two tasks with two and one frames on two slots, a driver with one NTB, two attempts,
  two mounts. The pool is exhausted, the driver full, and a frame waits across a mount (1.7 million states).

`CHECK_DEADLOCK FALSE` is used where a behaviour ends because a bound is used up.

## 5. Disagreements

Met while modelling and seen in TLC's counterexamples. The session that is removed has a run and a finding
of its own; each of the others can be had again from the module by stating the formula and choosing
the constants named here.

* Addresses. The counter is only ever the last octet and is never reclaimed, so the 255th new
  registration yields `10.200.0.256` (`FirstIp = 254`: some address above 255), although
  `README.md:640` of the repository gives the range `10.200.0.0/16`; and it hands out an address that a
  pinned node holds (`UniqueVirtualIps`, on the run's own instance), although
  `signalling-server.js:171` speaks of a check, which the pinned branch alone makes. `ClashOnlyByCounter`
  says that this is the only way to a shared address.
* Links after a reconnection. A report sent while the socket is down is lost (`discovery.js:537`), and the
  server starts from an empty record; it stays empty until the next link event. The part of `ViewsAgree`
  about links is therefore of a node's first socket.
* Departed peers. A client that misses a `peer-leave` while it reconnects keeps the peer
  (`Quiet(n) => peers[n] \subseteq Registered \ {n}`), since `_handlePeersList` only adds; the
  comment at `discovery.js:220` relies on the peer being gone.
* Overflow queue. `WebRTCTransport.send` offers a new packet to the send buffer before those that
  wait in `_sendOverflow`, so `wire` is not in the order of the numbers (`SendOverflowMax = 1`,
  eight packets); `node.js:153` asks for FIFO per peer. Without the overflow queue the order holds.
* Replaced connection. A new PeerConnection for an open one does not tell `MeshNode`; packets queued
  for a retry meanwhile are drained only by a low-water event the new channel has no reason to
  produce (`AcceptedIsSent` without `connections = 1`).
* Pruning. A linked peer whose signalling socket drops is pruned by the next snapshot although
  `graph.js:296` excepts locally added nodes: a snapshot that named it has marked it. The entry
  `exit:<id>` of a pruned exit stays in `activeRoutes`.
* Restart under an offer. When the responder restarts while an offer is on its way, the initiator's
  pending handshake is too young at the `peer-join` to be superseded (`discovery.js:258`) and nothing
  looks at it again: the nodes stay unconnected, which `docs/linux-client-routing.md:113` and the
  comment at `discovery.js:245` rule out (`EventuallyConnected` with a crash allowed).
* Session removed (run `handshake_keyless`). The zero-delay `peer-disconnected` of a failed PeerConnection can
  run after the next offer has made a session, and removes it; the channel then opens without a key
  although the comments at `webrtc.js:130` and `:692` mean to prevent it: the timer is cancelled only
  when `connections` still has the old PeerConnection (`webrtc.js:642`), which its end has removed.
  `SessionInv` says what is left: an end that has a session has that of the channel's handshake.
* Failover. A snapshot taken before a link failed re-adds the link's edge (`graph.js:288`) and nothing
  removes it again; `README.md:387` of the repository promises failover. Likewise an
  `addLocalConnection` that follows an awaited policy set-up (`node.js:552`) after the peer has gone.
* Onion keys. A sender layers a packet with the keys it shares with each hop (`node.js:757`), a receiver
  peels with the key of the peer the packet came from (`node.js:832`): over two hops these differ,
  although `README.md:612` and `tz.md:196` describe multi-hop layers.
* Chains. `node.js:823` says messages are handled sequentially per peer; across a reconnection two
  chains of a peer run side by side, and answers of the old one are sealed with the new key. The
  client's own sends are not chained at all (`node.js:137`), so workers may reorder them. The exit's
  chain has no `catch` of its own (`node.js:1185`): a callback that throws rejects all later work on it.
* NAT, closing. `'close'` follows `'end'` by itself, and if FIN could not be sent yet (bytes held back or
  unacknowledged) the entry goes with what it holds, without FIN or RST (`userspace-nat.js:714`); `'timeout'` does the
  same (`:700`). The client waits until it gives up or sends something (`Live(conn)` dropped from
  `StreamIntact`). What does hold is that such a stream never ends with FIN. The linger timer and the sweep
  (`:862`, `:892`) may remove an entry while the client still closes its side; its segment is then answered
  with RST, which the comment of `NoRstAfterFin` quotes as what lingering is to prevent (`expired`
  dropped from it).
* NAT, counting. A connection that the client resets while it is being made stays counted in `connectingCount`
  (`userspace-nat.js:562`), until no SYN is taken any more; a cumulative ACK of several short segments
  releases fewer than it covers (`:318`), which is why `NoStall` is stated for full segments; data
  the client sends twice is written twice; two pings with one id and sequence number share an entry.
* Bridge, errors. With `--type=tcp` a socket whose wire listeners have been removed has no `error` listener,
  so a late write error ends the exit process; `scripts/test-tun-bridge-startup.mjs` says that "a
  delayed write error from an old connection cannot tear down its replacement".
* Bridge, teardown. `teardownWire` clears `ep` before `ep?.close?.()`, so that the other transports' endpoints are
  not closed although the comment at `clean-vpn.js:6629` says so; `rearmTcpClientWire` (`:6274`) resets
  a reference it has just cleared; and a graceful close begun by `startBridge` becomes a reset in
  `closeBridgeEndpoint`.
* USB. The epoch is checked before the send is deferred to the TinyUSB task, so one frame of the previous
  mount can reach the next host; `SentFresh` therefore says at most one. The comment "stale frame never
  reaches TinyUSB" (`device/tests/test_usb_tx.c:217`) is of a test without a mount in between.

## 6. Fairness

Fairness of steps that the code takes by itself: event loops handle what has arrived,
timers expire, sockets report their close, the client's reconnect timer leads to a connection,
gathering ends, matching PeerConnections open, ICE gives up without a counterpart, a data channel
transmits. None is assumed of faults, of users, or of new traffic. In `MeshRouter` one condition
covers all deliveries: link events are bounded, so each leads to finitely many steps.

* Journals: a process goes on, a command ends, and somebody opens the journal again (the service manager
  restarts the client, or the operator runs the recovery program). In `VpnClient` the last is strong
  fairness of the ingress recovery, because clients may come and go between. `RecoveryCompletes` and
  `IngressRecovers` are about behaviours whose interruptions end.
* Pipeline: the event loop and the worker threads run; nothing is assumed of peers.
* TunBridge: one condition for all deliveries, timers and socket events, sound because packets, connections
  and restarts are bounded. That a peer which is gone is noticed stands for the keep-alive probes of
  TCP that `clean-vpn` switches on.
* UsbTxQueue: tasks that can run do run and time-outs pass; nothing is assumed of the host or the driver.

The conditions are weak but for the one named.

## 7. Proofs

Each theorem is about a specification without fairness and every value of the constants that its named
`ASSUME`s admit; these say what the code does (limits are numbers, queues hold at least one entry). An
inductive invariant that is stronger than the property was checked by TLC on the run's instance before
it was proved.

* `TypeCorrect` (`SignallingProofs`): `TypeOK`, which is inductive as it stands.
* `SharedByCounterAlone`: `ClashOnlyByCounter`, an action property, for pins anywhere. Its invariant
  `AddressInv` says that the address of a registered node is its pin or below the counter; so a counted
  address is new among the counted ones, and can only meet a pin.
* `RegistrationSafe`: `RegistrationSurvivesStaleSockets`. The inductive invariant follows a socket
  through its life: which sockets may still hold an unread registration, that a terminated one is
  never current, and that a `registered` reply under way belongs to the entry the server has.
* `ViewsStayTogether`: `ViewsAgree`, which speaks of clients with nothing left to read. Its invariants
  say what the messages under way will do: an answered client still has its `get-peers` or the answer
  ahead (`Asks`), or reading what is on its socket leaves it with every registered node (`WillKnow`:
  known now and not taken away, or given later than taken away); and the last report on the
  first socket, or else the registration on it, carries the present links (`Recorded`).
* `SignalsStayInOrder`: `SignalsInOrder`, an action property. `EntryInv` says that a node has at most one open
  socket that has registered, `EarlyInv` that only such a socket carries signals that count. So those
  of a node under way form one line (`Line`), on that socket to the server and then to the receiver,
  numbered upwards from the last one seen to the last one sent (`SignalInv`).
* `OneSession` (`HandshakeProofs`): `SessionInv`; `KeptWithoutReason`: `ConnectionKept`, an action property. A
  session is made with the last PeerConnection of its node, and its remote key came with the
  description which that one was given (`KeyOK`, `PcOK`), so two matched PeerConnections have the keys
  of one handshake, where they have any (section 5). `LateOK` says that a deferred `peer-disconnected` has run or been cancelled before a channel is
  open; that a replaced PeerConnection changes nothing is the epoch check itself. For the deferred `peer-leave`,
  `NewsOK`: while the other node is registered, what is under way to this one ends with the news that it
  is there, not with a leave. `NodesAssumption` says that there are two nodes.
* `RouteAlwaysPath` (`NodeProofs`): `RouteIsPath`. The invariant adds only the shapes of graph
  and routes. A handler either rebuilds (`RebuildSound`) or removes a link that the route does not
  use (`PathWithout`); nothing is assumed of snapshots, so the merge need not be analysed.
* `RouterTypes` (`NodeProofs`): `RouterTypeOK`, which is inductive. It does need the merge: a loop over the
  entries of a snapshot keeps the shape of the graph entry by entry (`SnapshotKeepsGraph`).
* `SearchOptimal` (`NodeProofs`): `Optimal`, on any finite graph with positive weights. A node is `Settled` when
  it has been found and no entry of the heap has its cost any more. `SearchOK` says that a settled node
  is no goal, that nothing in the heap is cheaper, and that its neighbours have been found over it or
  more cheaply (`SettledOK`); and that a predecessor is settled, so that its cost is final (`PrevOK`). Costs
  therefore fall strictly along `prev`: something leads back from each node that was found
  (`ChainExists`), begins at the start, has no node twice and costs what is known (`LedBackFacts`). In the
  other direction, follow any path from the start: its nodes are settled and known at least as cheaply,
  up to one that still has an entry, and the goal is never settled; so the heap always has an entry no more
  expensive than the path (`LowerBound`). The cheapest entry is then optimal, and an empty heap means
  that there is no path. Stale entries, and the stable sort, do not matter.
* `VpnClientProofs`, for plans and holds of any length. Of the tunnel DNS journal by itself: `DnsJournalValid`
  (`JournalInv`), `DnsJournalImplemented` (`JournalSpec`, the refinement of `OwnedState`), `DnsAlwaysOwned` (`Owned`) and
  `DnsStaysClosed` (`NoDirectDns`). `DnsShape` says where in its plan a process is at each point: which
  stages and counts go with it and what its command is about. `DnsAdds` says that a command which
  may still add something, an orphan's included, adds what the file claims; with it every step maps
  to a step of `OwnedState` or a stutter, and `Owned` follows. The seal needs which commands may still remove
  a guard or a gate (`DnsDels`), that a read-back follows each gate (`DnsAwaited`), and that all gates are
  up from the end of the hold to the end of the rollback (`DnsGated`). `NoDirectDns` alone is not
  inductive: it does not see a removal that is under way. The ingress journal has the same parts (`InShape`,
  `InAdds`, `InDels`, `InAwaited`, `InGated`), with counts of settings that had their value already.
  Of the client: `ClientDrivesJournals`, that each of its steps, and of the recoveries between its lives, is a
  step of `TunnelDns` and a step of `Ingress`, or leaves the journal alone, so that what is proved of a
  journal by itself holds of it under the client; with it `ForwardStaysClosed` (`ForwardInv`) and
  `IngressImplemented` (`IngressJournal`). `ReleasesOverDns` (`ReleasedAfterDns`) relates the two: `OpenedOverDns` says
  that an ingress which is being opened has a DNS journal that runs.
* `TunBridgeProofs`: `WireAlwaysLives` (`WireInv`) and `PacketsStayWhole` (`WireIntact`), for any number of connections,
  packets and restarts. `BridgeInv` has a part per end (`EndOK`: what its sockets and its wire may be) and one per
  direction (`Flow`: what is written is older than all that is to come, and the stream of a connection that is
  heard is whole frames after the one begun in the framer). Most steps move no packet (`Quiet`), and one
  lemma serves them in both directions; sending, flushing, accepting, connecting and reading have arguments of
  their own. `BusyOK` says why the flag `teardownBusy`, held during a graceful close, does not swallow the end of a
  new wire: the new connection resets the old socket, and Node's loop reports that close before any event of
  a socket accepted in the same turn.
* `SendPathProofs`: `FramesWithinLimits` (`FrameInv`), `StreamKept` (`BufferFifo`), `RetryKeepsOrder`
  (`RetryNotOvertaken`) and `NoneLostOrDoubled` (`NoneLost`), for packets of any length. A flush that stops
  at a chunk decides by a running total: `Totalled` ties `currentSize` to the queue whenever no
  flush is between two chunks, and says that a packet is pushed where there is room; the shape of the
  call stack (`Shape`) says which calls may be in the middle of what. `QueueOrder` adds that no id is in a
  queue before it is given out. `NoneLost` is about one concatenation of everything; `PlaceInv` says it
  place by place (`Partition`), so that a step has to explain only the two places it moves a packet between.
* `DeliveredInTurn` (`NodeProofs`): `OrderInv`. A message is handled by a callback that was registered
  under a job number, possibly after its worker has died and its pool has been flushed. `FlightInv` says
  that what a worker has or answers under a number with a callback is the message of that callback,
  because a number that was given out is not given out again (`Spent`); `PendInv` that a
  callback is the one the first message of a chain waits for; `LateInv` that after the one late packet of
  a connection nothing is left that could be opened.
* `UsbTxQueueProofs`: `SlotsAreOwned` (`QueueInv`), `WakeupsAreNotLost` (`NoLostWakeup`), `SentInOrder`
  (`SentFresh`). `SlotInv` has the owners kind by kind, since nothing can be said step by step about the
  cardinality of a set of owners; `Expectant` starts the promise of `NoLostWakeup` where the worker finds
  the driver full, before it sleeps; `LineInv` follows frames through task, queue, worker and driver, and
  says when the epoch of a frame tells its mount (`Dated`).
* `UserspaceNatProofs`: `PendingCounted` (`CountInv`), `StreamKeptWhole` (`StreamIntact`),
  `ClosedWithoutReset` (`NoRstAfterFin`) and `NeverStalls` (`NoStall`), for all segment sizes, limits,
  windows, reads and first sequence numbers. `FlushPushes` says once what a flush does (`Pushed`: whole segments in
  sequence, each counted, FIN only behind the last byte), and the three handlers that flush use it.
  `NatInv` says of an entry what its socket may be (`EntryInv`) and what a flush leaves (`FlowInv`); of
  the mesh that it carries the rest of the stream from the number the client expects to the
  number the entry has reached (`Streams`), also before the client has its SYN-ACK (`Opening`); that
  at most one ACK of the client is not heard (`OneAck`); which connection a segment or an entry is of
  (`IsnInv`: none has a number that is yet to come, so nothing old passes for new); and where the counted segments are (`Counting`): `m` that
  are acknowledged and not heard, `n` received and not acknowledged, the rest in the mesh, with the
  bytes of each. `CountCovers` and `NoStall` are two readings of it. What outlives the entry is `EndInv`: once
  FIN is on its way, all that was read is with the client or ahead of FIN in the mesh, and nothing follows. It needs `SeqAssumption`:
  the modulus must exceed `2 * TcpMaxPending * MSS + 1`, since an ACK of half the numbers or more is taken for
  an old one. The code has 2^32, a limit of 200 and an MSS of 1360, so the assumption holds with
  room; with a modulus of exactly that bound (13 on the run's instance) TLC finds `NoStall` violated.

The attempt to prove `SignalsInOrder` showed that `RelaySignal` chose with a `CASE` of overlapping guards,
which TLC takes in order and TLA+ does not; it is an `IF` now. That of `RetryNotOvertaken` showed that its
second conjunct had been read as part of the quantifier of the first, where it said nothing about a queue
of one; the property now says what its comment does, in the run too. That of `WireInv` showed that its
exception for a graceful close under way was not needed, and it is gone.

Sizes, sums over queues, the cost of a path and the merge of a snapshot are recursive functions. The prover
cannot instantiate the library's induction rules; where an induction was needed (`TotalsExist`,
`SizeIsTotal` in `SendPathProofs`, `BytesIsSum`, `BytesAtMost` in `UserspaceNatProofs`, `MergesExist`, `SumsExist`,
`LowerBound`, `ChainExists` in `NodeProofs`), it is done by the least counterexample (`AllNumbers`).

Only model-checked is what is to happen eventually, since the prover does not reason about fairness:
`RegistryFollows`, `AcceptedIsSent`, `EventuallyRouted`, `EventuallyConnected`, `IngressRecovers`,
`RecoveryCompletes`, `ChainsDrain`, `WorkerDrains`, `SocketsClosed`. Every other property of a run is a theorem.

## 8. Plan and what is not modelled

Next, in this order:

1. Trickle ICE generations and WebSocket mode in `Handshake`.
2. `Forwarding`: TTL, visited nodes, duplicate cache, split horizon, once the code's use of keys over
   several hops is settled (section 5).
3. `ReorderBuffer` (`core/scheduler.js`), which the running node does not use yet.
4. The firmware's DNS proxy (pending table, identifiers, expiry) and VPN client; the two-phase policy
   routing of the TUN manager; further journals of `scripts/lib` as instances of `OwnedState`.

Hazards that are listed without a property belong to point 1, or are those that the code does not withstand
(section 5): no property that holds would catch them.

Left out for good: packet parsers and header encoders, argument and configuration parsing, `iptables` and `ip`
calls themselves, statistics, HTTP pages, cryptography itself, TLS fingerprint and ClientHello tools,
virtual-machine labs, benchmarks and tests, which together are most of the repository's lines: they keep
no state between calls whose order could matter, or are not part of the running programs.
`ip-manager.js`, `batcher.js` and the scheduler's sending side are not used by the running node.

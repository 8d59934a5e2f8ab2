----------------------------- MODULE Signalling -----------------------------
(***************************************************************************)
(* The control plane of the mesh: the signalling server                    *)
(* (server/signalling-server.js) and the client every mesh node keeps to   *)
(* it (src/control/signalling.js), joined by WebSockets.                   *)
(*                                                                         *)
(* A node n opens its sockets one after the other; <<n, k>> is its k-th.   *)
(* The client end and the server end of a socket see its close event       *)
(* independently and in any order, so the server may still hold n's old    *)
(* socket when n registers over a new one.  Each direction of a socket is  *)
(* a FIFO channel; a close event discards what that end has not read.      *)
(***************************************************************************)
EXTENDS Naturals, Sequences, Functions

CONSTANTS
  Nodes,          \* node identities
  Null,           \* "no value"
  TunNodes,       \* nodes with a TUN device (a userspace-NAT exit has none)
  Pinned,         \* options.pinnedIps: a function from some nodes to addresses
  FirstIp,        \* first value of virtualIpCounter (2 in the code)
  MaxSockets,     \* bound: sockets of a node
  Budgets         \* bounds, one of which a behaviour has: how many sockets a node
                  \*   opens, whether the last of them stays, how many signals it
                  \*   sends to each other node, and how often links change

ASSUME PinnedAssumption == DOMAIN Pinned \subseteq Nodes
ASSUME TunNodesAssumption == TunNodes \subseteq Nodes
ASSUME FirstIpAssumption == FirstIp \in Nat
ASSUME MaxSocketsAssumption == MaxSockets \in Nat
Bounds == [sockets : [Nodes -> 0 .. MaxSockets], lasts : BOOLEAN, signals : [Nodes -> Nat], links : Nat]
ASSUME BudgetsAssumption == Budgets \subseteq Bounds

VARIABLES
  nodes,             \* server: registered node -> [ws, virtualIp, connectedPeers]
  virtualIpCounter,  \* server: next address to hand out
  sv,                \* server end of each socket: none, open, terminated, closed
  registeredAs,      \* server: sockets whose closure has set its nodeId
  c2s,               \* messages sent to the server, per socket
  phase,             \* client: where connect() and its reconnect timer stand
  ws,                \* client: index of its latest socket, 0 before the first
  registered,        \* client: SignallingClient.registered
  peers,             \* client: SignallingClient.peers
  virtualIp,         \* client: the address MeshNode adopted, or Null
  s2c,               \* messages sent to the client over its current socket
  links,             \* client: PeerDiscovery.establishedPeers
  budget,            \* the bounds of this behaviour; budget.links is what is left
  sent,              \* history: signals a node has sent to each other node
  seen               \* history: last signal a node has received from each other,
                     \*   not counting those sent before `registered' had come

serverVars == <<nodes, virtualIpCounter, sv, registeredAs>>
linkVars   == <<links, budget>>
vars == <<serverVars, c2s, phase, ws, registered, peers, virtualIp, s2c,
          linkVars, sent, seen>>

Sockets   == Nodes \X (1 .. MaxSockets)
Addresses == Nat \cup Range(Pinned)
Phases    == {"connecting", "open", "reconnectTimer", "stopped"}

Registered == DOMAIN nodes
Current(n) == <<n, ws[n]>>
ClientOpen(s) == phase[s[1]] = "open" /\ s = Current(s[1])

-----------------------------------------------------------------------------
(* What the server sends *)

\* _wsSend to the sockets in S, in a server whose ends are v: nothing goes to
\* an end that is not OPEN, and nothing arrives once the client has closed its
\* own end.
Deliver(v, S, m) ==
  [n \in Nodes |-> IF Current(n) \in S /\ v[Current(n)] = "open" /\ ClientOpen(Current(n))
                   THEN Append(s2c[n], m) ELSE s2c[n]]

\* The sockets the registry reg has for the nodes of S.
SocketsOf(reg, S) == {reg[n].ws : n \in S \cap DOMAIN reg}

\* _broadcastTopology: the whole registry, to everybody.
Topology(reg) == [type |-> "topology",
                  topology |-> [n \in DOMAIN reg |-> reg[n].connectedPeers]]

\* The address _handleRegister gives to a node it does not know: the pinned one
\* unless another node has it, the next value of the counter otherwise.
PinTaken(n) == n \in DOMAIN Pinned   \* mutant: no conflict check
PinAvailable(n) ==
  n \in DOMAIN Pinned /\ \A m \in Registered \ {n} : nodes[m].virtualIp # Pinned[n]
NewAddressOrNone(n) ==                \* mutant: no fallback on a conflict
  IF PinAvailable(n) THEN Pinned[n] ELSE IF n \in DOMAIN Pinned THEN Null ELSE virtualIpCounter
NewAddress(n) == IF PinAvailable(n) THEN Pinned[n] ELSE virtualIpCounter

\* _broadcastPeerJoin, to the sockets of all other nodes.
PeerJoin(v, reg, n) == Deliver(v, SocketsOf(reg, Nodes \ {n}), [type |-> "peer-join", node |-> n])

\* What _handleRegister answers on socket s (_sendRegistered), followed by its
\* broadcast of peer-join.
RegisteredOnly(v, reg, n, s) ==       \* mutant: nobody is told
  Deliver(v, {s}, [type |-> "registered", ip |-> reg[n].virtualIp])
JoinOnly(v, reg, n, s) ==             \* mutant: no answer
  PeerJoin(v, reg, n)
RegisterReplies(v, reg, n, s) ==
  [PeerJoin(v, reg, n) EXCEPT
     ![n] = IF ClientOpen(s) THEN Append(s2c[n], [type |-> "registered", ip |-> reg[n].virtualIp])
                             ELSE @]

\* The old socket of a node that registers over s, if it is still open, is
\* terminated.
NotTerminated(old, s) == sv           \* mutant: both stay open
Terminated(old, s) == [sv EXCEPT ![old] = IF old # s /\ @ = "open" THEN "terminated" ELSE @]

\* The socket whose close event removes a node: the one its entry has now, not
\* one that a later registration has replaced.
AnySocketOf(s) == s[1] \in Registered                          \* mutant: by nodeId
CurrentSocketOf(s) == s[1] \in Registered /\ nodes[s[1]].ws = s

-----------------------------------------------------------------------------
(* Server handlers: one message from socket s *)

ServerReads(s, type) ==
  /\ sv[s] = "open"
  /\ c2s[s] # << >>
  /\ Head(c2s[s]).type = type
  /\ c2s' = [c2s EXCEPT ![s] = Tail(@)]
  /\ UNCHANGED <<phase, ws, registered, peers, virtualIp, linkVars, sent, seen>>

\* _handleRegister for a node that is already registered: the new socket takes
\* over the entry, the old one is terminated if still open.
ReRegister(s) ==
  LET n   == s[1]
      old == nodes[n].ws
      reg == [nodes EXCEPT ![n].ws = s]
      v   == Terminated(old, s)
  IN  /\ ServerReads(s, "register")
      /\ n \in Registered
      /\ nodes' = reg
      /\ sv' = v
      /\ registeredAs' = registeredAs \cup {s}
      /\ s2c' = RegisterReplies(v, reg, n, s)
      /\ UNCHANGED virtualIpCounter

\* _handleRegister for a node the server does not know.
Register(s) ==
  LET n    == s[1]
      info == [ws |-> s, virtualIp |-> NewAddress(n), connectedPeers |-> {}]
      reg  == [m \in Registered \cup {n} |-> IF m = n THEN info ELSE nodes[m]]
  IN  /\ ServerReads(s, "register")
      /\ n \notin Registered
      /\ nodes' = reg
      /\ virtualIpCounter' = IF PinAvailable(n) THEN virtualIpCounter ELSE virtualIpCounter + 1
      /\ registeredAs' = registeredAs \cup {s}
      /\ s2c' = RegisterReplies(sv, reg, n, s)
      /\ UNCHANGED sv

\* _handleGetPeers
GetPeers(s) ==
  /\ ServerReads(s, "get-peers")
  /\ s2c' = Deliver(sv, {s}, [type |-> "peers", peers |-> Registered \ {s[1]}])
  /\ UNCHANGED serverVars

\* _handleTopologyUpdate
TopologyUpdate(s) ==
  LET n   == s[1]
      reg == [nodes EXCEPT ![n].connectedPeers = Head(c2s[s]).connectedTo]
  IN  /\ ServerReads(s, "topology-update")
      /\ IF s \in registeredAs /\ n \in Registered
         THEN nodes' = reg /\ s2c' = Deliver(sv, SocketsOf(reg, Nodes), Topology(reg))
         ELSE UNCHANGED <<nodes, s2c>>
      /\ UNCHANGED <<virtualIpCounter, sv, registeredAs>>

\* _handleSignal: relayed over the socket the registry has for the addressee;
\* signal-error goes back when there is none.
RelaySignal(s) ==
  LET n == s[1]
      m == Head(c2s[s])
  IN  /\ ServerReads(s, "signal")
      /\ s2c' = IF s \notin registeredAs THEN s2c
                ELSE IF m.to \in Registered
                THEN Deliver(sv, {nodes[m.to].ws}, [type |-> "signal", from |-> n, num |-> m.num, early |-> m.early])
                ELSE IF n \in Registered
                THEN Deliver(sv, {nodes[n].ws}, [type |-> "signal-error", to |-> m.to])
                ELSE s2c
      /\ UNCHANGED serverVars

\* Bound: the socket n has may fail, and n be stopped.
MayEnd(n) == budget.lasts => ws[n] < budget.sockets[n]

\* The close event of the server end of s (_handleWsClose): the node is removed
\* and announced as gone only if s is the socket its entry has now.
ServerClose(s) ==
  LET n   == s[1]
      reg == [m \in Registered \ {n} |-> nodes[m]]
      v   == [sv EXCEPT ![s] = "closed"]
  IN  /\ sv[s] \in {"open", "terminated"}
      /\ ClientOpen(s) => MayEnd(n)
      /\ sv' = v
      /\ c2s' = [c2s EXCEPT ![s] = << >>]
      /\ IF CurrentSocketOf(s)
         THEN /\ nodes' = reg
              /\ s2c' = Deliver(v, SocketsOf(reg, Nodes), [type |-> "peer-leave", node |-> n])
         ELSE UNCHANGED <<nodes, s2c>>
      /\ UNCHANGED <<virtualIpCounter, registeredAs, phase, ws, registered, peers,
                     virtualIp, linkVars, sent, seen>>

-----------------------------------------------------------------------------
(* Client *)

\* SignallingClient._send: dropped unless the socket is open.
Sent(n, m) ==
  IF phase[n] = "open" /\ sv[Current(n)] = "open"
  THEN [c2s EXCEPT ![Current(n)] = Append(@, m)] ELSE c2s

\* connect(): an attempt of _connectOnce that succeeds, with its open handler
\* (failed attempts change nothing).  The socket starts with the registration.
Connect(n) ==
  /\ phase[n] = "connecting"
  /\ ws[n] < budget.sockets[n]
  /\ phase' = [phase EXCEPT ![n] = "open"]
  /\ ws' = [ws EXCEPT ![n] = @ + 1]
  /\ sv' = [sv EXCEPT ![<<n, ws[n] + 1>>] = "open"]
  /\ c2s' = [c2s EXCEPT ![<<n, ws[n] + 1>>] = <<[type |-> "register"]>>]
  /\ UNCHANGED <<nodes, virtualIpCounter, registeredAs, registered, peers, virtualIp,
                 s2c, linkVars, sent, seen>>

\* The close event of the client end: _handleDisconnect and _scheduleReconnect.
\* The peer map survives.
ClientClose(n) ==
  /\ phase[n] = "open" /\ MayEnd(n)
  /\ phase' = [phase EXCEPT ![n] = "reconnectTimer"]
  /\ registered' = [registered EXCEPT ![n] = FALSE]
  /\ s2c' = [s2c EXCEPT ![n] = << >>]
  /\ UNCHANGED <<serverVars, c2s, ws, peers, virtualIp, linkVars, sent, seen>>

\* The reconnect timer fires and calls connect().
ReconnectTimer(n) ==
  /\ phase[n] = "reconnectTimer"
  /\ phase' = [phase EXCEPT ![n] = "connecting"]
  /\ UNCHANGED <<serverVars, c2s, ws, registered, peers, virtualIp, s2c, linkVars, sent, seen>>

\* disconnect(), called by PeerDiscovery.stop().
Disconnect(n) ==
  /\ phase[n] # "stopped" /\ MayEnd(n)
  /\ phase' = [phase EXCEPT ![n] = "stopped"]
  /\ registered' = [registered EXCEPT ![n] = FALSE]
  /\ s2c' = [s2c EXCEPT ![n] = << >>]
  /\ links' = [links EXCEPT ![n] = {}]
  /\ UNCHANGED <<serverVars, c2s, ws, peers, virtualIp, budget, sent, seen>>

\* The process starts again with the same identity and an empty memory.
Restart(n) ==
  /\ phase[n] = "stopped"
  /\ phase' = [phase EXCEPT ![n] = "connecting"]
  /\ peers' = [peers EXCEPT ![n] = {}]
  /\ virtualIp' = [virtualIp EXCEPT ![n] = Null]
  /\ UNCHANGED <<serverVars, c2s, ws, registered, s2c, linkVars, sent, seen>>

\* SignallingClient.sendSignal
SendSignal(n, m) ==
  /\ phase[n] = "open"
  /\ m # n
  /\ sent[n][m] < budget.signals[n]
  /\ sent' = [sent EXCEPT ![n][m] = @ + 1]
  /\ c2s' = Sent(n, [type |-> "signal", to |-> m, num |-> sent[n][m] + 1,
                       early |-> ~registered[n]])
  /\ UNCHANGED <<serverVars, phase, ws, registered, peers, virtualIp, s2c, linkVars, seen>>

\* _updateTopology: the peers n is linked to, now that they are `now'.
LinkReport(n, now) == [type |-> "topology-update", connectedTo |-> now]

\* A transport link from n to m comes up or goes down: PeerDiscovery changes
\* establishedPeers and calls _updateTopology.  Links are negotiated over the
\* signalling channel, so there is none before the first registration.
LinkChange(n, m) ==
  LET now == IF m \in links[n] THEN links[n] \ {m} ELSE links[n] \cup {m}
  IN  /\ phase[n] # "stopped"
      /\ virtualIp[n] # Null
      /\ m # n
      /\ budget.links > 0
      /\ budget' = [budget EXCEPT !.links = @ - 1]
      /\ links' = [links EXCEPT ![n] = now]
      /\ c2s' = Sent(n, LinkReport(n, now))
      /\ UNCHANGED <<serverVars, phase, ws, registered, peers, virtualIp, s2c, sent, seen>>

-----------------------------------------------------------------------------
(* Client handlers: one message of the server (_handleMessage) *)

ClientReads(n, type) ==
  /\ phase[n] = "open"
  /\ s2c[n] # << >>
  /\ Head(s2c[n]).type \in type
  /\ s2c' = [s2c EXCEPT ![n] = Tail(@)]
  /\ UNCHANGED <<serverVars, phase, ws, linkVars, sent>>

\* registered: a MeshNode with a TUN device keeps the address it already has;
\* the client asks for the peers.
OnRegistered(n) ==
  /\ ClientReads(n, {"registered"})
  /\ registered' = [registered EXCEPT ![n] = TRUE]
  /\ virtualIp' = [virtualIp EXCEPT ![n] = IF @ = Null \/ n \notin TunNodes
                                             THEN Head(s2c[n]).ip ELSE @]
  /\ c2s' = Sent(n, [type |-> "get-peers"])
  /\ UNCHANGED <<peers, seen>>

\* peers: _handlePeersList adds what the list has and removes nothing.
OnPeers(n) ==
  /\ ClientReads(n, {"peers"})
  /\ peers' = [peers EXCEPT ![n] = @ \cup Head(s2c[n]).peers]
  /\ UNCHANGED <<c2s, registered, virtualIp, seen>>

OnPeerJoin(n) ==
  /\ ClientReads(n, {"peer-join"})
  /\ peers' = [peers EXCEPT ![n] = @ \cup {Head(s2c[n]).node}]
  /\ UNCHANGED <<c2s, registered, virtualIp, seen>>

OnPeerLeave(n) ==
  /\ ClientReads(n, {"peer-leave"})
  /\ peers' = [peers EXCEPT ![n] = @ \ {Head(s2c[n]).node}]
  /\ UNCHANGED <<c2s, registered, virtualIp, seen>>

OnSignal(n) ==
  /\ ClientReads(n, {"signal"})
  /\ seen' = [seen EXCEPT ![n][Head(s2c[n]).from] = IF Head(s2c[n]).early THEN @ ELSE Head(s2c[n]).num]
  /\ UNCHANGED <<c2s, registered, peers, virtualIp>>

\* topology and signal-error leave the client's own state alone (the topology
\* goes to MeshRouter.updateTopology).
OnOther(n) ==
  /\ ClientReads(n, {"topology", "signal-error"})
  /\ UNCHANGED <<c2s, registered, peers, virtualIp, seen>>

-----------------------------------------------------------------------------
Init ==
  /\ nodes = << >>
  /\ virtualIpCounter = FirstIp
  /\ sv = [s \in Sockets |-> "none"]
  /\ registeredAs = {}
  /\ c2s = [s \in Sockets |-> << >>]
  /\ phase = [n \in Nodes |-> "connecting"]
  /\ ws = [n \in Nodes |-> 0]
  /\ registered = [n \in Nodes |-> FALSE]
  /\ peers = [n \in Nodes |-> {}]
  /\ virtualIp = [n \in Nodes |-> Null]
  /\ s2c = [n \in Nodes |-> << >>]
  /\ links = [n \in Nodes |-> {}]
  /\ budget \in Budgets
  /\ sent = [n \in Nodes |-> [m \in Nodes |-> 0]]
  /\ seen = [n \in Nodes |-> [m \in Nodes |-> 0]]

ServerHandles(s) ==
  \/ Register(s) \/ ReRegister(s) \/ GetPeers(s) \/ TopologyUpdate(s) \/ RelaySignal(s)

ClientHandles(n) ==
  \/ OnRegistered(n) \/ OnPeers(n) \/ OnPeerJoin(n) \/ OnPeerLeave(n) \/ OnSignal(n) \/ OnOther(n)

Next ==
  \/ \E s \in Sockets : ServerHandles(s) \/ ServerClose(s)
  \/ \E n \in Nodes :
       \/ Connect(n) \/ ClientClose(n) \/ ReconnectTimer(n)
       \/ Disconnect(n) \/ Restart(n)
       \/ ClientHandles(n)
  \/ \E n, m \in Nodes : SendSignal(n, m) \/ LinkChange(n, m)

Spec == Init /\ [][Next]_vars

(***************************************************************************)
(* Fairness.  Node's event loop runs every handler whose message or timer  *)
(* is there; connect() retries until it succeeds; and once the client has  *)
(* closed its end (or the server has terminated its own) the server end    *)
(* gets its close event.  Nothing is assumed of failures, of the user      *)
(* stopping a node or of what the mesh sends.                              *)
(***************************************************************************)
Fairness ==
  /\ \A s \in Sockets : WF_vars(ServerHandles(s))
                        /\ WF_vars(~ClientOpen(s) /\ ServerClose(s))
  /\ \A n \in Nodes : WF_vars(ClientHandles(n)) /\ WF_vars(Connect(n)) /\ WF_vars(ReconnectTimer(n))

FairSpec == Spec /\ Fairness

-----------------------------------------------------------------------------
(* Properties *)

NodeInfo == [ws : Sockets, virtualIp : Addresses, connectedPeers : SUBSET Nodes]

ToServer ==
  [type : {"register", "get-peers"}]
    \cup [type : {"topology-update"}, connectedTo : SUBSET Nodes]
    \cup [type : {"signal"}, to : Nodes, num : Nat, early : BOOLEAN]

ToClient ==
  [type : {"registered"}, ip : Addresses]
    \cup [type : {"peers"}, peers : SUBSET Nodes]
    \cup [type : {"peer-join", "peer-leave"}, node : Nodes]
    \cup [type : {"signal"}, from : Nodes, num : Nat, early : BOOLEAN]
    \cup [type : {"signal-error"}, to : Nodes]
    \cup [type : {"topology"}, topology : UNION {[S -> SUBSET Nodes] : S \in SUBSET Nodes}]

TypeOK ==
  /\ Registered \subseteq Nodes
  /\ nodes \in [Registered -> NodeInfo]
  /\ virtualIpCounter \in Nat
  /\ sv \in [Sockets -> {"none", "open", "terminated", "closed"}]
  /\ registeredAs \subseteq Sockets
  /\ c2s \in [Sockets -> Seq(ToServer)]
  /\ phase \in [Nodes -> Phases]
  /\ ws \in [Nodes -> Nat]
  /\ registered \in [Nodes -> BOOLEAN]
  /\ peers \in [Nodes -> SUBSET Nodes]
  /\ virtualIp \in [Nodes -> Addresses \cup {Null}]
  /\ s2c \in [Nodes -> Seq(ToClient)]
  /\ links \in [Nodes -> SUBSET Nodes]
  /\ budget \in Bounds
  /\ sent \in [Nodes -> [Nodes -> Nat]]
  /\ seen \in [Nodes -> [Nodes -> Nat]]

\* No two registered nodes have the same virtual address.  This is what the check of
\* _handleRegister is for; it is made of the pinned address alone, so that it fails
\* when the counter comes to a pinned address in use.
UniqueVirtualIps ==
  \A m, n \in Registered : m # n => nodes[m].virtualIp # nodes[n].virtualIp

\* Registered nodes m and n have one address in the registry reg.
Clash(reg, m, n) ==
  {m, n} \subseteq DOMAIN reg /\ m # n /\ reg[m].virtualIp = reg[n].virtualIp

\* The counter has come to a pinned address that m or n has in use.
CounterMeetsPin(m, n) ==
  /\ virtualIpCounter' = virtualIpCounter + 1
  /\ \E k \in {m, n} \cap DOMAIN Pinned \cap Registered :
       nodes[k].virtualIp = Pinned[k] /\ Pinned[k] = virtualIpCounter

\* Wherever the pinned addresses lie, two registered nodes come to share an address
\* in one way only: the counter reaches a pinned address that is in use.  A pinned
\* address is never given out while another node has it, be that one pinned to it
\* too or have it from the counter, and no two nodes share a counted address,
\* whatever the order in which nodes register, are removed and register again.
ClashOnlyByCounter ==
  [][\A m, n \in Nodes : Clash(nodes', m, n) => Clash(nodes, m, n) \/ CounterMeetsPin(m, n)]_vars

\* Where a registered node may have its address from: what ClashOnlyByCounter rests on.
AddressInv ==
  \A n \in Registered :
    \/ n \in DOMAIN Pinned /\ nodes[n].virtualIp = Pinned[n]
    \/ nodes[n].virtualIp \in Nat /\ nodes[n].virtualIp < virtualIpCounter

\* A client that believes it is registered, over a socket the server has open,
\* is in the registry with that very socket: no late close event of one of its
\* older sockets, and no registration still under way on one, takes it out.
RegistrationSurvivesStaleSockets ==
  \A n \in Nodes :
    registered[n] /\ sv[Current(n)] = "open" => n \in Registered /\ nodes[n].ws = Current(n)

\* Its inductive form.  The server has answered n's latest registration: n knows,
\* or the answer is on its way.
IsAnswer(q)    == \E i \in DOMAIN q : q[i].type = "registered"
Answered(n)    == registered[n] \/ IsAnswer(s2c[n])
Holds(n)       == n \in Registered /\ nodes[n].ws = Current(n)
OpenInv ==
  \A n \in Nodes : phase[n] = "open" => Current(n) \in Sockets
RegistrationInv ==
  \A n \in Nodes :
    /\ Answered(n) => phase[n] = "open"
    /\ Answered(n) /\ sv[Current(n)] = "open" => Holds(n)

\* The client has nothing left to read and no answer to wait for.
Quiet(n) ==
  /\ registered[n]
  /\ sv[Current(n)] = "open"
  /\ s2c[n] = << >>
  /\ ~ \E i \in 1 .. Len(c2s[Current(n)]) : c2s[Current(n)][i].type = "get-peers"

\* A registered client that has read everything knows every other registered
\* node: between the answer to get-peers and the peer-join and peer-leave
\* broadcasts no node is lost, in whatever order they were registered.
NoPeerMissed ==
  \A n \in Nodes : Quiet(n) => Registered \ {n} \subseteq peers[n]

\* The signals a registered node sends reach another node in the order they were
\* sent and at most once, also when the sender reconnects between two of them
\* while the server still has its old socket.  (Signals sent before `registered'
\* has come are excepted: the server may read them, and the registration they
\* follow, after those of the next socket.)
SignalsInOrder ==
  [][\A n, m \in Nodes : seen'[n][m] # seen[n][m] => seen'[n][m] > seen[n][m]]_seen

\* A registered client that has read everything and the server agree on the
\* links the client has, once no topology-update is under way.  It holds as long
\* as the node keeps its first socket: nothing is sent again after a
\* reconnection.
TopologyReported ==
  \A n \in Nodes : ws[n] = 1 /\ Quiet(n) /\ c2s[Current(n)] = << >> => nodes[n].connectedPeers = links[n]

\* A client that has read everything and the server agree on who is there and on the links
\* the client has reported.
ViewsAgree == NoPeerMissed /\ TopologyReported

\* A node whose socket stays up gets registered, whatever the sockets it had
\* before are doing; a node that stops for good leaves the registry.
RegistryFollows ==
  \A n \in Nodes :
    /\ <>[](phase[n] = "open" /\ sv[Current(n)] = "open") => <>[]registered[n]
    /\ <>[](phase[n] = "stopped") => <>[](n \notin Registered)
=============================================================================

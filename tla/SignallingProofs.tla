-------------------------- MODULE SignallingProofs --------------------------
(***************************************************************************)
(* Proofs about Signalling, for every set of nodes, every assignment of    *)
(* pinned addresses and every bound.                                       *)
(***************************************************************************)
EXTENDS Signalling, TLAPS

-----------------------------------------------------------------------------
(* Facts about the messages *)

\* A socket is a pair of a node and a number.
LEMMA SocketPair ==
  ASSUME NEW s \in Sockets
  PROVE  s[1] \in Nodes
BY DEF Sockets

\* What _wsSend does keeps the channels to the clients well typed.
LEMMA DeliverType ==
  ASSUME NEW v, NEW S, NEW m \in ToClient, s2c \in [Nodes -> Seq(ToClient)]
  PROVE  Deliver(v, S, m) \in [Nodes -> Seq(ToClient)]
BY DEF Deliver

\* SignallingClient._send keeps the channels to the server well typed.
LEMMA SentType ==
  ASSUME NEW n \in Nodes, NEW m \in ToServer, c2s \in [Sockets -> Seq(ToServer)]
  PROVE  Sent(n, m) \in [Sockets -> Seq(ToServer)]
<1>1. \A x \in Sockets : Append(c2s[x], m) \in Seq(ToServer)
  OBVIOUS
<1>2. [c2s EXCEPT ![Current(n)] = Append(@, m)] \in [Sockets -> Seq(ToServer)]
  BY <1>1
<1> QED
  BY <1>2 DEF Sent

\* The registry without its messages: the answers of _handleRegister.
LEMMA RepliesType ==
  ASSUME NEW v, NEW reg, NEW n \in Nodes, NEW s,
         reg[n].virtualIp \in Addresses, s2c \in [Nodes -> Seq(ToClient)]
  PROVE  RegisterReplies(v, reg, n, s) \in [Nodes -> Seq(ToClient)]
<1>1. [type |-> "peer-join", node |-> n] \in ToClient
  BY DEF ToClient
<1>2. [type |-> "registered", ip |-> reg[n].virtualIp] \in ToClient
  BY DEF ToClient
<1>3. PeerJoin(v, reg, n) \in [Nodes -> Seq(ToClient)]
  BY <1>1, DeliverType DEF PeerJoin
<1> QED
  BY <1>2, <1>3 DEF RegisterReplies

-----------------------------------------------------------------------------
(* Type correctness *)

\* The initial state is well typed.
LEMMA InitType == Init => TypeOK
<1> SUFFICES ASSUME Init PROVE TypeOK
  OBVIOUS
<1>1. Registered = {} /\ nodes \in [Registered -> NodeInfo]
  BY DEF Init, Registered
<1> QED
  BY <1>1, FirstIpAssumption, BudgetsAssumption DEF Init, TypeOK, Phases

\* Every step keeps TypeOK: one step of the proof for every action.
LEMMA NextType == TypeOK /\ [Next]_vars => TypeOK'
<1> SUFFICES ASSUME TypeOK, [Next]_vars PROVE TypeOK'
  OBVIOUS
<1> USE DEF linkVars
<1>1. ASSUME NEW s \in Sockets, Register(s) PROVE TypeOK'
  <2> DEFINE n    == s[1]
             info == [ws |-> s, virtualIp |-> NewAddress(n), connectedPeers |-> {}]
             reg  == [m \in Registered \cup {n} |-> IF m = n THEN info ELSE nodes[m]]
  <2>1. n \in Nodes
    BY SocketPair
  <2>2. NewAddress(n) \in Addresses
    BY DEF NewAddress, PinAvailable, Addresses, TypeOK, Range
  <2>3. info \in NodeInfo
    BY <2>2 DEF NodeInfo
  <2>4. nodes' = reg
    BY <1>1 DEF Register
  <2>5. Registered' = Registered \cup {n}
    BY <2>4 DEF Registered
  <2>6. reg[n] = info /\ info.virtualIp = NewAddress(n)
    OBVIOUS
  <2>7. reg \in [Registered \cup {n} -> NodeInfo]
    BY <2>3 DEF TypeOK
  <2> HIDE DEF reg, info
  <2>8. s2c' = RegisterReplies(sv, reg, n, s)
    BY <1>1 DEF Register, reg, info
  <2>9. s2c' \in [Nodes -> Seq(ToClient)]
    BY <2>1, <2>2, <2>6, <2>8, RepliesType DEF TypeOK
  <2>10. c2s' \in [Sockets -> Seq(ToServer)]
    BY <1>1 DEF Register, ServerReads, TypeOK
  <2>11. virtualIpCounter' \in Nat /\ registeredAs' \subseteq Sockets
    BY <1>1 DEF Register, TypeOK
  <2> QED
    BY <1>1, <2>1, <2>4, <2>5, <2>7, <2>9, <2>10, <2>11 DEF Register, ServerReads, TypeOK
<1>2. ASSUME NEW s \in Sockets, ReRegister(s) PROVE TypeOK'
  <2> DEFINE n   == s[1]
             v   == Terminated(nodes[n].ws, s)
             reg == [nodes EXCEPT ![n].ws = s]
  <2>1. n \in Nodes /\ n \in Registered
    BY <1>2, SocketPair DEF ReRegister
  <2>2. reg \in [Registered -> NodeInfo] /\ reg[n].virtualIp \in Addresses
    <3>1. nodes \in [Registered -> NodeInfo] /\ nodes[n] \in NodeInfo
      BY <2>1 DEF TypeOK
    <3>2. [nodes[n] EXCEPT !.ws = s] \in NodeInfo
      BY <3>1 DEF NodeInfo
    <3>3. reg = [nodes EXCEPT ![n] = [nodes[n] EXCEPT !.ws = s]]
      OBVIOUS
    <3>4. reg \in [Registered -> NodeInfo]
      BY <3>1, <3>2, <3>3
    <3> HIDE DEF reg
    <3> QED
      BY <2>1, <3>4 DEF NodeInfo
  <2>3. v \in [Sockets -> {"none", "open", "terminated", "closed"}]
    BY DEF TypeOK, Terminated
  <2>4. nodes' = reg /\ sv' = v /\ s2c' = RegisterReplies(v, reg, n, s)
    BY <1>2 DEF ReRegister
  <2>5. DOMAIN reg = Registered
    BY <2>2
  <2> HIDE DEF reg, v
  <2>6. Registered' = Registered
    BY <2>4, <2>5 DEF Registered
  <2>7. s2c' \in [Nodes -> Seq(ToClient)]
    BY <2>1, <2>2, <2>4, RepliesType DEF TypeOK
  <2>8. c2s' \in [Sockets -> Seq(ToServer)]
    BY <1>2 DEF ReRegister, ServerReads, TypeOK
  <2> QED
    BY <1>2, <2>2, <2>3, <2>4, <2>6, <2>7, <2>8 DEF ReRegister, ServerReads, TypeOK
<1>3. ASSUME NEW s \in Sockets, GetPeers(s) PROVE TypeOK'
  <2>1. [type |-> "peers", peers |-> Registered \ {s[1]}] \in ToClient
    BY DEF TypeOK, ToClient
  <2>2. s2c' \in [Nodes -> Seq(ToClient)]
    BY <1>3, <2>1, DeliverType DEF GetPeers, TypeOK
  <2>3. c2s' \in [Sockets -> Seq(ToServer)]
    BY <1>3 DEF GetPeers, ServerReads, TypeOK
  <2> QED
    BY <1>3, <2>2, <2>3 DEF GetPeers, ServerReads, serverVars, TypeOK, Registered
<1>4. ASSUME NEW s \in Sockets, TopologyUpdate(s) PROVE TypeOK'
  <2> DEFINE n   == s[1]
             reg == [nodes EXCEPT ![n].connectedPeers = Head(c2s[s]).connectedTo]
  <2>1. Head(c2s[s]) \in ToServer /\ Head(c2s[s]).type = "topology-update"
    BY <1>4 DEF TopologyUpdate, ServerReads, TypeOK
  <2>2. Head(c2s[s]).connectedTo \in SUBSET Nodes
    BY <2>1 DEF ToServer
  <2>3. c2s' \in [Sockets -> Seq(ToServer)]
    BY <1>4 DEF TopologyUpdate, ServerReads, TypeOK
  <2>4. CASE s \in registeredAs /\ n \in Registered
    <3>1. reg \in [Registered -> NodeInfo] /\ DOMAIN reg = Registered
      <4>1. nodes \in [Registered -> NodeInfo] /\ nodes[n] \in NodeInfo
        BY <2>4 DEF TypeOK
      <4>2. [nodes[n] EXCEPT !.connectedPeers = Head(c2s[s]).connectedTo] \in NodeInfo
        BY <2>2, <4>1 DEF NodeInfo
      <4>3. reg = [nodes EXCEPT ![n] = [nodes[n] EXCEPT !.connectedPeers = Head(c2s[s]).connectedTo]]
        OBVIOUS
      <4> QED
        BY <4>1, <4>2, <4>3
    <3>2. Topology(reg) \in ToClient
      <4>1. [m \in DOMAIN reg |-> reg[m].connectedPeers] \in [Registered -> SUBSET Nodes]
        BY <3>1 DEF NodeInfo
      <4> QED
        BY <4>1 DEF Topology, ToClient, TypeOK
    <3>3. nodes' = reg /\ s2c' = Deliver(sv, SocketsOf(reg, Nodes), Topology(reg))
      BY <1>4, <2>4 DEF TopologyUpdate
    <3>4. s2c' \in [Nodes -> Seq(ToClient)]
      BY <3>2, <3>3, DeliverType DEF TypeOK
    <3>5. Registered' = Registered
      BY <3>1, <3>3 DEF Registered
    <3> HIDE DEF reg
    <3> QED
      BY <1>4, <2>3, <3>1, <3>3, <3>4, <3>5 DEF TopologyUpdate, ServerReads, TypeOK
  <2>5. CASE ~(s \in registeredAs /\ n \in Registered)
    BY <1>4, <2>3, <2>5 DEF TopologyUpdate, ServerReads, TypeOK, Registered
  <2> QED
    BY <2>4, <2>5
<1>5. ASSUME NEW s \in Sockets, RelaySignal(s) PROVE TypeOK'
  <2> DEFINE m == Head(c2s[s])
  <2>1. m \in ToServer /\ m.type = "signal" /\ s[1] \in Nodes
    BY <1>5, SocketPair DEF RelaySignal, ServerReads, TypeOK
  <2>2. m.to \in Nodes /\ m.num \in Nat /\ m.early \in BOOLEAN
    BY <2>1 DEF ToServer
  <2>3. /\ [type |-> "signal", from |-> s[1], num |-> m.num, early |-> m.early] \in ToClient
        /\ [type |-> "signal-error", to |-> m.to] \in ToClient
    BY <2>1, <2>2 DEF ToClient
  <2>4. s2c' \in [Nodes -> Seq(ToClient)]
    <3>1. \/ s2c' = s2c
          \/ s2c' = Deliver(sv, {nodes[m.to].ws},
                            [type |-> "signal", from |-> s[1], num |-> m.num, early |-> m.early])
          \/ s2c' = Deliver(sv, {nodes[s[1]].ws}, [type |-> "signal-error", to |-> m.to])
      BY <1>5 DEF RelaySignal
    <3> QED
      BY <2>3, <3>1, DeliverType DEF TypeOK
  <2>5. c2s' \in [Sockets -> Seq(ToServer)]
    BY <1>5 DEF RelaySignal, ServerReads, TypeOK
  <2> QED
    BY <1>5, <2>4, <2>5 DEF RelaySignal, ServerReads, serverVars, TypeOK, Registered
<1>6. ASSUME NEW s \in Sockets, ServerClose(s) PROVE TypeOK'
  <2> DEFINE n   == s[1]
             reg == [m \in Registered \ {n} |-> nodes[m]]
             v   == [sv EXCEPT ![s] = "closed"]
  <2>1. n \in Nodes
    BY SocketPair
  <2>2. c2s' \in [Sockets -> Seq(ToServer)] /\ sv' \in [Sockets -> {"none", "open", "terminated", "closed"}]
    BY <1>6 DEF ServerClose, TypeOK
  <2>3. CASE CurrentSocketOf(s)
    <3>1. [type |-> "peer-leave", node |-> n] \in ToClient
      BY <2>1 DEF ToClient
    <3>2. nodes' = reg /\ s2c' = Deliver(v, SocketsOf(reg, Nodes), [type |-> "peer-leave", node |-> n])
      BY <1>6, <2>3 DEF ServerClose
    <3>3. s2c' \in [Nodes -> Seq(ToClient)]
      BY <3>1, <3>2, DeliverType DEF TypeOK
    <3>4. Registered' = Registered \ {n} /\ nodes' \in [Registered \ {n} -> NodeInfo]
      BY <3>2 DEF Registered, TypeOK
    <3> QED
      BY <1>6, <2>2, <3>3, <3>4 DEF ServerClose, TypeOK
  <2>4. CASE ~CurrentSocketOf(s)
    BY <1>6, <2>2, <2>4 DEF ServerClose, TypeOK, Registered
  <2> QED
    BY <2>3, <2>4
<1>7. ASSUME NEW n \in Nodes, Connect(n) PROVE TypeOK'
  <2>1. <<[type |-> "register"]>> \in Seq(ToServer)
    BY DEF ToServer
  <2>2. c2s' \in [Sockets -> Seq(ToServer)]
    BY <1>7, <2>1 DEF Connect, TypeOK
  <2> QED
    BY <1>7, <2>2, SMTT(30) DEF Connect, TypeOK, Registered, Phases
<1>8. ASSUME NEW n \in Nodes, ClientClose(n) \/ ReconnectTimer(n) \/ Disconnect(n) \/ Restart(n)
      PROVE  TypeOK'
  <2>1. CASE ClientClose(n)
    BY <2>1 DEF ClientClose, serverVars, TypeOK, Registered, Phases
  <2>2. CASE ReconnectTimer(n)
    BY <2>2 DEF ReconnectTimer, serverVars, TypeOK, Registered, Phases
  <2>3. CASE Disconnect(n)
    BY <2>3 DEF Disconnect, serverVars, TypeOK, Registered, Phases
  <2>4. CASE Restart(n)
    BY <2>4 DEF Restart, serverVars, TypeOK, Registered, Phases
  <2> QED
    BY <1>8, <2>1, <2>2, <2>3, <2>4
<1>9. ASSUME NEW n \in Nodes, NEW m \in Nodes, SendSignal(n, m) PROVE TypeOK'
  <2>1. [type |-> "signal", to |-> m, num |-> sent[n][m] + 1, early |-> ~registered[n]] \in ToServer
    BY DEF ToServer, TypeOK
  <2>2. c2s' \in [Sockets -> Seq(ToServer)]
    BY <1>9, <2>1, SentType DEF SendSignal, TypeOK
  <2>3. sent' \in [Nodes -> [Nodes -> Nat]]
    <3>1. [sent[n] EXCEPT ![m] = sent[n][m] + 1] \in [Nodes -> Nat]
      BY DEF TypeOK
    <3>2. sent' = [sent EXCEPT ![n] = [sent[n] EXCEPT ![m] = sent[n][m] + 1]]
      BY <1>9 DEF SendSignal
    <3> QED
      BY <3>1, <3>2 DEF TypeOK
  <2> QED
    BY <1>9, <2>2, <2>3 DEF SendSignal, serverVars, TypeOK, Registered
<1>10. ASSUME NEW n \in Nodes, NEW m \in Nodes, LinkChange(n, m) PROVE TypeOK'
  <2> DEFINE now == IF m \in links[n] THEN links[n] \ {m} ELSE links[n] \cup {m}
  <2>1. now \in SUBSET Nodes
    BY DEF TypeOK
  <2>2. links' = [links EXCEPT ![n] = now] /\ c2s' = Sent(n, LinkReport(n, now))
    BY <1>10 DEF LinkChange
  <2> HIDE DEF now
  <2>3. LinkReport(n, now) \in ToServer
    BY <2>1 DEF LinkReport, ToServer
  <2>4. c2s' \in [Sockets -> Seq(ToServer)]
    BY <2>2, <2>3, SentType DEF TypeOK
  <2>5. links' \in [Nodes -> SUBSET Nodes]
    BY <2>1, <2>2 DEF TypeOK
  <2>6. budget' \in Bounds
    <3>1. budget \in Bounds /\ budget.links > 0 /\ budget' = [budget EXCEPT !.links = @ - 1]
      BY <1>10 DEF LinkChange, TypeOK
    <3>2. budget.links - 1 \in Nat
      BY <3>1 DEF Bounds
    <3> QED
      BY <3>1, <3>2 DEF Bounds
  <2> QED
    BY <1>10, <2>4, <2>5, <2>6 DEF LinkChange, serverVars, TypeOK, Registered
<1>11. ASSUME NEW n \in Nodes, ClientHandles(n) PROVE TypeOK'
  <2> DEFINE m == Head(s2c[n])
  <2>1. /\ m \in ToClient
        /\ s2c' \in [Nodes -> Seq(ToClient)]
        /\ UNCHANGED <<serverVars, phase, ws, linkVars, sent>>
    <3>1. \E t : ClientReads(n, t)
      BY <1>11 DEF ClientHandles, OnRegistered, OnPeers, OnPeerJoin, OnPeerLeave, OnSignal, OnOther
    <3> QED
      BY <3>1 DEF ClientReads, TypeOK
  <2>2. CASE OnRegistered(n)
    <3>1. m.ip \in Addresses
      BY <2>1, <2>2 DEF OnRegistered, ClientReads, ToClient
    <3>2. [type |-> "get-peers"] \in ToServer
      BY DEF ToServer
    <3>3. c2s' \in [Sockets -> Seq(ToServer)]
      BY <2>2, <3>2, SentType DEF OnRegistered, TypeOK
    <3> QED
      BY <2>1, <2>2, <3>1, <3>3 DEF OnRegistered, serverVars, TypeOK, Registered
  <2>3. CASE OnPeers(n)
    <3>1. m.peers \in SUBSET Nodes
      BY <2>1, <2>3 DEF OnPeers, ClientReads, ToClient
    <3> QED
      BY <2>1, <2>3, <3>1 DEF OnPeers, serverVars, TypeOK, Registered
  <2>4. CASE OnPeerJoin(n) \/ OnPeerLeave(n)
    <3>1. m.node \in Nodes
      BY <2>1, <2>4 DEF OnPeerJoin, OnPeerLeave, ClientReads, ToClient
    <3>2. peers[n] \cup {m.node} \in SUBSET Nodes /\ peers[n] \ {m.node} \in SUBSET Nodes
      BY <3>1 DEF TypeOK
    <3>3. peers' \in [Nodes -> SUBSET Nodes]
      BY <2>4, <3>2 DEF OnPeerJoin, OnPeerLeave, TypeOK
    <3>4. UNCHANGED <<c2s, registered, virtualIp, seen>>
      BY <2>4 DEF OnPeerJoin, OnPeerLeave
    <3> QED
      BY <2>1, <3>3, <3>4 DEF serverVars, TypeOK, Registered
  <2>5. CASE OnSignal(n)
    <3>1. m.from \in Nodes /\ m.num \in Nat
      BY <2>1, <2>5 DEF OnSignal, ClientReads, ToClient
    <3> DEFINE v == IF m.early THEN seen[n][m.from] ELSE m.num
    <3>2. seen' = [seen EXCEPT ![n] = [seen[n] EXCEPT ![m.from] = v]] /\ UNCHANGED <<c2s, registered, peers, virtualIp>>
      BY <2>5 DEF OnSignal
    <3>3. seen \in [Nodes -> [Nodes -> Nat]] /\ seen[n] \in [Nodes -> Nat]
      BY DEF TypeOK
    <3>4. v \in Nat
      BY <3>1, <3>3
    <3> HIDE DEF v
    <3>5. [seen[n] EXCEPT ![m.from] = v] \in [Nodes -> Nat]
      BY <3>3, <3>4
    <3>6. seen' \in [Nodes -> [Nodes -> Nat]]
      BY <3>2, <3>3, <3>5
    <3> QED
      BY <2>1, <3>2, <3>6 DEF serverVars, TypeOK, Registered
  <2>6. CASE OnOther(n)
    BY <2>1, <2>6 DEF OnOther, serverVars, TypeOK, Registered
  <2> QED
    BY <1>11, <2>2, <2>3, <2>4, <2>5, <2>6 DEF ClientHandles
<1>12. CASE UNCHANGED vars
  BY <1>12 DEF vars, serverVars, TypeOK, Registered
<1> QED
  BY <1>1, <1>2, <1>3, <1>4, <1>5, <1>6, <1>7, <1>8, <1>9, <1>10, <1>11, <1>12
     DEF Next, ServerHandles

\* Every state of the control plane is well typed: what the server and the clients
\* keep and all messages under way between them.
THEOREM TypeCorrect == Spec => []TypeOK
BY InitType, NextType, PTL DEF Spec

-----------------------------------------------------------------------------
(* Addresses *)

\* What every step but a registration does to the addresses: a node keeps the one
\* it has, or leaves.
KeepsAddresses ==
  /\ Registered' \subseteq Registered
  /\ \A m \in Registered' : nodes'[m].virtualIp = nodes[m].virtualIp
  /\ virtualIpCounter' = virtualIpCounter

\* A step that assigns no address keeps the address invariant.
LEMMA KeepAddresses == AddressInv /\ KeepsAddresses => AddressInv'
BY DEF AddressInv, KeepsAddresses

\* Only _handleRegister for an unknown node hands out an address.
LEMMA OthersKeepAddresses ==
  ASSUME TypeOK, [Next]_vars, ~ \E s \in Sockets : Register(s)
  PROVE  KeepsAddresses
<1>1. ASSUME NEW s \in Sockets, ReRegister(s) PROVE KeepsAddresses
  <2>1. s[1] \in Registered /\ nodes[s[1]] \in NodeInfo /\ nodes \in [Registered -> NodeInfo]
    BY <1>1 DEF ReRegister, TypeOK
  <2>2. [nodes[s[1]] EXCEPT !.ws = s].virtualIp = nodes[s[1]].virtualIp
    BY <2>1 DEF NodeInfo
  <2>3. nodes' = [nodes EXCEPT ![s[1]] = [nodes[s[1]] EXCEPT !.ws = s]]
    BY <1>1 DEF ReRegister
  <2>4. virtualIpCounter' = virtualIpCounter
    BY <1>1 DEF ReRegister
  <2> QED
    BY <2>1, <2>2, <2>3, <2>4 DEF KeepsAddresses, Registered
<1>2. ASSUME NEW s \in Sockets, TopologyUpdate(s) PROVE KeepsAddresses
  <2> DEFINE to == Head(c2s[s]).connectedTo
  <2>1. virtualIpCounter' = virtualIpCounter
    BY <1>2 DEF TopologyUpdate
  <2>2. CASE s \in registeredAs /\ s[1] \in Registered
    <3>1. nodes[s[1]] \in NodeInfo /\ nodes \in [Registered -> NodeInfo]
      BY <2>2 DEF TypeOK
    <3>2. [nodes[s[1]] EXCEPT !.connectedPeers = to].virtualIp = nodes[s[1]].virtualIp
      BY <3>1 DEF NodeInfo
    <3>3. nodes' = [nodes EXCEPT ![s[1]] = [nodes[s[1]] EXCEPT !.connectedPeers = to]]
      BY <1>2, <2>2 DEF TopologyUpdate
    <3> QED
      BY <2>1, <3>1, <3>2, <3>3 DEF KeepsAddresses, Registered
  <2>3. CASE ~(s \in registeredAs /\ s[1] \in Registered)
    BY <1>2, <2>1, <2>3 DEF TopologyUpdate, KeepsAddresses, Registered
  <2> QED
    BY <2>2, <2>3
<1>3. ASSUME NEW s \in Sockets, ServerClose(s) PROVE KeepsAddresses
  <2>1. CASE CurrentSocketOf(s)
    <3>1. nodes' = [m \in Registered \ {s[1]} |-> nodes[m]]
      BY <1>3, <2>1 DEF ServerClose
    <3>2. virtualIpCounter' = virtualIpCounter
      BY <1>3 DEF ServerClose
    <3> QED
      BY <3>1, <3>2 DEF KeepsAddresses, Registered
  <2>2. CASE ~CurrentSocketOf(s)
    BY <1>3, <2>2 DEF ServerClose, KeepsAddresses, Registered
  <2> QED
    BY <2>1, <2>2
<1>4. ASSUME UNCHANGED <<nodes, virtualIpCounter>> PROVE KeepsAddresses
  BY <1>4 DEF KeepsAddresses, Registered
<1>5. ASSUME NEW s \in Sockets, GetPeers(s) \/ RelaySignal(s) PROVE KeepsAddresses
  BY <1>4, <1>5 DEF GetPeers, RelaySignal, serverVars
<1>6. ASSUME NEW n \in Nodes,
             \/ Connect(n) \/ ClientClose(n) \/ ReconnectTimer(n) \/ Disconnect(n) \/ Restart(n)
             \/ \E m \in Nodes : SendSignal(n, m) \/ LinkChange(n, m)
      PROVE  KeepsAddresses
  BY <1>4, <1>6 DEF Connect, ClientClose, ReconnectTimer, Disconnect, Restart, SendSignal, LinkChange,
                    serverVars
<1>7. ASSUME NEW n \in Nodes, ClientHandles(n) PROVE KeepsAddresses
  <2>1. \E t : ClientReads(n, t)
    BY <1>7 DEF ClientHandles, OnRegistered, OnPeers, OnPeerJoin, OnPeerLeave, OnSignal, OnOther
  <2> QED
    BY <1>4, <2>1 DEF ClientReads, serverVars
<1>8. CASE UNCHANGED vars
  BY <1>4, <1>8 DEF vars, serverVars
<1> QED
  BY <1>1, <1>2, <1>3, <1>5, <1>6, <1>7, <1>8 DEF Next, ServerHandles

\* What a new registration does: its address is the pinned one, which nobody has, or
\* the counter's, which the counter leaves behind.
LEMMA RegisterAddress ==
  ASSUME TypeOK, NEW s \in Sockets, Register(s)
  PROVE  /\ s[1] \notin Registered
         /\ Registered' = Registered \cup {s[1]}
         /\ \A m \in Registered : nodes'[m] = nodes[m]
         /\ \/ /\ s[1] \in DOMAIN Pinned /\ nodes'[s[1]].virtualIp = Pinned[s[1]]
               /\ \A m \in Registered : nodes[m].virtualIp # Pinned[s[1]]
               /\ virtualIpCounter' = virtualIpCounter
            \/ /\ nodes'[s[1]].virtualIp = virtualIpCounter
               /\ virtualIpCounter' = virtualIpCounter + 1
<1> DEFINE n == s[1]
<1>1. n \notin Registered
  BY DEF Register
<1>2. /\ Registered' = Registered \cup {n}
      /\ nodes'[n].virtualIp = NewAddress(n)
      /\ \A m \in Registered : nodes'[m] = nodes[m]
  BY <1>1 DEF Register, Registered
<1>3. CASE PinAvailable(n)
  <2>1. NewAddress(n) = Pinned[n] /\ n \in DOMAIN Pinned /\ virtualIpCounter' = virtualIpCounter
    BY <1>3 DEF NewAddress, PinAvailable, Register
  <2>2. \A m \in Registered : nodes[m].virtualIp # Pinned[n]
    BY <1>1, <1>3 DEF PinAvailable
  <2> QED
    BY <1>1, <1>2, <2>1, <2>2
<1>4. CASE ~PinAvailable(n)
  <2>1. NewAddress(n) = virtualIpCounter /\ virtualIpCounter' = virtualIpCounter + 1
    BY <1>4 DEF NewAddress, Register
  <2> QED
    BY <1>1, <1>2, <2>1
<1> QED
  BY <1>3, <1>4

\* A new registration keeps every address a pin of its node or behind the counter.
LEMMA RegisterKeepsAddressInv ==
  ASSUME TypeOK, AddressInv, NEW s \in Sockets, Register(s)
  PROVE  AddressInv'
<1> DEFINE From(m) == \/ m \in DOMAIN Pinned /\ nodes'[m].virtualIp = Pinned[m]
                      \/ nodes'[m].virtualIp \in Nat /\ nodes'[m].virtualIp < virtualIpCounter'
<1>1. virtualIpCounter \in Nat
  BY DEF TypeOK
<1>2. From(s[1])
  BY <1>1, RegisterAddress
<1>3. ASSUME NEW m \in Registered PROVE From(m)
  <2>1. nodes'[m] = nodes[m]
    BY RegisterAddress
  <2>2. virtualIpCounter' \in {virtualIpCounter, virtualIpCounter + 1}
    BY RegisterAddress
  <2> QED
    BY <1>1, <2>1, <2>2 DEF AddressInv
<1>4. Registered' = Registered \cup {s[1]}
  BY RegisterAddress
<1> QED
  BY <1>2, <1>3, <1>4 DEF AddressInv

\* A new registration shares its address with nobody, unless the counter has come to a
\* pinned address in use.
LEMMA RegisterClash ==
  ASSUME TypeOK, AddressInv, NEW s \in Sockets, Register(s),
         NEW m \in Registered, nodes'[s[1]].virtualIp = nodes'[m].virtualIp
  PROVE  /\ virtualIpCounter' = virtualIpCounter + 1
         /\ m \in DOMAIN Pinned /\ nodes[m].virtualIp = Pinned[m] /\ Pinned[m] = virtualIpCounter
<1>1. virtualIpCounter \in Nat
  BY DEF TypeOK
<1>2. nodes'[m] = nodes[m]
  BY RegisterAddress
<1>3. nodes[m].virtualIp = virtualIpCounter /\ virtualIpCounter' = virtualIpCounter + 1
  BY <1>2, RegisterAddress
<1>4. ~(nodes[m].virtualIp < virtualIpCounter)
  BY <1>1, <1>3
<1> QED
  BY <1>3, <1>4 DEF AddressInv

\* Wherever the pinned addresses lie and in whatever order nodes register, leave and
\* register again, two registered nodes come to share an address in one way only: the
\* counter reaches a pinned address in use (_handleRegister's check is of the pins).
THEOREM SharedByCounterAlone == Spec => ClashOnlyByCounter
<1>1. Init => AddressInv
  BY DEF Init, AddressInv, Registered
<1>2. TypeOK /\ AddressInv /\ [Next]_vars => AddressInv'
  BY KeepAddresses, OthersKeepAddresses, RegisterKeepsAddressInv
<1> DEFINE OnlyByCounter ==
      \A m, n \in Nodes : Clash(nodes', m, n) => Clash(nodes, m, n) \/ CounterMeetsPin(m, n)
<1>3. TypeOK /\ AddressInv /\ [Next]_vars => [OnlyByCounter]_vars
  <2> SUFFICES ASSUME TypeOK, AddressInv, [Next]_vars, NEW m \in Nodes, NEW n \in Nodes,
                      Clash(nodes', m, n), ~Clash(nodes, m, n)
               PROVE  CounterMeetsPin(m, n)
    OBVIOUS
  <2>1. /\ m \in Registered' /\ n \in Registered' /\ m # n
        /\ nodes'[m].virtualIp = nodes'[n].virtualIp
    BY DEF Clash, Registered
  <2>2. m \in Registered /\ n \in Registered => nodes[m].virtualIp # nodes[n].virtualIp
    BY <2>1 DEF Clash, Registered
  <2>3. ~KeepsAddresses
    BY <2>1, <2>2 DEF KeepsAddresses
  <2>4. PICK s \in Sockets : Register(s)
    BY <2>3, OthersKeepAddresses
  <2>5. m \in Registered \/ n \in Registered
    BY <2>1, <2>4, RegisterAddress
  <2>6. ~(m \in Registered /\ n \in Registered)
    BY <2>1, <2>2, <2>4, RegisterAddress
  <2>7. CASE m \in Registered
    <3>1. n = s[1]
      BY <2>1, <2>4, <2>6, <2>7, RegisterAddress
    <3> QED
      BY <2>1, <2>4, <2>7, <3>1, RegisterClash DEF CounterMeetsPin
  <2>8. CASE n \in Registered
    <3>1. m = s[1]
      BY <2>1, <2>4, <2>6, <2>8, RegisterAddress
    <3> QED
      BY <2>1, <2>4, <2>8, <3>1, RegisterClash DEF CounterMeetsPin
  <2> QED
    BY <2>5, <2>7, <2>8
<1> QED
  BY <1>1, <1>2, <1>3, TypeCorrect, PTL DEF Spec, ClashOnlyByCounter

-----------------------------------------------------------------------------
(* Registrations *)

\* A message of another type brings no answer; reading a message brings none.
LEMMA NoAnswerAppended ==
  ASSUME NEW q \in Seq(ToClient), NEW m \in ToClient, m.type # "registered", IsAnswer(Append(q, m))
  PROVE  IsAnswer(q)
BY DEF IsAnswer

\* An answer among what is left of a queue was in the queue.
LEMMA NoAnswerTaken ==
  ASSUME NEW q \in Seq(ToClient), q # << >>, IsAnswer(Tail(q))
  PROVE  IsAnswer(q)
<1>1. PICK i \in DOMAIN Tail(q) : Tail(q)[i].type = "registered"
  BY DEF IsAnswer
<1>2. i + 1 \in DOMAIN q /\ q[i + 1] = Tail(q)[i]
  OBVIOUS
<1> QED
  BY <1>1, <1>2 DEF IsAnswer

\* A broadcast of anything but an answer delivers none.
LEMMA NoAnswerDelivered ==
  ASSUME TypeOK, NEW v, NEW S, NEW m \in ToClient, m.type # "registered", NEW n \in Nodes,
         IsAnswer(Deliver(v, S, m)[n])
  PROVE  IsAnswer(s2c[n])
<1>1. s2c[n] \in Seq(ToClient)
  BY DEF TypeOK
<1>2. Deliver(v, S, m)[n] \in {s2c[n], Append(s2c[n], m)}
  BY DEF Deliver
<1> QED
  BY <1>1, <1>2, NoAnswerAppended

\* A step that answers nobody, opens no socket and leaves the entries of the nodes
\* with an answered, open socket as they are keeps RegistrationInv.
Undisturbed(n) ==
  /\ Answered(n)' => Answered(n) /\ phase'[n] = "open" /\ ws'[n] = ws[n]
  /\ Answered(n)' /\ sv'[Current(n)] = "open" => sv[Current(n)] = "open"
  /\ Answered(n)' /\ sv'[Current(n)] = "open" /\ Holds(n) =>
       n \in Registered' /\ nodes'[n].ws = nodes[n].ws

\* What a step does not touch of a node keeps its registration safe.
LEMMA UndisturbedKeeps ==
  ASSUME RegistrationInv, NEW n \in Nodes, Undisturbed(n)
  PROVE  /\ Answered(n)' => phase'[n] = "open"
         /\ Answered(n)' /\ sv'[Current(n)'] = "open" => Holds(n)'
<1>1. Answered(n)' => Current(n)' = Current(n)
  BY DEF Undisturbed, Current
<1> QED
  BY <1>1 DEF Undisturbed, RegistrationInv, Holds

\* A client with an open connection has one of its sockets.
LEMMA NextOpen == TypeOK /\ OpenInv /\ [Next]_vars => OpenInv'
<1> SUFFICES ASSUME TypeOK, OpenInv, [Next]_vars PROVE OpenInv'
  OBVIOUS
<1>1. ASSUME NEW n \in Nodes, Connect(n) PROVE OpenInv'
  <2>1. ws'[n] = ws[n] + 1 /\ ws[n] \in Nat /\ ws[n] < MaxSockets
    BY <1>1, MaxSocketsAssumption DEF Connect, TypeOK, Bounds
  <2>2. ws'[n] \in 1 .. MaxSockets
    BY <2>1, MaxSocketsAssumption
  <2>3. <<n, ws'[n]>> \in Sockets
    BY <2>2 DEF Sockets
  <2>4. \A m \in Nodes \ {n} : phase'[m] = phase[m] /\ ws'[m] = ws[m]
    BY <1>1 DEF Connect, TypeOK
  <2> QED
    BY <2>3, <2>4 DEF OpenInv, Current
<1>2. ASSUME ws' = ws, \A n \in Nodes : phase'[n] = "open" => phase[n] = "open" PROVE OpenInv'
  BY <1>2 DEF OpenInv, Current
<1>3. ASSUME NEW s \in Sockets, ServerHandles(s) \/ ServerClose(s) PROVE OpenInv'
  <2>1. UNCHANGED <<phase, ws>>
    BY <1>3 DEF ServerHandles, Register, ReRegister, GetPeers, TopologyUpdate, RelaySignal,
                ServerReads, ServerClose
  <2> QED
    BY <1>2, <2>1
<1>4. ASSUME NEW n \in Nodes, ClientClose(n) \/ ReconnectTimer(n) \/ Disconnect(n) \/ Restart(n)
      PROVE  OpenInv'
  <2>1. ws' = ws /\ \E p \in Phases \ {"open"} : phase' = [phase EXCEPT ![n] = p]
    BY <1>4 DEF ClientClose, ReconnectTimer, Disconnect, Restart, Phases
  <2> QED
    BY <1>2, <2>1 DEF TypeOK
<1>5. ASSUME NEW n \in Nodes, ClientHandles(n) PROVE OpenInv'
  <2>1. \E t : ClientReads(n, t)
    BY <1>5 DEF ClientHandles, OnRegistered, OnPeers, OnPeerJoin, OnPeerLeave, OnSignal, OnOther
  <2> QED
    BY <1>2, <2>1 DEF ClientReads
<1>6. ASSUME NEW n \in Nodes, NEW m \in Nodes, SendSignal(n, m) \/ LinkChange(n, m) PROVE OpenInv'
  BY <1>2, <1>6 DEF SendSignal, LinkChange
<1>7. CASE UNCHANGED vars
  BY <1>2, <1>7 DEF vars
<1> QED
  BY <1>1, <1>3, <1>4, <1>5, <1>6, <1>7 DEF Next

\* The two cases of _handleRegister.  If s is the socket the client has now, the
\* entry is given to it; if s is an old one, the entry is not answered for, or its
\* socket is terminated.
LEMMA RegisterKeepsRegistration ==
  ASSUME TypeOK, OpenInv, RegistrationInv, NEW s \in Sockets, Register(s) \/ ReRegister(s),
         NEW m \in Nodes
  PROVE  /\ Answered(m)' => phase'[m] = "open"
         /\ Answered(m)' /\ sv'[Current(m)'] = "open" => Holds(m)'
<1> DEFINE n == s[1]
<1>1. n \in Nodes /\ s = <<s[1], s[2]>>
  BY SocketPair DEF Sockets
<1>2. UNCHANGED <<phase, ws, registered>> /\ Current(m)' = Current(m)
  BY DEF Register, ReRegister, ServerReads, Current
<1>3. /\ n \in Registered' /\ nodes'[n].ws = s
      /\ \A k \in Registered \ {n} : k \in Registered' /\ nodes'[k] = nodes[k]
  <2>1. CASE Register(s)
    BY <2>1 DEF Register, Registered
  <2>2. CASE ReRegister(s)
    <3>1. n \in Registered /\ nodes \in [Registered -> NodeInfo] /\ nodes[n] \in NodeInfo
      BY <2>2 DEF ReRegister, TypeOK
    <3>2. nodes' = [nodes EXCEPT ![n] = [nodes[n] EXCEPT !.ws = s]]
      BY <2>2 DEF ReRegister
    <3>3. [nodes[n] EXCEPT !.ws = s].ws = s
      BY <3>1 DEF NodeInfo
    <3> QED
      BY <3>1, <3>2, <3>3 DEF Registered
  <2> QED
    BY <2>1, <2>2
<1>4. \A k \in Sockets : sv'[k] = "open" => sv[k] = "open"
  BY DEF Register, ReRegister, Terminated, TypeOK
<1>5. phase[m] = "open" /\ sv'[Current(m)] = "open" => sv[Current(m)] = "open"
  BY <1>4 DEF OpenInv
<1>6. PICK v, reg : s2c' = RegisterReplies(v, reg, n, s)
  <2>1. Register(s) => \E v, reg : s2c' = RegisterReplies(v, reg, n, s)
    BY DEF Register
  <2>2. ReRegister(s) => \E v, reg : s2c' = RegisterReplies(v, reg, n, s)
    BY DEF ReRegister
  <2> QED
    BY <2>1, <2>2
<1>7. PeerJoin(v, reg, n) \in [Nodes -> Seq(ToClient)]
      /\ (IsAnswer(PeerJoin(v, reg, n)[m]) => IsAnswer(s2c[m]))
  <2>1. [type |-> "peer-join", node |-> n] \in ToClient
    BY <1>1 DEF ToClient
  <2> QED
    BY <2>1, DeliverType, NoAnswerDelivered DEF PeerJoin, TypeOK
<1>8. CASE m # n
  <2>1. s2c'[m] = PeerJoin(v, reg, n)[m]
    BY <1>6, <1>7, <1>8 DEF RegisterReplies
  <2>2. Undisturbed(m)
    BY <1>2, <1>3, <1>5, <1>7, <1>8, <2>1 DEF Undisturbed, Answered, Holds, RegistrationInv
  <2> QED
    BY <2>2, UndisturbedKeeps
<1>9. CASE m = n /\ ClientOpen(s)
  <2>1. s = Current(n) /\ phase[n] = "open"
    BY <1>9 DEF ClientOpen
  <2> QED
    BY <1>2, <1>3, <1>9, <2>1 DEF Holds
<1>10. CASE m = n /\ ~ClientOpen(s)
  <2>1. s2c'[n] = PeerJoin(v, reg, n)[n]
    BY <1>1, <1>6, <1>7, <1>10 DEF RegisterReplies
  <2>2. Answered(n)' => Answered(n) /\ phase[n] = "open"
    BY <1>2, <1>7, <1>10, <2>1 DEF Answered, RegistrationInv
  <2>3. Answered(n)' => s # Current(n)
    BY <1>10, <2>2 DEF ClientOpen
  <2>4. ASSUME Answered(n)', sv'[Current(n)] = "open" PROVE FALSE
    <3>1. n \in Registered /\ nodes[n].ws = Current(n)
      BY <1>1, <1>5, <1>10, <2>2, <2>4 DEF RegistrationInv, Holds
    <3>2. ReRegister(s)
      BY <3>1 DEF Register
    <3>3. Current(n) \in Sockets
      BY <3>1 DEF TypeOK, NodeInfo
    <3>4. sv'[Current(n)] # "open"
      BY <2>3, <2>4, <3>1, <3>2, <3>3 DEF ReRegister, Terminated, TypeOK
    <3> QED
      BY <2>4, <3>4
  <2> QED
    BY <1>2, <1>10, <2>2, <2>4
<1> QED
  BY <1>8, <1>9, <1>10

\* Every other step is such a one.
LEMMA NextUndisturbed ==
  ASSUME TypeOK, OpenInv, RegistrationInv, [Next]_vars, NEW m \in Nodes,
         \A s \in Sockets : ~Register(s) /\ ~ReRegister(s)
  PROVE  Undisturbed(m)
<1>2. ASSUME NEW s \in Sockets, GetPeers(s) PROVE Undisturbed(m)
  <2>1. [type |-> "peers", peers |-> Registered \ {s[1]}] \in ToClient
    BY DEF TypeOK, ToClient
  <2>2. IsAnswer(s2c'[m]) => IsAnswer(s2c[m])
    BY <1>2, <2>1, NoAnswerDelivered DEF GetPeers
  <2> QED
    BY <1>2, <2>2 DEF GetPeers, ServerReads, serverVars, Undisturbed, Answered, Registered,
                      RegistrationInv, Holds
<1>3. ASSUME NEW s \in Sockets, TopologyUpdate(s) PROVE Undisturbed(m)
  <2> DEFINE n   == s[1]
             to  == Head(c2s[s]).connectedTo
             reg == [nodes EXCEPT ![n].connectedPeers = to]
  <2>1. UNCHANGED <<phase, ws, registered, sv>>
    BY <1>3 DEF TopologyUpdate, ServerReads
  <2>2. CASE s \in registeredAs /\ n \in Registered
    <3>1. nodes \in [Registered -> NodeInfo] /\ nodes[n] \in NodeInfo
      BY <2>2 DEF TypeOK
    <3>2. Head(c2s[s]) \in ToServer /\ Head(c2s[s]).type = "topology-update"
      BY <1>3, SMTT(30) DEF TopologyUpdate, ServerReads, TypeOK
    <3>3. to \in SUBSET Nodes
      BY <3>2 DEF ToServer
    <3>4. [nodes[n] EXCEPT !.connectedPeers = to] \in NodeInfo
          /\ [nodes[n] EXCEPT !.connectedPeers = to].ws = nodes[n].ws
      BY <3>1, <3>3 DEF NodeInfo
    <3>5. reg = [nodes EXCEPT ![n] = [nodes[n] EXCEPT !.connectedPeers = to]]
      OBVIOUS
    <3>6. reg \in [Registered -> NodeInfo] /\ \A k \in Registered : reg[k].ws = nodes[k].ws
      BY <3>1, <3>4, <3>5
    <3>7. nodes' = reg /\ s2c' = Deliver(sv, SocketsOf(reg, Nodes), Topology(reg))
      BY <1>3, <2>2 DEF TopologyUpdate
    <3> HIDE DEF reg
    <3>8. Topology(reg) \in ToClient /\ Topology(reg).type # "registered"
      <4>1. [k \in DOMAIN reg |-> reg[k].connectedPeers] \in [Registered -> SUBSET Nodes]
        BY <3>6 DEF NodeInfo
      <4> QED
        BY <4>1, SMTT(30) DEF Topology, ToClient, TypeOK
    <3>9. IsAnswer(s2c'[m]) => IsAnswer(s2c[m])
      BY <3>7, <3>8, NoAnswerDelivered
    <3> QED
      BY <2>1, <3>6, <3>7, <3>9 DEF Undisturbed, Answered, Registered, RegistrationInv, Holds
  <2>3. CASE ~(s \in registeredAs /\ n \in Registered)
    BY <1>3, <2>1, <2>3 DEF TopologyUpdate, Undisturbed, Answered, Registered, RegistrationInv, Holds
  <2> QED
    BY <2>2, <2>3
<1>4. ASSUME NEW s \in Sockets, RelaySignal(s) PROVE Undisturbed(m)
  <2> DEFINE q == Head(c2s[s])
  <2>1. q \in ToServer /\ q.type = "signal" /\ s[1] \in Nodes
    BY <1>4, SocketPair DEF RelaySignal, ServerReads, TypeOK
  <2>2. q.to \in Nodes /\ q.num \in Nat /\ q.early \in BOOLEAN
    BY <2>1 DEF ToServer
  <2>3. /\ [type |-> "signal", from |-> s[1], num |-> q.num, early |-> q.early] \in ToClient
        /\ [type |-> "signal-error", to |-> q.to] \in ToClient
    BY <2>1, <2>2 DEF ToClient
  <2>4. \/ s2c' = s2c
        \/ s2c' = Deliver(sv, {nodes[q.to].ws},
                          [type |-> "signal", from |-> s[1], num |-> q.num, early |-> q.early])
        \/ s2c' = Deliver(sv, {nodes[s[1]].ws}, [type |-> "signal-error", to |-> q.to])
    BY <1>4 DEF RelaySignal
  <2>5. IsAnswer(s2c'[m]) => IsAnswer(s2c[m])
    BY <2>3, <2>4, NoAnswerDelivered
  <2> QED
    BY <1>4, <2>5 DEF RelaySignal, ServerReads, serverVars, Undisturbed, Answered, Registered,
                      RegistrationInv, Holds
<1>5. ASSUME NEW s \in Sockets, ServerClose(s) PROVE Undisturbed(m)
  <2> DEFINE n   == s[1]
             reg == [k \in Registered \ {n} |-> nodes[k]]
             v   == [sv EXCEPT ![s] = "closed"]
  <2>1. UNCHANGED <<phase, ws, registered>> /\ sv' = v /\ n \in Nodes
    BY <1>5, SocketPair DEF ServerClose
  <2>2. phase[m] = "open" /\ sv'[Current(m)] = "open" => sv[Current(m)] = "open" /\ s # Current(m)
    BY <2>1 DEF OpenInv, TypeOK
  <2>3. CASE CurrentSocketOf(s)
    <3>1. [type |-> "peer-leave", node |-> n] \in ToClient
      BY <2>1 DEF ToClient
    <3>2. nodes' = reg /\ s2c' = Deliver(v, SocketsOf(reg, Nodes), [type |-> "peer-leave", node |-> n])
      BY <1>5, <2>3 DEF ServerClose
    <3>3. IsAnswer(s2c'[m]) => IsAnswer(s2c[m])
      BY <3>1, <3>2, NoAnswerDelivered
    <3>4. \A k \in Registered \ {n} : k \in Registered' /\ nodes'[k] = nodes[k]
      BY <3>2 DEF Registered
    <3>5. Holds(m) /\ s # Current(m) => m # n
      BY <2>3 DEF Holds, CurrentSocketOf
    <3> QED
      BY <2>1, <2>2, <3>3, <3>4, <3>5 DEF Undisturbed, Answered, RegistrationInv, Holds
  <2>4. CASE ~CurrentSocketOf(s)
    BY <1>5, <2>1, <2>2, <2>4 DEF ServerClose, Undisturbed, Answered, Registered, RegistrationInv, Holds
  <2> QED
    BY <2>3, <2>4
<1>6. ASSUME NEW n \in Nodes, Connect(n) PROVE Undisturbed(m)
  <2>1. UNCHANGED <<registered, s2c, nodes>> /\ phase[n] = "connecting"
    BY <1>6 DEF Connect
  <2>2. CASE m = n
    BY <2>1, <2>2 DEF Undisturbed, Answered, RegistrationInv
  <2>3. CASE m # n
    <3>1. phase'[m] = phase[m] /\ ws'[m] = ws[m]
      BY <1>6, <2>3 DEF Connect, TypeOK
    <3>2. phase[m] = "open" => sv'[Current(m)] = sv[Current(m)]
      BY <1>6, <2>3 DEF Connect, TypeOK, OpenInv, Current
    <3> QED
      BY <2>1, <3>1, <3>2 DEF Undisturbed, Answered, RegistrationInv, Registered, Holds
  <2> QED
    BY <2>2, <2>3
<1>7. ASSUME NEW n \in Nodes, ClientClose(n) \/ ReconnectTimer(n) \/ Disconnect(n) \/ Restart(n)
      PROVE  Undisturbed(m)
  <2>1. UNCHANGED <<nodes, sv, ws>>
    BY <1>7 DEF ClientClose, ReconnectTimer, Disconnect, Restart, serverVars
  <2>2. m # n => phase'[m] = phase[m] /\ registered'[m] = registered[m] /\ s2c'[m] = s2c[m]
    BY <1>7 DEF ClientClose, ReconnectTimer, Disconnect, Restart, TypeOK
  <2>3. ~Answered(n)'
    <3>1. CASE ClientClose(n) \/ Disconnect(n)
      BY <3>1 DEF ClientClose, Disconnect, Answered, IsAnswer, TypeOK
    <3>2. CASE ReconnectTimer(n) \/ Restart(n)
      BY <3>2 DEF ReconnectTimer, Restart, Answered, RegistrationInv
    <3> QED
      BY <1>7, <3>1, <3>2
  <2> QED
    BY <2>1, <2>2, <2>3 DEF Undisturbed, Answered, Registered, RegistrationInv, Holds
<1>8. ASSUME NEW n \in Nodes, ClientHandles(n) PROVE Undisturbed(m)
  <2>1. PICK t : ClientReads(n, t)
    BY <1>8 DEF ClientHandles, OnRegistered, OnPeers, OnPeerJoin, OnPeerLeave, OnSignal, OnOther
  <2>2. UNCHANGED <<nodes, sv, ws, phase>> /\ phase[n] = "open" /\ s2c[n] # << >>
    BY <2>1 DEF ClientReads, serverVars
  <2>3. IsAnswer(s2c'[m]) => IsAnswer(s2c[m])
    <3>1. s2c'[m] = IF m = n THEN Tail(s2c[n]) ELSE s2c[m]
      BY <2>1 DEF ClientReads, TypeOK
    <3> QED
      BY <2>2, <3>1, NoAnswerTaken DEF TypeOK
  <2>4. registered'[m] => Answered(m)
    <3>1. CASE OnRegistered(n)
      <4>1. Head(s2c[n]).type = "registered"
        BY <3>1 DEF OnRegistered, ClientReads
      <4>2. IsAnswer(s2c[n])
        BY <2>2, <4>1 DEF IsAnswer, TypeOK
      <4>3. m # n => registered'[m] = registered[m]
        BY <3>1 DEF OnRegistered, TypeOK
      <4> QED
        BY <4>2, <4>3 DEF Answered
    <3>2. CASE ~OnRegistered(n)
      BY <1>8, <3>2 DEF ClientHandles, OnPeers, OnPeerJoin, OnPeerLeave, OnSignal, OnOther, Answered
    <3> QED
      BY <3>1, <3>2
  <2>5. Answered(m)' => Answered(m)
    BY <2>3, <2>4 DEF Answered
  <2> QED
    BY <2>2, <2>5 DEF Undisturbed, Registered, RegistrationInv, Holds
<1>9. ASSUME UNCHANGED <<nodes, sv, ws, phase, registered, s2c>> PROVE Undisturbed(m)
  BY <1>9 DEF Undisturbed, Answered, Registered, RegistrationInv, Holds
<1>10. ASSUME NEW n \in Nodes, NEW k \in Nodes, SendSignal(n, k) \/ LinkChange(n, k)
       PROVE  Undisturbed(m)
  BY <1>9, <1>10 DEF SendSignal, LinkChange, serverVars
<1>11. CASE UNCHANGED vars
  BY <1>9, <1>11 DEF vars, serverVars
<1> QED
  BY <1>2, <1>3, <1>4, <1>5, <1>6, <1>7, <1>8, <1>10, <1>11 DEF Next, ServerHandles

\* Registrations are kept by every step.
LEMMA NextRegistration == TypeOK /\ OpenInv /\ RegistrationInv /\ [Next]_vars => RegistrationInv'
<1> SUFFICES ASSUME TypeOK, OpenInv, RegistrationInv, [Next]_vars, NEW m \in Nodes
             PROVE  /\ Answered(m)' => phase'[m] = "open"
                    /\ Answered(m)' /\ sv'[Current(m)'] = "open" => Holds(m)'
  BY DEF RegistrationInv
<1>1. CASE \E s \in Sockets : Register(s) \/ ReRegister(s)
  BY <1>1, RegisterKeepsRegistration
<1>2. CASE \A s \in Sockets : ~Register(s) /\ ~ReRegister(s)
  BY <1>2, NextUndisturbed, UndisturbedKeeps
<1> QED
  BY <1>1, <1>2

\* A client that believes it is registered over a socket the server has open is in
\* the registry with that socket, whatever its older sockets still deliver:
\* registrations read late and close events that come late do not take it out.
THEOREM RegistrationSafe == Spec => []RegistrationSurvivesStaleSockets
<1>1. Init => OpenInv /\ RegistrationInv
  BY DEF Init, OpenInv, RegistrationInv, Answered, IsAnswer
<1>2. RegistrationInv => RegistrationSurvivesStaleSockets
  BY DEF RegistrationInv, RegistrationSurvivesStaleSockets, Answered, Holds
<1> QED
  BY <1>1, <1>2, NextOpen, NextRegistration, TypeCorrect, PTL DEF Spec

-----------------------------------------------------------------------------
(* What clients know of each other *)

\* A message that tells of m, one that takes m away, and whether a client that knows
\* `known' will know m when it has read q.
Gives(x, m) == \/ x.type = "peers" /\ m \in x.peers
               \/ x.type = "peer-join" /\ x.node = m
Takes(x, m) == x.type = "peer-leave" /\ x.node = m
WillKnow(known, q, m) ==
  \/ m \in known /\ \A i \in DOMAIN q : ~Takes(q[i], m)
  \/ \E i \in DOMAIN q : Gives(q[i], m) /\ \A k \in DOMAIN q : i < k => ~Takes(q[k], m)

\* A client that the server has answered either has its question for the peers still under way,
\* or will know every registered node when it has read what is on its way.
IsQuestion(q) == \E i \in DOMAIN q : q[i].type = "get-peers"
Asks(n) == IsAnswer(s2c[n]) \/ IsQuestion(c2s[Current(n)])
PeerInv ==
  \A n \in Nodes :
    Answered(n) /\ sv[Current(n)] = "open" =>
      Asks(n) \/ \A m \in Registered \ {n} : WillKnow(peers[n], s2c[n], m)

\* The server has only sockets that the clients have opened.
SocketInv == \A s \in Sockets : sv[s] # "none" => s[2] <= ws[s[1]]

\* The server's record of a node's links is right, or will be when it has read the last report.
IsReport(x) == x.type = "topology-update"
WillRecord(rec, q, now) ==
  \/ rec = now /\ \A i \in DOMAIN q : ~IsReport(q[i])
  \/ \E i \in DOMAIN q : /\ IsReport(q[i]) /\ q[i].connectedTo = now
                         /\ \A k \in DOMAIN q : i < k => ~IsReport(q[k])

\* A node that has never opened a socket.
UnopenedInv ==
  \A n \in Nodes : ws[n] = 0 => links[n] = {} /\ virtualIp[n] = Null /\ n \notin Registered

\* The first socket of a node: before its registration is read the node has no links to report.
OnFirst(n) == phase[n] = "open" /\ ws[n] = 1 /\ sv[Current(n)] = "open"
Entered(n) ==
  /\ Current(n) \in registeredAs
  /\ \A i \in DOMAIN c2s[Current(n)] : c2s[Current(n)][i].type # "register"
  /\ WillRecord(nodes[n].connectedPeers, c2s[Current(n)], links[n])
Unentered(n) ==
  /\ links[n] = {} /\ virtualIp[n] = Null
  /\ \A i \in DOMAIN c2s[Current(n)] :
       /\ c2s[Current(n)][i].type = "register" => i = 1
       /\ ~IsReport(c2s[Current(n)][i])
Recorded(n) == IF n \in Registered THEN Entered(n) ELSE Unentered(n)
ReportInv == \A n \in Nodes : OnFirst(n) => Recorded(n)

\* One message more at the end of a channel.
LEMMA Extended ==
  ASSUME NEW S, NEW q \in Seq(S), NEW x \in S
  PROVE  /\ Append(q, x) \in Seq(S)
         /\ \A i \in DOMAIN q : /\ i \in Nat /\ i \in DOMAIN Append(q, x) /\ Append(q, x)[i] = q[i]
                                /\ i < Len(q) + 1
         /\ \A i \in DOMAIN Append(q, x) : i \in Nat /\ (i \in DOMAIN q \/ i = Len(q) + 1)
         /\ Len(q) + 1 \in DOMAIN Append(q, x) /\ Append(q, x)[Len(q) + 1] = x /\ Len(q) + 1 \in Nat
OBVIOUS

\* One message less at its front.
LEMMA Shortened ==
  ASSUME NEW S, NEW q \in Seq(S), q # << >>
  PROVE  /\ Tail(q) \in Seq(S) /\ Head(q) = q[1] /\ Head(q) \in S /\ 1 \in DOMAIN q
         /\ \A i \in DOMAIN Tail(q) : i \in Nat \ {0} /\ i + 1 \in DOMAIN q /\ Tail(q)[i] = q[i + 1]
         /\ \A i \in DOMAIN q : i = 1 \/ (i \in Nat /\ i - 1 \in DOMAIN Tail(q) /\ Tail(q)[i - 1] = q[i])
OBVIOUS

\* A client goes on knowing what it will know when another message follows, unless it takes it away.
LEMMA KnowMore ==
  ASSUME NEW known, NEW q \in Seq(ToClient), NEW x \in ToClient, NEW m,
         WillKnow(known, q, m), ~Takes(x, m)
  PROVE  WillKnow(known, Append(q, x), m)
<1> DEFINE r == Append(q, x)
<1> DEFINE z == Len(q) + 1
<1>1. /\ \A i \in DOMAIN q : i \in Nat /\ i \in DOMAIN r /\ r[i] = q[i]
      /\ \A i \in DOMAIN r : i \in Nat /\ (i \in DOMAIN q \/ i = z)
      /\ r[z] = x
  BY Extended
<1> HIDE DEF r, z
<1>2. \A i \in DOMAIN r : Takes(r[i], m) => i \in DOMAIN q /\ Takes(q[i], m)
  BY <1>1
<1>3. CASE m \in known /\ \A i \in DOMAIN q : ~Takes(q[i], m)
  BY <1>2, <1>3 DEF WillKnow, r
<1>4. ASSUME NEW i \in DOMAIN q, Gives(q[i], m), \A k \in DOMAIN q : i < k => ~Takes(q[k], m)
      PROVE  WillKnow(known, r, m)
  <2>1. i \in DOMAIN r /\ Gives(r[i], m)
    BY <1>1, <1>4
  <2>2. \A k \in DOMAIN r : i < k => ~Takes(r[k], m)
    BY <1>2, <1>4
  <2> QED
    BY <2>1, <2>2 DEF WillKnow
<1> QED
  BY <1>3, <1>4 DEF WillKnow, r

\* The last message tells.
LEMMA KnowLast ==
  ASSUME NEW known, NEW q \in Seq(ToClient), NEW x \in ToClient, NEW m, Gives(x, m)
  PROVE  WillKnow(known, Append(q, x), m)
<1> DEFINE r == Append(q, x)
<1> DEFINE z == Len(q) + 1
<1>1. /\ \A i \in DOMAIN q : i \in Nat /\ i < z
      /\ \A i \in DOMAIN r : i \in Nat /\ (i \in DOMAIN q \/ i = z)
      /\ r[z] = x /\ z \in DOMAIN r /\ z \in Nat
  BY Extended
<1> HIDE DEF r, z
<1>2. \A k \in DOMAIN r : ~(z < k)
  BY <1>1
<1> QED
  BY <1>1, <1>2 DEF WillKnow, r

\* Reading the first message: what it tells is known then.
LEMMA KnowRead ==
  ASSUME NEW known, NEW now, NEW q \in Seq(ToClient), q # << >>, NEW m,
         WillKnow(known, q, m),
         m \in known /\ ~Takes(Head(q), m) => m \in now,
         Gives(Head(q), m) => m \in now
  PROVE  WillKnow(now, Tail(q), m)
<1> DEFINE r == Tail(q)
<1>1. /\ Head(q) = q[1] /\ 1 \in DOMAIN q
      /\ \A i \in DOMAIN r : i \in Nat \ {0} /\ i + 1 \in DOMAIN q /\ r[i] = q[i + 1]
      /\ \A i \in DOMAIN q : i = 1 \/ (i \in Nat /\ i - 1 \in DOMAIN r /\ r[i - 1] = q[i])
  BY Shortened
<1> HIDE DEF r
<1>2. CASE m \in known /\ \A i \in DOMAIN q : ~Takes(q[i], m)
  <2>1. m \in now /\ \A i \in DOMAIN r : ~Takes(r[i], m)
    BY <1>1, <1>2
  <2> QED
    BY <2>1 DEF WillKnow, r
<1>3. ASSUME NEW i \in DOMAIN q, Gives(q[i], m), \A k \in DOMAIN q : i < k => ~Takes(q[k], m)
      PROVE  WillKnow(now, r, m)
  <2>1. CASE i = 1
    <3>1. m \in now
      BY <1>1, <1>3, <2>1
    <3>2. ASSUME NEW k \in DOMAIN r PROVE ~Takes(r[k], m)
      <4>1. k + 1 \in DOMAIN q /\ r[k] = q[k + 1] /\ 1 < k + 1
        BY <1>1
      <4> QED
        BY <1>3, <2>1, <4>1
    <3> QED
      BY <3>1, <3>2 DEF WillKnow
  <2>2. CASE i # 1
    <3>1. i \in Nat /\ i - 1 \in DOMAIN r /\ r[i - 1] = q[i]
      BY <1>1, <2>2
    <3>2. ASSUME NEW k \in DOMAIN r, i - 1 < k PROVE ~Takes(r[k], m)
      <4>1. k \in Nat /\ k + 1 \in DOMAIN q /\ r[k] = q[k + 1]
        BY <1>1
      <4>2. i < k + 1
        BY <3>1, <3>2, <4>1
      <4> QED
        BY <1>3, <4>1, <4>2
    <3> QED
      BY <1>3, <3>1, <3>2 DEF WillKnow
  <2> QED
    BY <2>1, <2>2
<1> QED
  BY <1>2, <1>3 DEF WillKnow, r

\* A question stays in its channel until it is read.
LEMMA QuestionStays ==
  ASSUME NEW q \in Seq(ToServer), IsQuestion(q)
  PROVE  /\ \A x \in ToServer : IsQuestion(Append(q, x))
         /\ q # << >> /\ Head(q).type # "get-peers" => IsQuestion(Tail(q))
<1>1. PICK i \in DOMAIN q : q[i].type = "get-peers"
  BY DEF IsQuestion
<1>2. ASSUME NEW x \in ToServer PROVE IsQuestion(Append(q, x))
  <2>1. i \in DOMAIN Append(q, x) /\ Append(q, x)[i] = q[i]
    BY Extended
  <2> QED
    BY <1>1, <2>1 DEF IsQuestion
<1>3. ASSUME q # << >>, Head(q).type # "get-peers" PROVE IsQuestion(Tail(q))
  <2>1. /\ Head(q) = q[1]
        /\ \A k \in DOMAIN q : k = 1 \/ (k \in Nat /\ k - 1 \in DOMAIN Tail(q) /\ Tail(q)[k - 1] = q[k])
    BY <1>3, Shortened
  <2>2. i - 1 \in DOMAIN Tail(q) /\ Tail(q)[i - 1].type = "get-peers"
    BY <1>1, <1>3, <2>1
  <2> QED
    BY <2>2 DEF IsQuestion
<1> QED
  BY <1>2, <1>3

\* So does an answer.
LEMMA AnswerStays ==
  ASSUME NEW q \in Seq(ToClient), IsAnswer(q)
  PROVE  /\ \A x \in ToClient : IsAnswer(Append(q, x))
         /\ q # << >> /\ Head(q).type # "registered" => IsAnswer(Tail(q))
<1>1. PICK i \in DOMAIN q : q[i].type = "registered"
  BY DEF IsAnswer
<1>2. ASSUME NEW x \in ToClient PROVE IsAnswer(Append(q, x))
  <2>1. i \in DOMAIN Append(q, x) /\ Append(q, x)[i] = q[i]
    BY Extended
  <2> QED
    BY <1>1, <2>1 DEF IsAnswer
<1>3. ASSUME q # << >>, Head(q).type # "registered" PROVE IsAnswer(Tail(q))
  <2>1. /\ Head(q) = q[1]
        /\ \A k \in DOMAIN q : k = 1 \/ (k \in Nat /\ k - 1 \in DOMAIN Tail(q) /\ Tail(q)[k - 1] = q[k])
    BY <1>3, Shortened
  <2>2. i - 1 \in DOMAIN Tail(q) /\ Tail(q)[i - 1].type = "registered"
    BY <1>1, <1>3, <2>1
  <2> QED
    BY <2>2 DEF IsAnswer
<1> QED
  BY <1>2, <1>3

\* What a client is told, or asks: the two cases of PeerInv.
Informed(n) == Asks(n) \/ \A m \in Registered \ {n} : WillKnow(peers[n], s2c[n], m)

\* Steps that add no node to the registry and tell n of no loss of one that stays there.
LEMMA StaysInformed ==
  ASSUME TypeOK, NEW n \in Nodes, Informed(n), ws'[n] = ws[n], peers'[n] = peers[n],
         Registered' \subseteq Registered,
         IsQuestion(c2s[Current(n)]) => IsQuestion(c2s'[Current(n)]),
         s2c'[n] = s2c[n] \/ \E x \in ToClient : /\ s2c'[n] = Append(s2c[n], x)
                                                 /\ \A m \in Registered' : ~Takes(x, m)
  PROVE  Informed(n)'
<1>0. s2c[n] \in Seq(ToClient)
  BY DEF TypeOK
<1>1. Current(n)' = Current(n)
  BY DEF Current
<1>2. CASE Asks(n)
  <2>1. IsAnswer(s2c[n]) => IsAnswer(s2c'[n])
    BY <1>0, AnswerStays
  <2> QED
    BY <1>1, <1>2, <2>1 DEF Asks, Informed
<1>3. CASE \A m \in Registered \ {n} : WillKnow(peers[n], s2c[n], m)
  <2>1. ASSUME NEW m \in Registered' \ {n} PROVE WillKnow(peers'[n], s2c'[n], m)
    <3>1. WillKnow(peers[n], s2c[n], m)
      BY <1>3, <2>1
    <3> QED
      BY <1>0, <2>1, <3>1, KnowMore
  <2> QED
    BY <2>1 DEF Informed
<1> QED
  BY <1>2, <1>3 DEF Informed

\* _wsSend changes the channel of a node by one message at most; with an open socket among the
\* addressees it does.
LEMMA Delivered ==
  ASSUME NEW v, NEW S, NEW x, NEW n \in Nodes
  PROVE  /\ Deliver(v, S, x)[n] \in {s2c[n], Append(s2c[n], x)}
         /\ Current(n) \in S /\ v[Current(n)] = "open" /\ phase[n] = "open" => Deliver(v, S, x)[n] = Append(s2c[n], x)
         /\ Current(n) \notin S => Deliver(v, S, x)[n] = s2c[n]
BY DEF Deliver, ClientOpen, Current

\* _send reaches the channel of the sender's own socket.
LEMMA SentOn ==
  ASSUME TypeOK, NEW n \in Nodes, NEW x
  PROVE  /\ \A k \in Nodes \ {n} : Sent(n, x)[Current(k)] = c2s[Current(k)]
         /\ phase[n] = "open" /\ Current(n) \in Sockets /\ sv[Current(n)] = "open" =>
              Sent(n, x)[Current(n)] = Append(c2s[Current(n)], x)
<1>1. c2s \in [Sockets -> Seq(ToServer)]
  BY DEF TypeOK
<1>2. \A k \in Nodes \ {n} : Current(k) # Current(n)
  BY DEF Current
<1> QED
  BY <1>1, <1>2 DEF Sent

\* A registration: the others are told of it, and the node that registers will ask.
LEMMA RegisterInforms ==
  ASSUME TypeOK, OpenInv, RegistrationInv, PeerInv, NEW s \in Sockets, Register(s) \/ ReRegister(s),
         NEW n \in Nodes, Answered(n)', sv'[Current(n)'] = "open"
  PROVE  Informed(n)'
<1> DEFINE k == s[1]
<1> DEFINE join == [type |-> "peer-join", node |-> k]
<1>1. k \in Nodes /\ join \in ToClient /\ s2c[n] \in Seq(ToClient)
  BY SocketPair DEF ToClient, TypeOK
<1>2. /\ UNCHANGED <<phase, ws, registered, peers>> /\ Current(n)' = Current(n)
      /\ c2s' = [c2s EXCEPT ![s] = Tail(c2s[s])]
  BY DEF Register, ReRegister, ServerReads, Current
<1>3. phase[n] = "open" /\ n \in Registered' /\ nodes'[n].ws = Current(n)
  BY <1>2, RegisterKeepsRegistration DEF Holds
<1>4. /\ s2c' = RegisterReplies(sv', nodes', k, s) /\ Registered' \subseteq Registered \cup {k}
      /\ nodes'[k].ws = s /\ nodes'[k].virtualIp \in Addresses
  <2>1. CASE Register(s)
    <3>1. NewAddress(k) \in Addresses
      BY <1>1 DEF NewAddress, PinAvailable, Addresses, Range, TypeOK
    <3> QED
      BY <2>1, <3>1 DEF Register, Registered
  <2>2. CASE ReRegister(s)
    <3>1. k \in Registered /\ nodes \in [Registered -> NodeInfo] /\ nodes[k] \in NodeInfo
      BY <2>2 DEF ReRegister, TypeOK
    <3>2. nodes' = [nodes EXCEPT ![k] = [nodes[k] EXCEPT !.ws = s]]
      BY <2>2 DEF ReRegister
    <3>3. [nodes[k] EXCEPT !.ws = s].ws = s /\ [nodes[k] EXCEPT !.ws = s].virtualIp \in Addresses
      BY <3>1 DEF NodeInfo
    <3>4. nodes'[k].ws = s /\ nodes'[k].virtualIp \in Addresses /\ Registered' = Registered
      BY <3>1, <3>2, <3>3 DEF Registered
    <3> QED
      BY <2>2, <3>4 DEF ReRegister
  <2> QED
    BY <2>1, <2>2
<1>5. s2c' = [PeerJoin(sv', nodes', k) EXCEPT
                ![k] = IF ClientOpen(s) THEN Append(s2c[k], [type |-> "registered", ip |-> nodes'[k].virtualIp])
                                        ELSE @]
      /\ PeerJoin(sv', nodes', k) \in [Nodes -> Seq(ToClient)]
  <2>1. s2c \in [Nodes -> Seq(ToClient)]
    BY DEF TypeOK
  <2>2. PeerJoin(sv', nodes', k) \in [Nodes -> Seq(ToClient)]
    BY <1>1, <2>1, DeliverType DEF PeerJoin
  <2>3. RegisterReplies(sv', nodes', k, s) =
          [PeerJoin(sv', nodes', k) EXCEPT
             ![k] = IF ClientOpen(s) THEN Append(s2c[k], [type |-> "registered", ip |-> nodes'[k].virtualIp])
                                     ELSE @]
    BY DEF RegisterReplies
  <2> QED
    BY <1>4, <2>2, <2>3
<1>6. CASE n = k
  <2>1. ClientOpen(s)
    BY <1>3, <1>4, <1>6 DEF ClientOpen
  <2> DEFINE x == [type |-> "registered", ip |-> nodes'[k].virtualIp]
  <2>2. s2c'[n] = Append(s2c[n], x) /\ x \in ToClient /\ x.type = "registered"
    BY <1>1, <1>4, <1>5, <1>6, <2>1 DEF ToClient
  <2> HIDE DEF x
  <2>3. IsAnswer(s2c'[n])
    BY <1>1, <2>2, Extended DEF IsAnswer
  <2> QED
    BY <2>3 DEF Informed, Asks
<1>7. CASE n # k
  <2>1. s2c'[n] = PeerJoin(sv', nodes', k)[n]
    BY <1>5, <1>7
  <2>2. Current(n) \in SocketsOf(nodes', Nodes \ {k})
    BY <1>3, <1>7 DEF SocketsOf, Registered
  <2>3. s2c'[n] = Append(s2c[n], join)
    <3>1. sv'[Current(n)] = "open"
      BY <1>2
    <3>2. PeerJoin(sv', nodes', k) = Deliver(sv', SocketsOf(nodes', Nodes \ {k}), join)
      BY DEF PeerJoin
    <3> HIDE DEF join, k
    <3> QED
      BY <1>3, <2>1, <2>2, <3>1, <3>2, Delivered
  <2>4. Answered(n)
    <3>1. join.type # "registered"
      OBVIOUS
    <3> QED
      BY <1>1, <1>2, <2>3, <3>1, NoAnswerAppended DEF Answered
  <2>5. sv[Current(n)] = "open"
    <3>1. \A c \in Sockets : sv'[c] = "open" => sv[c] = "open"
      BY DEF Register, ReRegister, Terminated, TypeOK
    <3> QED
      BY <1>2, <1>3, <3>1 DEF OpenInv
  <2>6. Informed(n)
    BY <2>4, <2>5 DEF PeerInv, Informed
  <2>7. c2s'[Current(n)] = c2s[Current(n)]
    <3>1. Current(n) # s
      BY <1>7 DEF Current
    <3> QED
      BY <1>2, <3>1 DEF TypeOK
  <2>8. CASE Asks(n)
    <3>1. IsAnswer(s2c[n]) => IsAnswer(s2c'[n])
      BY <1>1, <2>3, AnswerStays
    <3> QED
      BY <1>2, <2>7, <2>8, <3>1 DEF Asks, Informed
  <2>9. CASE \A m \in Registered \ {n} : WillKnow(peers[n], s2c[n], m)
    <3>1. ASSUME NEW m \in Registered' \ {n} PROVE WillKnow(peers'[n], s2c'[n], m)
      <4>1. CASE m = k
        <5>1. Gives(join, m)
          BY <4>1 DEF Gives
        <5> QED
          BY <1>1, <1>2, <2>3, <5>1, KnowLast
      <4>2. CASE m # k
        <5>1. WillKnow(peers[n], s2c[n], m) /\ ~Takes(join, m)
          BY <1>4, <2>9, <3>1, <4>2 DEF Takes
        <5> QED
          BY <1>1, <1>2, <2>3, <5>1, KnowMore
      <4> QED
        BY <4>1, <4>2
    <3> QED
      BY <3>1 DEF Informed
  <2> QED
    BY <2>6, <2>8, <2>9 DEF Informed
<1> QED
  BY <1>6, <1>7

\* Reading the channel of one socket leaves the questions in the others, and those behind a
\* message of another type.
LEMMA ReadKeepsQuestions ==
  ASSUME TypeOK, NEW s \in Sockets, NEW t, ServerReads(s, t), NEW n \in Nodes,
         t # "get-peers" \/ s # Current(n), IsQuestion(c2s[Current(n)])
  PROVE  IsQuestion(c2s'[Current(n)])
<1>1. /\ c2s \in [Sockets -> Seq(ToServer)] /\ c2s[s] # << >> /\ Head(c2s[s]).type = t
      /\ c2s' = [c2s EXCEPT ![s] = Tail(c2s[s])]
  BY DEF TypeOK, ServerReads
<1>2. CASE s # Current(n)
  BY <1>1, <1>2
<1>3. CASE s = Current(n)
  <2>1. c2s'[s] = Tail(c2s[s]) /\ c2s[s] \in Seq(ToServer)
    BY <1>1
  <2> QED
    BY <1>1, <1>3, <2>1, QuestionStays
<1> QED
  BY <1>2, <1>3

\* A client that the server has answered keeps being informed.
LEMMA NextPeers ==
  TypeOK /\ OpenInv /\ RegistrationInv /\ PeerInv /\ [Next]_vars => PeerInv'
<1> SUFFICES ASSUME TypeOK, OpenInv, RegistrationInv, PeerInv, [Next]_vars, NEW n \in Nodes,
                    Answered(n)', sv'[Current(n)'] = "open"
             PROVE  Informed(n)'
  BY DEF PeerInv, Informed
<1>1. ASSUME NEW s \in Sockets, Register(s) \/ ReRegister(s) PROVE Informed(n)'
  BY <1>1, RegisterInforms
<1> SUFFICES ASSUME \A s \in Sockets : ~Register(s) /\ ~ReRegister(s)
             PROVE  Informed(n)'
  BY <1>1
<1>2. /\ Answered(n) /\ phase[n] = "open" /\ phase'[n] = "open" /\ ws'[n] = ws[n] /\ Current(n)' = Current(n)
      /\ sv[Current(n)] = "open" /\ n \in Registered /\ nodes[n].ws = Current(n)
  <2>1. Undisturbed(n)
    BY NextUndisturbed
  <2>2. Answered(n) /\ phase'[n] = "open" /\ ws'[n] = ws[n]
    BY <2>1 DEF Undisturbed
  <2>3. Current(n)' = Current(n)
    BY <2>2 DEF Current
  <2>4. sv[Current(n)] = "open"
    BY <2>1, <2>3 DEF Undisturbed
  <2> QED
    BY <2>2, <2>3, <2>4 DEF RegistrationInv, Holds
<1>3. Informed(n)
  BY <1>2 DEF PeerInv, Informed
<1>4. /\ Current(n) \in Sockets /\ s2c[n] \in Seq(ToClient) /\ c2s[Current(n)] \in Seq(ToServer)
      /\ c2s \in [Sockets -> Seq(ToServer)] /\ s2c \in [Nodes -> Seq(ToClient)]
      /\ peers \in [Nodes -> SUBSET Nodes]
  BY <1>2 DEF OpenInv, TypeOK
<1>5. ASSUME NEW s \in Sockets, GetPeers(s) PROVE Informed(n)'
  <2> DEFINE x == [type |-> "peers", peers |-> Registered \ {s[1]}]
  <2>1. /\ s2c' = Deliver(sv, {s}, x) /\ UNCHANGED <<nodes, peers, sv>> /\ ServerReads(s, "get-peers")
        /\ sv[s] = "open" /\ Registered' = Registered
    BY <1>5 DEF GetPeers, ServerReads, serverVars, Registered
  <2>2. x \in ToClient /\ \A m : ~Takes(x, m)
    BY DEF TypeOK, ToClient, Takes
  <2>3. CASE s = Current(n)
    <3>1. s[1] = n
      BY <2>3 DEF Current
    <3>2. s2c'[n] = Append(s2c[n], x)
      <4> HIDE DEF x
      <4> QED
        BY <1>2, <2>1, <2>3, Delivered
    <3>3. ASSUME NEW m \in Registered' \ {n} PROVE WillKnow(peers'[n], s2c'[n], m)
      <4>1. Gives(x, m)
        BY <2>1, <3>1, <3>3 DEF Gives
      <4> HIDE DEF x
      <4> QED
        BY <1>4, <2>2, <3>2, <4>1, KnowLast
    <3> QED
      BY <3>3 DEF Informed
  <2>4. CASE s # Current(n)
    <3> HIDE DEF x
    <3>1. s2c'[n] = s2c[n]
      BY <2>1, <2>4, Delivered
    <3>2. IsQuestion(c2s[Current(n)]) => IsQuestion(c2s'[Current(n)])
      BY <2>1, <2>4, ReadKeepsQuestions
    <3>3. peers'[n] = peers[n] /\ Registered' \subseteq Registered
      BY <2>1
    <3> QED
      BY <1>2, <1>3, <3>1, <3>2, <3>3, StaysInformed
  <2> QED
    BY <2>3, <2>4
<1>6. ASSUME NEW s \in Sockets, TopologyUpdate(s) PROVE Informed(n)'
  <2> DEFINE to  == Head(c2s[s]).connectedTo
             reg == [nodes EXCEPT ![s[1]].connectedPeers = to]
  <2>1. ServerReads(s, "topology-update") /\ UNCHANGED peers
    BY <1>6 DEF TopologyUpdate, ServerReads
  <2>2. IsQuestion(c2s[Current(n)]) => IsQuestion(c2s'[Current(n)])
    <3>1. "topology-update" # "get-peers"
      OBVIOUS
    <3> QED
      BY <2>1, <3>1, ReadKeepsQuestions
  <2>3. CASE UNCHANGED <<nodes, s2c>>
    BY <1>2, <1>3, <2>1, <2>2, <2>3, StaysInformed DEF Registered
  <2>4. CASE /\ s[1] \in Registered /\ nodes' = reg
             /\ s2c' = Deliver(sv, SocketsOf(reg, Nodes), Topology(reg))
    <3>1. /\ nodes \in [Registered -> NodeInfo] /\ nodes[s[1]] \in NodeInfo
          /\ Head(c2s[s]) \in ToServer /\ Head(c2s[s]).type = "topology-update"
      BY <2>1, <2>4, SMTT(30) DEF TypeOK, ServerReads
    <3>2. to \in SUBSET Nodes
      BY <3>1 DEF ToServer
    <3>3. [nodes[s[1]] EXCEPT !.connectedPeers = to] \in NodeInfo
      BY <3>1, <3>2 DEF NodeInfo
    <3>4. reg = [nodes EXCEPT ![s[1]] = [nodes[s[1]] EXCEPT !.connectedPeers = to]]
      OBVIOUS
    <3>5. reg \in [Registered -> NodeInfo]
      BY <3>1, <3>3, <3>4
    <3> HIDE DEF reg
    <3>6. Topology(reg) \in ToClient /\ \A m : ~Takes(Topology(reg), m)
      <4>1. [k \in DOMAIN reg |-> reg[k].connectedPeers] \in [Registered -> SUBSET Nodes]
        BY <3>5 DEF NodeInfo
      <4> QED
        BY <4>1 DEF Topology, ToClient, TypeOK, Takes
    <3>7. Registered' \subseteq Registered /\ peers'[n] = peers[n]
      BY <2>1, <2>4, <3>5 DEF Registered
    <3>8. s2c'[n] \in {s2c[n], Append(s2c[n], Topology(reg))}
      BY <2>4, Delivered
    <3> QED
      BY <1>2, <1>3, <2>2, <3>6, <3>7, <3>8, StaysInformed
  <2> QED
    BY <1>6, <2>3, <2>4 DEF TopologyUpdate
<1>7. ASSUME NEW s \in Sockets, RelaySignal(s) PROVE Informed(n)'
  <2> DEFINE q == Head(c2s[s])
  <2> DEFINE x == [type |-> "signal", from |-> s[1], num |-> q.num, early |-> q.early]
  <2> DEFINE y == [type |-> "signal-error", to |-> q.to]
  <2>1. ServerReads(s, "signal") /\ UNCHANGED <<peers, nodes>> /\ Registered' = Registered
    BY <1>7 DEF RelaySignal, ServerReads, serverVars, Registered
  <2>2. IsQuestion(c2s[Current(n)]) => IsQuestion(c2s'[Current(n)])
    <3>1. "signal" # "get-peers"
      OBVIOUS
    <3> QED
      BY <2>1, <3>1, ReadKeepsQuestions
  <2>3. q \in ToServer /\ q.type = "signal" /\ s[1] \in Nodes
    BY <2>1, SocketPair DEF ServerReads, TypeOK
  <2>4. q.to \in Nodes /\ q.num \in Nat /\ q.early \in BOOLEAN
    BY <2>3 DEF ToServer
  <2>5. x \in ToClient /\ y \in ToClient /\ \A m : ~Takes(x, m) /\ ~Takes(y, m)
    BY <2>3, <2>4 DEF ToClient, Takes
  <2>6. \/ s2c' = s2c
        \/ s2c' = Deliver(sv, {nodes[q.to].ws}, x)
        \/ s2c' = Deliver(sv, {nodes[s[1]].ws}, y)
    BY <1>7 DEF RelaySignal
  <2> HIDE DEF x, y
  <2>7. s2c'[n] \in {s2c[n], Append(s2c[n], x), Append(s2c[n], y)}
    BY <2>6, Delivered
  <2> QED
    BY <1>2, <1>3, <2>1, <2>2, <2>5, <2>7, StaysInformed
<1>8. ASSUME NEW s \in Sockets, ServerClose(s) PROVE Informed(n)'
  <2> DEFINE x   == [type |-> "peer-leave", node |-> s[1]]
             reg == [k \in Registered \ {s[1]} |-> nodes[k]]
  <2>1. /\ UNCHANGED peers /\ sv' = [sv EXCEPT ![s] = "closed"] /\ c2s' = [c2s EXCEPT ![s] = << >>]
        /\ s[1] \in Nodes /\ sv \in [Sockets -> {"none", "open", "terminated", "closed"}]
    BY <1>8, SocketPair DEF ServerClose, TypeOK
  <2>2. s # Current(n) /\ c2s'[Current(n)] = c2s[Current(n)]
    BY <1>2, <1>4, <2>1
  <2>3. CASE UNCHANGED <<nodes, s2c>>
    BY <1>2, <1>3, <2>1, <2>2, <2>3, StaysInformed DEF Registered
  <2>4. CASE nodes' = reg /\ s2c' = Deliver(sv', SocketsOf(reg, Nodes), x)
    <3>1. x \in ToClient /\ \A m : Takes(x, m) => m = s[1]
      BY <2>1 DEF ToClient, Takes
    <3>2. Registered' = Registered \ {s[1]}
      BY <2>4 DEF Registered
    <3> HIDE DEF x, reg
    <3>3. s2c'[n] \in {s2c[n], Append(s2c[n], x)}
      BY <2>4, Delivered
    <3>4. Registered' \subseteq Registered /\ peers'[n] = peers[n] /\ \A m \in Registered' : ~Takes(x, m)
      BY <2>1, <3>1, <3>2
    <3> QED
      BY <1>2, <1>3, <2>2, <3>1, <3>3, <3>4, StaysInformed
  <2> QED
    BY <1>8, <2>1, <2>3, <2>4 DEF ServerClose
<1>9. ASSUME UNCHANGED nodes, peers'[n] = peers[n], s2c'[n] = s2c[n],
             IsQuestion(c2s[Current(n)]) => IsQuestion(c2s'[Current(n)])
      PROVE  Informed(n)'
  BY <1>2, <1>3, <1>9, StaysInformed DEF Registered
<1>10. ASSUME NEW k \in Nodes, Connect(k) PROVE Informed(n)'
  <2>1. k # n
    BY <1>2, <1>10 DEF Connect
  <2>2. c2s'[Current(n)] = c2s[Current(n)] /\ UNCHANGED <<nodes, peers, s2c>>
    <3>1. c2s' = [c2s EXCEPT ![<<k, ws[k] + 1>>] = <<[type |-> "register"]>>] /\ UNCHANGED <<nodes, peers, s2c>>
      BY <1>10 DEF Connect
    <3>2. Current(n) # <<k, ws[k] + 1>>
      BY <2>1 DEF Current
    <3> QED
      BY <1>4, <3>1, <3>2
  <2> QED
    BY <1>9, <2>2
<1>11. ASSUME NEW k \in Nodes, ClientClose(k) \/ ReconnectTimer(k) \/ Disconnect(k) \/ Restart(k)
       PROVE  Informed(n)'
  <2>1. k # n
    <3>1. phase'[k] # "open"
      BY <1>11 DEF ClientClose, ReconnectTimer, Disconnect, Restart, TypeOK
    <3> QED
      BY <1>2, <3>1
  <2>2. UNCHANGED <<nodes, c2s>> /\ peers'[n] = peers[n] /\ s2c'[n] = s2c[n]
    BY <1>4, <1>11, <2>1 DEF ClientClose, ReconnectTimer, Disconnect, Restart, serverVars
  <2> QED
    BY <1>9, <2>2
<1>12. ASSUME NEW k \in Nodes, NEW x \in ToServer, c2s' = Sent(k, x)
       PROVE  IsQuestion(c2s[Current(n)]) => IsQuestion(c2s'[Current(n)])
  <2>1. c2s'[Current(n)] \in {c2s[Current(n)], Append(c2s[Current(n)], x)}
    <3>1. CASE k = n
      <4>1. Sent(n, x)[Current(n)] = Append(c2s[Current(n)], x)
        BY <1>2, <1>4, SentOn
      <4> QED
        BY <1>12, <3>1, <4>1
    <3>2. CASE k # n
      <4>1. Sent(k, x)[Current(n)] = c2s[Current(n)]
        BY <3>2, SentOn
      <4> QED
        BY <1>12, <4>1
    <3> QED
      BY <3>1, <3>2
  <2> QED
    BY <1>4, <2>1, QuestionStays
<1>13. ASSUME NEW k \in Nodes, NEW m \in Nodes, SendSignal(k, m) \/ LinkChange(k, m) PROVE Informed(n)'
  <2>1. UNCHANGED <<nodes, peers, s2c>>
    BY <1>13 DEF SendSignal, LinkChange, serverVars
  <2>2. \E x \in ToServer : c2s' = Sent(k, x)
    <3>1. CASE SendSignal(k, m)
      <4> DEFINE x == [type |-> "signal", to |-> m, num |-> sent[k][m] + 1, early |-> ~registered[k]]
      <4>1. c2s' = Sent(k, x)
        BY <3>1 DEF SendSignal
      <4>2. sent[k][m] + 1 \in Nat /\ (~registered[k]) \in BOOLEAN
        <5>1. sent[k] \in [Nodes -> Nat] /\ registered[k] \in BOOLEAN
          BY DEF TypeOK
        <5> QED
          BY <5>1
      <4>3. x \in ToServer
        BY <4>2 DEF ToServer
      <4> QED
        BY <4>1, <4>3
    <3>2. CASE LinkChange(k, m)
      <4> DEFINE now == IF m \in links[k] THEN links[k] \ {m} ELSE links[k] \cup {m}
      <4>1. c2s' = Sent(k, LinkReport(k, now))
        BY <3>2 DEF LinkChange
      <4>2. LinkReport(k, now) \in ToServer
        BY DEF ToServer, TypeOK, LinkReport
      <4> QED
        BY <4>1, <4>2
    <3> QED
      BY <1>13, <3>1, <3>2
  <2> QED
    BY <1>9, <1>12, <2>1, <2>2
<1>14. ASSUME NEW k \in Nodes, ClientHandles(k) PROVE Informed(n)'
  <2>1. PICK t : ClientReads(k, t)
    BY <1>14 DEF ClientHandles, OnRegistered, OnPeers, OnPeerJoin, OnPeerLeave, OnSignal, OnOther
  <2>2. /\ phase[k] = "open" /\ s2c[k] # << >> /\ s2c' = [s2c EXCEPT ![k] = Tail(s2c[k])]
        /\ UNCHANGED nodes /\ Registered' = Registered
    BY <2>1 DEF ClientReads, serverVars, Registered
  <2>3. /\ peers' = peers \/ \E p : peers' = [peers EXCEPT ![k] = p]
        /\ c2s' = c2s \/ c2s' = Sent(k, [type |-> "get-peers"])
    BY <1>14 DEF ClientHandles, OnRegistered, OnPeers, OnPeerJoin, OnPeerLeave, OnSignal, OnOther
  <2>4. [type |-> "get-peers"] \in ToServer
    BY DEF ToServer
  <2>5. IsQuestion(c2s[Current(n)]) => IsQuestion(c2s'[Current(n)])
    BY <1>12, <2>3, <2>4
  <2>6. CASE k # n
    <3>1. s2c'[n] = s2c[n] /\ peers'[n] = peers[n]
      BY <1>4, <2>2, <2>3, <2>6
    <3> QED
      BY <1>9, <2>2, <2>5, <3>1
  <2>7. CASE k = n /\ OnRegistered(n)
    <3>1. c2s' = Sent(n, [type |-> "get-peers"])
      BY <2>7 DEF OnRegistered
    <3> DEFINE x == [type |-> "get-peers"]
    <3>2. x.type = "get-peers"
      OBVIOUS
    <3> HIDE DEF x
    <3>3. c2s'[Current(n)] = Append(c2s[Current(n)], x)
      <4>1. Sent(n, x)[Current(n)] = Append(c2s[Current(n)], x)
        BY <1>2, <1>4, SentOn
      <4> QED
        BY <3>1, <4>1 DEF x
    <3>4. IsQuestion(c2s'[Current(n)])
      <4> DEFINE q == c2s[Current(n)]
      <4>1. q \in Seq(ToServer) /\ x \in ToServer
        BY <1>4, <2>4 DEF x
      <4> HIDE DEF q
      <4>2. Len(q) + 1 \in DOMAIN Append(q, x) /\ Append(q, x)[Len(q) + 1] = x
        BY <4>1, Extended
      <4>3. IsQuestion(Append(q, x))
        BY <3>2, <4>2 DEF IsQuestion
      <4> QED
        BY <3>3, <4>3 DEF q
    <3> QED
      BY <1>2, <3>4 DEF Informed, Asks
  <2>8. CASE k = n /\ ~OnRegistered(n)
    <3> DEFINE h == Head(s2c[n])
    <3>1. /\ s2c'[n] = Tail(s2c[n]) /\ s2c[n] # << >> /\ h \in ToClient
      BY <1>4, <2>2, <2>8, Shortened
    <3>2. h.type # "registered"
      BY <1>14, <2>8 DEF ClientHandles, OnPeers, OnPeerJoin, OnPeerLeave, OnSignal, OnOther, ClientReads
    <3>3. ASSUME NEW m PROVE /\ m \in peers[n] /\ ~Takes(h, m) => m \in peers'[n]
                             /\ Gives(h, m) => m \in peers'[n]
      <4>1. CASE OnPeers(n)
        <5>1. peers'[n] = peers[n] \cup h.peers /\ h.type = "peers"
          BY <1>4, <4>1 DEF OnPeers, ClientReads
        <5> QED
          BY <5>1 DEF Gives
      <4>2. CASE OnPeerJoin(n)
        <5>1. peers'[n] = peers[n] \cup {h.node} /\ h.type = "peer-join"
          BY <1>4, <4>2 DEF OnPeerJoin, ClientReads
        <5> QED
          BY <5>1 DEF Gives
      <4>3. CASE OnPeerLeave(n)
        <5>1. peers'[n] = peers[n] \ {h.node} /\ h.type = "peer-leave"
          BY <1>4, <4>3 DEF OnPeerLeave, ClientReads
        <5> QED
          BY <5>1 DEF Gives, Takes
      <4>4. CASE OnSignal(n) \/ OnOther(n)
        <5>1. peers'[n] = peers[n] /\ h.type \in {"signal", "topology", "signal-error"}
          BY <4>4 DEF OnSignal, OnOther, ClientReads
        <5> QED
          BY <5>1 DEF Gives
      <4> QED
        BY <1>14, <2>8, <4>1, <4>2, <4>3, <4>4 DEF ClientHandles
    <3> HIDE DEF h
    <3>4. CASE Asks(n)
      <4>1. IsAnswer(s2c[n]) => IsAnswer(s2c'[n])
        BY <1>4, <3>1, <3>2, AnswerStays DEF h
      <4> QED
        BY <1>2, <2>5, <3>4, <4>1 DEF Asks, Informed
    <3>5. CASE \A m \in Registered \ {n} : WillKnow(peers[n], s2c[n], m)
      <4>1. ASSUME NEW m \in Registered' \ {n} PROVE WillKnow(peers'[n], s2c'[n], m)
        <5>1. WillKnow(peers[n], s2c[n], m)
          BY <2>2, <3>5, <4>1
        <5> QED
          BY <1>4, <3>1, <3>3, <5>1, KnowRead, SMTT(30) DEF h
      <4> QED
        BY <4>1 DEF Informed
    <3> QED
      BY <1>3, <3>4, <3>5 DEF Informed
  <2> QED
    BY <2>6, <2>7, <2>8
<1>15. CASE UNCHANGED vars
  BY <1>9, <1>15 DEF vars, serverVars
<1> QED
  BY <1>5, <1>6, <1>7, <1>8, <1>10, <1>11, <1>13, <1>14, <1>15 DEF Next, ServerHandles

-----------------------------------------------------------------------------
(* What the server knows of the links *)

\* One report more, and one message more that is none.
LEMMA RecordMore ==
  ASSUME NEW rec, NEW q \in Seq(ToServer), NEW x \in ToServer, NEW now
  PROVE  /\ WillRecord(rec, q, now) /\ ~IsReport(x) => WillRecord(rec, Append(q, x), now)
         /\ IsReport(x) /\ x.connectedTo = now => WillRecord(rec, Append(q, x), now)
<1> DEFINE r == Append(q, x)
<1> DEFINE z == Len(q) + 1
<1>1. /\ \A i \in DOMAIN q : i \in Nat /\ i \in DOMAIN r /\ r[i] = q[i] /\ i < z
      /\ \A i \in DOMAIN r : i \in Nat /\ (i \in DOMAIN q \/ i = z)
      /\ r[z] = x /\ z \in DOMAIN r /\ z \in Nat
  BY Extended
<1> HIDE DEF r, z
<1>2. ASSUME WillRecord(rec, q, now), ~IsReport(x) PROVE WillRecord(rec, r, now)
  <2>1. \A i \in DOMAIN r : IsReport(r[i]) => i \in DOMAIN q /\ IsReport(q[i])
    BY <1>1, <1>2
  <2>2. CASE rec = now /\ \A i \in DOMAIN q : ~IsReport(q[i])
    BY <2>1, <2>2 DEF WillRecord
  <2>3. ASSUME NEW i \in DOMAIN q, IsReport(q[i]), q[i].connectedTo = now,
               \A k \in DOMAIN q : i < k => ~IsReport(q[k])
        PROVE  WillRecord(rec, r, now)
    <3>1. i \in DOMAIN r /\ IsReport(r[i]) /\ r[i].connectedTo = now
      BY <1>1, <2>3
    <3>2. \A k \in DOMAIN r : i < k => ~IsReport(r[k])
      BY <2>1, <2>3
    <3> QED
      BY <3>1, <3>2 DEF WillRecord
  <2> QED
    BY <1>2, <2>2, <2>3 DEF WillRecord
<1>3. ASSUME IsReport(x), x.connectedTo = now PROVE WillRecord(rec, r, now)
  <2>1. \A k \in DOMAIN r : ~(z < k)
    BY <1>1
  <2> QED
    BY <1>1, <1>3, <2>1 DEF WillRecord
<1> QED
  BY <1>2, <1>3 DEF r

\* The server reads the first message: a report is recorded.
LEMMA RecordRead ==
  ASSUME NEW rec, NEW q \in Seq(ToServer), q # << >>, NEW now, WillRecord(rec, q, now)
  PROVE  /\ ~IsReport(Head(q)) => WillRecord(rec, Tail(q), now)
         /\ IsReport(Head(q)) => WillRecord(Head(q).connectedTo, Tail(q), now)
<1> DEFINE r == Tail(q)
<1>1. /\ Head(q) = q[1] /\ 1 \in DOMAIN q
      /\ \A i \in DOMAIN r : i \in Nat \ {0} /\ i + 1 \in DOMAIN q /\ r[i] = q[i + 1]
      /\ \A i \in DOMAIN q : i = 1 \/ (i \in Nat /\ i - 1 \in DOMAIN r /\ r[i - 1] = q[i])
  BY Shortened
<1> HIDE DEF r
<1>2. CASE rec = now /\ \A i \in DOMAIN q : ~IsReport(q[i])
  <2>1. ~IsReport(Head(q)) /\ \A i \in DOMAIN r : ~IsReport(r[i])
    BY <1>1, <1>2
  <2> QED
    BY <1>2, <2>1 DEF WillRecord, r
<1>3. ASSUME NEW i \in DOMAIN q, IsReport(q[i]), q[i].connectedTo = now,
             \A k \in DOMAIN q : i < k => ~IsReport(q[k])
      PROVE  /\ ~IsReport(Head(q)) => WillRecord(rec, r, now)
             /\ IsReport(Head(q)) => WillRecord(Head(q).connectedTo, r, now)
  <2>1. CASE i = 1
    <3>1. \A k \in DOMAIN r : ~IsReport(r[k])
      <4> SUFFICES ASSUME NEW k \in DOMAIN r PROVE ~IsReport(r[k])
        OBVIOUS
      <4>1. k + 1 \in DOMAIN q /\ r[k] = q[k + 1] /\ 1 < k + 1
        BY <1>1
      <4> QED
        BY <1>3, <2>1, <4>1
    <3>2. IsReport(Head(q)) /\ Head(q).connectedTo = now
      BY <1>1, <1>3, <2>1
    <3> QED
      BY <3>1, <3>2 DEF WillRecord
  <2>2. CASE i # 1
    <3>1. i \in Nat /\ i - 1 \in DOMAIN r /\ r[i - 1] = q[i]
      BY <1>1, <2>2
    <3>2. ASSUME NEW k \in DOMAIN r, i - 1 < k PROVE ~IsReport(r[k])
      <4>1. k \in Nat /\ k + 1 \in DOMAIN q /\ r[k] = q[k + 1]
        BY <1>1
      <4>2. i < k + 1
        BY <3>1, <3>2, <4>1
      <4> QED
        BY <1>3, <4>1, <4>2
    <3>3. \A any : WillRecord(any, r, now)
      BY <1>3, <3>1, <3>2 DEF WillRecord
    <3> QED
      BY <3>3
  <2> QED
    BY <2>1, <2>2
<1> QED
  BY <1>2, <1>3 DEF WillRecord, r

\* The channel of a node's socket after a step that is about no registration and no report.
Plain(x) == x.type # "register" /\ ~IsReport(x)
PlainStep(n) ==
  LET c == Current(n) IN
  \/ c2s'[c] = c2s[c]
  \/ \E x \in ToServer : Plain(x) /\ c2s'[c] = Append(c2s[c], x)
  \/ c2s[c] # << >> /\ Plain(Head(c2s[c])) /\ c2s'[c] = Tail(c2s[c])

\* Such a step keeps what the server has, or will have, of the node's links.
LEMMA StaysRecorded ==
  ASSUME TypeOK, NEW n \in Nodes, Recorded(n), Current(n) \in Sockets, ws'[n] = ws[n],
         n \in Registered' <=> n \in Registered,
         n \in Registered => nodes'[n].connectedPeers = nodes[n].connectedPeers,
         registeredAs \subseteq registeredAs', links'[n] = links[n],
         virtualIp'[n] = virtualIp[n] \/ n \in Registered, PlainStep(n)
  PROVE  Recorded(n)'
<1> DEFINE q == c2s[Current(n)]
<1> DEFINE r == c2s'[Current(n)]
<1>0. q \in Seq(ToServer) /\ Current(n)' = Current(n)
  BY DEF TypeOK, Current
<1>1. \/ r = q
      \/ \E x \in ToServer : Plain(x) /\ r = Append(q, x)
      \/ q # << >> /\ Plain(Head(q)) /\ r = Tail(q)
  BY DEF PlainStep
<1>2. /\ n \in Registered => /\ Current(n) \in registeredAs /\ \A i \in DOMAIN q : q[i].type # "register"
                             /\ WillRecord(nodes[n].connectedPeers, q, links[n])
      /\ n \notin Registered => /\ links[n] = {} /\ virtualIp[n] = Null
                                /\ \A i \in DOMAIN q : (q[i].type = "register" => i = 1) /\ ~IsReport(q[i])
  BY DEF Recorded, Entered, Unentered
<1> SUFFICES /\ n \in Registered => /\ \A i \in DOMAIN r : r[i].type # "register"
                                    /\ WillRecord(nodes[n].connectedPeers, r, links[n])
             /\ n \notin Registered => \A i \in DOMAIN r : (r[i].type = "register" => i = 1) /\ ~IsReport(r[i])
  BY <1>0, <1>2 DEF Recorded, Entered, Unentered
<1> HIDE DEF q, r
<1>3. CASE r = q
  BY <1>2, <1>3
<1>4. ASSUME NEW x \in ToServer, Plain(x), r = Append(q, x)
      PROVE  /\ n \in Registered => /\ \A i \in DOMAIN r : r[i].type # "register"
                                    /\ WillRecord(nodes[n].connectedPeers, r, links[n])
             /\ n \notin Registered => \A i \in DOMAIN r : (r[i].type = "register" => i = 1) /\ ~IsReport(r[i])
  <2>1. \A i \in DOMAIN r : r[i] = x \/ (i \in DOMAIN q /\ r[i] = q[i])
    BY <1>0, <1>4, Extended
  <2>2. x.type # "register" /\ ~IsReport(x)
    BY <1>4 DEF Plain
  <2>3. n \in Registered => WillRecord(nodes[n].connectedPeers, r, links[n])
    BY <1>0, <1>2, <1>4, <2>2, RecordMore
  <2> QED
    BY <1>2, <2>1, <2>2, <2>3
<1>5. CASE q # << >> /\ Plain(Head(q)) /\ r = Tail(q)
  <2>1. \A i \in DOMAIN r : i \in Nat \ {0} /\ i + 1 \in DOMAIN q /\ r[i] = q[i + 1]
    BY <1>0, <1>5, Shortened
  <2>2. \A i \in DOMAIN r : i + 1 # 1
    BY <2>1
  <2>3. n \in Registered => WillRecord(nodes[n].connectedPeers, r, links[n])
    BY <1>0, <1>2, <1>5, RecordRead DEF Plain
  <2> QED
    BY <1>2, <2>1, <2>2, <2>3
<1> QED
  BY <1>1, <1>3, <1>4, <1>5

\* Sockets are opened by Connect only, which numbers them; the server has no other.
LEMMA NextSockets == TypeOK /\ SocketInv /\ [Next]_vars => SocketInv'
<1> SUFFICES ASSUME TypeOK, SocketInv, [Next]_vars PROVE SocketInv'
  OBVIOUS
<1>0. /\ ws \in [Nodes -> Nat] /\ sv \in [Sockets -> {"none", "open", "terminated", "closed"}]
      /\ \A s \in Sockets : s[1] \in Nodes /\ s[2] \in Nat /\ s[2] # 0 /\ s = <<s[1], s[2]>>
  BY MaxSocketsAssumption DEF TypeOK, Sockets
<1>1. ASSUME ws' = ws, \A s \in Sockets : sv[s] = "none" => sv'[s] = "none" PROVE SocketInv'
  BY <1>1 DEF SocketInv
<1>2. ASSUME NEW n \in Nodes, Connect(n) PROVE SocketInv'
  <2>1. ws' = [ws EXCEPT ![n] = ws[n] + 1] /\ sv' = [sv EXCEPT ![<<n, ws[n] + 1>>] = "open"]
    BY <1>2 DEF Connect
  <2> SUFFICES ASSUME NEW s \in Sockets, sv'[s] # "none" PROVE s[2] <= ws'[s[1]]
    BY DEF SocketInv
  <2>2. ws[s[1]] <= ws'[s[1]] /\ ws[s[1]] \in Nat /\ ws'[s[1]] \in Nat
    BY <1>0, <2>1
  <2>3. CASE s = <<n, ws[n] + 1>>
    <3>1. s[1] = n /\ s[2] = ws[n] + 1 /\ ws'[n] = ws[n] + 1
      BY <1>0, <2>1, <2>3
    <3> QED
      BY <1>0, <3>1
  <2>4. CASE s # <<n, ws[n] + 1>>
    <3>1. sv'[s] = sv[s]
      BY <1>0, <2>1, <2>4
    <3>2. s[2] <= ws[s[1]] /\ s[2] \in Nat
      BY <1>0, <3>1 DEF SocketInv
    <3> QED
      BY <2>2, <3>2
  <2> QED
    BY <2>3, <2>4
<1>3. ASSUME NEW s \in Sockets, ServerHandles(s) \/ ServerClose(s) PROVE SocketInv'
  <2>1. UNCHANGED ws
    BY <1>3 DEF ServerHandles, Register, ReRegister, GetPeers, TopologyUpdate, RelaySignal,
                ServerReads, ServerClose
  <2>2. CASE Register(s) \/ GetPeers(s) \/ TopologyUpdate(s) \/ RelaySignal(s)
    <3>1. UNCHANGED sv
      BY <2>2 DEF Register, GetPeers, TopologyUpdate, RelaySignal, serverVars
    <3> QED
      BY <1>1, <2>1, <3>1
  <2>3. CASE ReRegister(s)
    <3>1. sv' = Terminated(nodes[s[1]].ws, s)
      BY <2>3 DEF ReRegister
    <3>2. \A c \in Sockets : sv[c] = "none" => sv'[c] = "none"
      BY <1>0, <3>1 DEF Terminated
    <3> QED
      BY <1>1, <2>1, <3>2
  <2>4. CASE ServerClose(s)
    <3>1. sv' = [sv EXCEPT ![s] = "closed"] /\ sv[s] # "none"
      BY <2>4 DEF ServerClose
    <3>2. \A c \in Sockets : sv[c] = "none" => sv'[c] = "none"
      BY <1>0, <3>1
    <3> QED
      BY <1>1, <2>1, <3>2
  <2> QED
    BY <1>3, <2>2, <2>3, <2>4 DEF ServerHandles
<1>4. ASSUME NEW n \in Nodes, ClientClose(n) \/ ReconnectTimer(n) \/ Disconnect(n) \/ Restart(n)
      PROVE  SocketInv'
  BY <1>1, <1>4 DEF ClientClose, ReconnectTimer, Disconnect, Restart, serverVars
<1>5. ASSUME NEW n \in Nodes, ClientHandles(n) PROVE SocketInv'
  <2>1. \E t : ClientReads(n, t)
    BY <1>5 DEF ClientHandles, OnRegistered, OnPeers, OnPeerJoin, OnPeerLeave, OnSignal, OnOther
  <2> QED
    BY <1>1, <2>1 DEF ClientReads, serverVars
<1>6. ASSUME NEW n \in Nodes, NEW m \in Nodes, SendSignal(n, m) \/ LinkChange(n, m) PROVE SocketInv'
  BY <1>1, <1>6 DEF SendSignal, LinkChange, serverVars
<1>7. CASE UNCHANGED vars
  BY <1>1, <1>7 DEF vars, serverVars
<1> QED
  BY <1>2, <1>3, <1>4, <1>5, <1>6, <1>7 DEF Next

\* Who is registered, and with what links, after a step: only a message or a close event of one of
\* its own sockets, which is one that it has opened, changes that of a node.
OwnSocket(n, s) == s \in Sockets /\ s[1] = n /\ sv[s] # "none"
\* Only messages and closes of a node's own sockets change its entry at the server.
LEMMA EntryKept ==
  ASSUME TypeOK, [Next]_vars, NEW n \in Nodes,
         \A s \in Sockets : OwnSocket(n, s) =>
           ~Register(s) /\ ~ReRegister(s) /\ ~TopologyUpdate(s) /\ ~ServerClose(s)
  PROVE  /\ n \in Registered' <=> n \in Registered
         /\ n \in Registered => nodes'[n].connectedPeers = nodes[n].connectedPeers
         /\ registeredAs \subseteq registeredAs'
<1>0. nodes \in [Registered -> NodeInfo]
  BY DEF TypeOK
<1>1. CASE UNCHANGED <<nodes, registeredAs>>
  BY <1>1 DEF Registered
<1>2. ASSUME NEW s \in Sockets, Register(s) PROVE /\ n \in Registered' <=> n \in Registered
                                                  /\ n \in Registered => nodes'[n] = nodes[n]
                                                  /\ registeredAs \subseteq registeredAs'
  <2>1. s[1] # n
    BY <1>2 DEF OwnSocket, Register, ServerReads
  <2> QED
    BY <1>2, <2>1 DEF Register, Registered
<1>3. ASSUME NEW s \in Sockets, ReRegister(s) PROVE /\ n \in Registered' <=> n \in Registered
                                                    /\ n \in Registered => nodes'[n] = nodes[n]
                                                    /\ registeredAs \subseteq registeredAs'
  <2>1. s[1] # n
    BY <1>3 DEF OwnSocket, ReRegister, ServerReads
  <2> QED
    BY <1>0, <1>3, <2>1 DEF ReRegister, Registered
<1>4. ASSUME NEW s \in Sockets, TopologyUpdate(s) PROVE /\ n \in Registered' <=> n \in Registered
                                                        /\ n \in Registered => nodes'[n] = nodes[n]
                                                        /\ registeredAs \subseteq registeredAs'
  <2>1. s[1] # n
    BY <1>4 DEF OwnSocket, TopologyUpdate, ServerReads
  <2> QED
    BY <1>0, <1>4, <2>1 DEF TopologyUpdate, Registered
<1>5. ASSUME NEW s \in Sockets, ServerClose(s) PROVE /\ n \in Registered' <=> n \in Registered
                                                     /\ n \in Registered => nodes'[n] = nodes[n]
                                                     /\ registeredAs \subseteq registeredAs'
  <2>1. s[1] # n
    BY <1>5 DEF OwnSocket, ServerClose
  <2> QED
    BY <1>0, <1>5, <2>1 DEF ServerClose, Registered
<1>6. ASSUME NEW s \in Sockets, GetPeers(s) \/ RelaySignal(s) PROVE UNCHANGED <<nodes, registeredAs>>
  BY <1>6 DEF GetPeers, RelaySignal, serverVars
<1>7. ASSUME NEW k \in Nodes, Connect(k) \/ ClientClose(k) \/ ReconnectTimer(k) \/ Disconnect(k) \/ Restart(k)
      PROVE  UNCHANGED <<nodes, registeredAs>>
  BY <1>7 DEF Connect, ClientClose, ReconnectTimer, Disconnect, Restart, serverVars
<1>8. ASSUME NEW k \in Nodes, ClientHandles(k) PROVE UNCHANGED <<nodes, registeredAs>>
  <2>1. \E t : ClientReads(k, t)
    BY <1>8 DEF ClientHandles, OnRegistered, OnPeers, OnPeerJoin, OnPeerLeave, OnSignal, OnOther
  <2> QED
    BY <2>1 DEF ClientReads, serverVars
<1>9. ASSUME NEW k \in Nodes, NEW m \in Nodes, SendSignal(k, m) \/ LinkChange(k, m)
      PROVE  UNCHANGED <<nodes, registeredAs>>
  BY <1>9 DEF SendSignal, LinkChange, serverVars
<1>10. UNCHANGED vars => UNCHANGED <<nodes, registeredAs>>
  BY DEF vars, serverVars
<1> QED
  BY <1>1, <1>2, <1>3, <1>4, <1>5, <1>6, <1>7, <1>8, <1>9, <1>10 DEF Next, ServerHandles

\* Links and the address of a node change by its own steps.
LEMMA LinksKept ==
  ASSUME TypeOK, [Next]_vars, NEW n \in Nodes, \A m \in Nodes : ~LinkChange(n, m)
  PROVE  /\ links'[n] = links[n] \/ (Disconnect(n) /\ links'[n] = {})
         /\ virtualIp'[n] = virtualIp[n] \/ OnRegistered(n) \/ (Restart(n) /\ virtualIp'[n] = Null)
<1>0. links \in [Nodes -> SUBSET Nodes] /\ virtualIp \in [Nodes -> Addresses \cup {Null}]
  BY DEF TypeOK
<1>1. ASSUME NEW s \in Sockets, ServerHandles(s) \/ ServerClose(s) PROVE UNCHANGED <<links, virtualIp>>
  BY <1>1 DEF ServerHandles, Register, ReRegister, GetPeers, TopologyUpdate, RelaySignal,
              ServerReads, ServerClose, linkVars
<1>2. ASSUME NEW k \in Nodes, Connect(k) \/ ClientClose(k) \/ ReconnectTimer(k) PROVE UNCHANGED <<links, virtualIp>>
  BY <1>2 DEF Connect, ClientClose, ReconnectTimer, linkVars
<1>3. ASSUME NEW k \in Nodes, Disconnect(k)
      PROVE  UNCHANGED virtualIp /\ links' = [links EXCEPT ![k] = {}]
  BY <1>3 DEF Disconnect
<1>4. ASSUME NEW k \in Nodes, Restart(k)
      PROVE  UNCHANGED links /\ virtualIp' = [virtualIp EXCEPT ![k] = Null]
  BY <1>4 DEF Restart, linkVars
<1>5. ASSUME NEW k \in Nodes, ClientHandles(k), ~OnRegistered(k) PROVE UNCHANGED <<links, virtualIp>>
  BY <1>5 DEF ClientHandles, OnPeers, OnPeerJoin, OnPeerLeave, OnSignal, OnOther, ClientReads, linkVars
<1>6. ASSUME NEW k \in Nodes, OnRegistered(k)
      PROVE  UNCHANGED links /\ \E v : virtualIp' = [virtualIp EXCEPT ![k] = v]
  BY <1>6 DEF OnRegistered, ClientReads, linkVars
<1>7. ASSUME NEW k \in Nodes, NEW m \in Nodes, SendSignal(k, m) PROVE UNCHANGED <<links, virtualIp>>
  BY <1>7 DEF SendSignal, linkVars
<1>8. ASSUME NEW k \in Nodes, NEW m \in Nodes, LinkChange(k, m)
      PROVE  UNCHANGED virtualIp /\ \E v : links' = [links EXCEPT ![k] = v]
  BY <1>8 DEF LinkChange
<1>9. UNCHANGED vars => UNCHANGED <<links, virtualIp>>
  BY DEF vars, linkVars
<1>10. CASE UNCHANGED <<links, virtualIp>>
  BY <1>10
<1>11. ASSUME NEW k \in Nodes, Disconnect(k) \/ Restart(k) \/ OnRegistered(k)
       PROVE  /\ links'[n] = links[n] \/ (Disconnect(n) /\ links'[n] = {})
              /\ virtualIp'[n] = virtualIp[n] \/ OnRegistered(n) \/ (Restart(n) /\ virtualIp'[n] = Null)
  <2>1. CASE k = n
    BY <1>0, <1>3, <1>4, <1>6, <1>11, <2>1
  <2>2. CASE k # n
    BY <1>0, <1>3, <1>4, <1>6, <1>11, <2>2
  <2> QED
    BY <2>1, <2>2
<1>12. ASSUME NEW k \in Nodes, NEW m \in Nodes, LinkChange(k, m)
       PROVE  links'[n] = links[n] /\ virtualIp'[n] = virtualIp[n]
  <2>1. k # n
    BY <1>12
  <2> QED
    BY <1>0, <1>8, <1>12, <2>1
<1> QED
  BY <1>1, <1>2, <1>5, <1>7, <1>9, <1>10, <1>11, <1>12 DEF Next, ClientHandles

\* A node's first socket is opened by Connect and not opened again.
LEMMA SocketsGrow ==
  ASSUME TypeOK, [Next]_vars, NEW n \in Nodes, ~Connect(n)
  PROVE  /\ ws'[n] = ws[n] /\ (phase'[n] = "open" => phase[n] = "open")
         /\ sv'[Current(n)] = "open" /\ Current(n) \in Sockets => sv[Current(n)] = "open"
<1>0. /\ ws \in [Nodes -> Nat] /\ phase \in [Nodes -> Phases]
      /\ sv \in [Sockets -> {"none", "open", "terminated", "closed"}]
  BY DEF TypeOK
<1>1. ASSUME NEW s \in Sockets, ServerHandles(s) \/ ServerClose(s)
      PROVE  UNCHANGED <<ws, phase>> /\ \A c \in Sockets : sv'[c] = "open" => sv[c] = "open"
  <2>1. UNCHANGED <<ws, phase>>
    BY <1>1 DEF ServerHandles, Register, ReRegister, GetPeers, TopologyUpdate, RelaySignal,
                ServerReads, ServerClose
  <2>2. UNCHANGED sv \/ sv' = [sv EXCEPT ![s] = "closed"] \/ sv' = Terminated(nodes[s[1]].ws, s)
    BY <1>1 DEF ServerHandles, Register, ReRegister, GetPeers, TopologyUpdate, RelaySignal,
                ServerClose, serverVars
  <2> QED
    BY <1>0, <2>1, <2>2 DEF Terminated
<1>2. ASSUME NEW k \in Nodes, Connect(k) PROVE ws'[n] = ws[n] /\ phase'[n] = phase[n] /\ sv'[Current(n)] = sv[Current(n)]
  <2>1. k # n
    BY <1>2
  <2>2. Current(n) # <<k, ws[k] + 1>>
    BY <2>1 DEF Current
  <2>3. /\ ws' = [ws EXCEPT ![k] = ws[k] + 1] /\ phase' = [phase EXCEPT ![k] = "open"]
        /\ sv' = [sv EXCEPT ![<<k, ws[k] + 1>>] = "open"]
    BY <1>2 DEF Connect
  <2> QED
    BY <1>0, <2>1, <2>2, <2>3
<1>3. ASSUME NEW k \in Nodes, ClientClose(k) \/ ReconnectTimer(k) \/ Disconnect(k) \/ Restart(k)
      PROVE  UNCHANGED <<ws, sv>> /\ (phase'[n] = "open" => phase[n] = "open")
  BY <1>0, <1>3 DEF ClientClose, ReconnectTimer, Disconnect, Restart, serverVars
<1>4. ASSUME NEW k \in Nodes, ClientHandles(k) PROVE UNCHANGED <<ws, phase, sv>>
  <2>1. \E t : ClientReads(k, t)
    BY <1>4 DEF ClientHandles, OnRegistered, OnPeers, OnPeerJoin, OnPeerLeave, OnSignal, OnOther
  <2> QED
    BY <2>1 DEF ClientReads, serverVars
<1>5. ASSUME NEW k \in Nodes, NEW m \in Nodes, SendSignal(k, m) \/ LinkChange(k, m) PROVE UNCHANGED <<ws, phase, sv>>
  BY <1>5 DEF SendSignal, LinkChange, serverVars
<1>6. UNCHANGED vars => UNCHANGED <<ws, phase, sv>>
  BY DEF vars, serverVars
<1> QED
  BY <1>1, <1>2, <1>3, <1>4, <1>5, <1>6 DEF Next

\* A node without a socket is not known to the server and has no links.
LEMMA NextUnopened == TypeOK /\ OpenInv /\ SocketInv /\ UnopenedInv /\ [Next]_vars => UnopenedInv'
<1> SUFFICES ASSUME TypeOK, OpenInv, SocketInv, UnopenedInv, [Next]_vars, NEW n \in Nodes, ws'[n] = 0
             PROVE  links'[n] = {} /\ virtualIp'[n] = Null /\ n \notin Registered'
  BY DEF UnopenedInv
<1>0. ws \in [Nodes -> Nat] /\ \A s \in Sockets : s[2] \in Nat /\ s[2] # 0
  BY MaxSocketsAssumption, SMTT(30) DEF TypeOK, Sockets
<1>1. ~Connect(n)
  <2>1. Connect(n) => ws'[n] = ws[n] + 1
    BY <1>0 DEF Connect
  <2> QED
    BY <1>0, <2>1
<1>2. ws[n] = 0
  BY <1>1, SocketsGrow
<1>3. links[n] = {} /\ virtualIp[n] = Null /\ n \notin Registered
  BY <1>2 DEF UnopenedInv
<1>4. ~OnRegistered(n)
  <2>1. OnRegistered(n) => phase[n] = "open"
    BY DEF OnRegistered, ClientReads
  <2>2. phase[n] = "open" => <<n, 0>> \in Sockets
    BY <1>2 DEF OpenInv, Current
  <2> QED
    BY <1>0, <2>1, <2>2
<1>5. \A m \in Nodes : ~LinkChange(n, m)
  BY <1>3 DEF LinkChange
<1>6. ASSUME NEW s \in Sockets PROVE ~OwnSocket(n, s)
  <2>1. sv[s] # "none" => s[2] <= ws[s[1]]
    BY DEF SocketInv
  <2> QED
    BY <1>0, <1>2, <2>1 DEF OwnSocket
<1>7. n \in Registered' <=> n \in Registered
  BY <1>6, EntryKept
<1> QED
  BY <1>3, <1>4, <1>5, <1>7, LinksKept

\* Other steps leave the channel of a node's socket to plain messages.
LEMMA ChannelKept ==
  ASSUME TypeOK, [Next]_vars, NEW n \in Nodes, Current(n) \in Sockets, phase[n] = "open", sv[Current(n)] = "open",
         ~Connect(n), \A m \in Nodes : ~LinkChange(n, m),
         LET c == Current(n) IN ~Register(c) /\ ~ReRegister(c) /\ ~TopologyUpdate(c) /\ ~ServerClose(c)
  PROVE  PlainStep(n)
<1>0. c2s \in [Sockets -> Seq(ToServer)]
  BY DEF TypeOK
<1>1. CASE c2s'[Current(n)] = c2s[Current(n)]
  BY <1>1 DEF PlainStep
<1>2. ASSUME NEW s \in Sockets, s # Current(n), ServerHandles(s) \/ ServerClose(s)
      PROVE  c2s'[Current(n)] = c2s[Current(n)]
  <2>1. c2s' = [c2s EXCEPT ![s] = Tail(c2s[s])] \/ c2s' = [c2s EXCEPT ![s] = << >>]
    BY <1>2 DEF ServerHandles, Register, ReRegister, GetPeers, TopologyUpdate, RelaySignal,
                ServerReads, ServerClose
  <2> QED
    BY <1>0, <1>2, <2>1
<1>3. ASSUME NEW s \in Sockets, s = Current(n), GetPeers(s) \/ RelaySignal(s) PROVE PlainStep(n)
  <2>1. /\ c2s' = [c2s EXCEPT ![s] = Tail(c2s[s])] /\ c2s[s] # << >>
        /\ Head(c2s[s]).type \in {"get-peers", "signal"}
    BY <1>3 DEF GetPeers, RelaySignal, ServerReads
  <2>2. c2s'[s] = Tail(c2s[s]) /\ Plain(Head(c2s[s]))
    BY <1>0, <2>1 DEF Plain, IsReport
  <2> QED
    BY <1>3, <2>1, <2>2 DEF PlainStep
<1>4. ASSUME NEW k \in Nodes, Connect(k) PROVE c2s'[Current(n)] = c2s[Current(n)]
  <2>1. Current(n) # <<k, ws[k] + 1>>
    BY <1>4 DEF Current
  <2> QED
    BY <1>0, <1>4, <2>1 DEF Connect
<1>5. ASSUME NEW k \in Nodes, ClientClose(k) \/ ReconnectTimer(k) \/ Disconnect(k) \/ Restart(k)
      PROVE  c2s'[Current(n)] = c2s[Current(n)]
  BY <1>5 DEF ClientClose, ReconnectTimer, Disconnect, Restart
<1>6. ASSUME NEW k \in Nodes, NEW x \in ToServer, Plain(x), c2s' = Sent(k, x) PROVE PlainStep(n)
  <2>1. CASE k = n
    <3>1. Sent(n, x)[Current(n)] = Append(c2s[Current(n)], x)
      BY SentOn
    <3> QED
      BY <1>6, <2>1, <3>1 DEF PlainStep
  <2>2. CASE k # n
    <3>1. Sent(k, x)[Current(n)] = c2s[Current(n)]
      BY <2>2, SentOn
    <3> QED
      BY <1>1, <1>6, <3>1
  <2> QED
    BY <2>1, <2>2
<1>7. ASSUME NEW k \in Nodes, ClientHandles(k) PROVE PlainStep(n)
  <2>1. c2s' = c2s \/ c2s' = Sent(k, [type |-> "get-peers"])
    BY <1>7 DEF ClientHandles, OnRegistered, OnPeers, OnPeerJoin, OnPeerLeave, OnSignal, OnOther
  <2>2. [type |-> "get-peers"] \in ToServer /\ Plain([type |-> "get-peers"])
    BY DEF ToServer, Plain, IsReport
  <2> QED
    BY <1>1, <1>6, <2>1, <2>2
<1>8. ASSUME NEW k \in Nodes, NEW m \in Nodes, SendSignal(k, m) PROVE PlainStep(n)
  <2> DEFINE x == [type |-> "signal", to |-> m, num |-> sent[k][m] + 1, early |-> ~registered[k]]
  <2>1. c2s' = Sent(k, x)
    BY <1>8 DEF SendSignal
  <2>2. sent[k][m] + 1 \in Nat /\ (~registered[k]) \in BOOLEAN
    <3>1. sent[k] \in [Nodes -> Nat] /\ registered[k] \in BOOLEAN
      BY DEF TypeOK
    <3> QED
      BY <3>1
  <2>3. x \in ToServer /\ Plain(x)
    BY <2>2 DEF ToServer, Plain, IsReport
  <2> QED
    BY <1>6, <2>1, <2>3
<1>9. ASSUME NEW k \in Nodes, NEW m \in Nodes, LinkChange(k, m) PROVE c2s'[Current(n)] = c2s[Current(n)]
  <2>1. k # n
    BY <1>9
  <2>2. \E x : c2s' = Sent(k, x)
    BY <1>9 DEF LinkChange
  <2> QED
    BY <2>1, <2>2, SentOn
<1>10. CASE UNCHANGED vars
  BY <1>1, <1>10 DEF vars
<1> QED
  BY <1>1, <1>2, <1>3, <1>4, <1>5, <1>7, <1>8, <1>9, <1>10 DEF Next, ServerHandles

\* The server's record of the links of a node on its first socket stays right.
LEMMA NextReport ==
  TypeOK /\ OpenInv /\ RegistrationInv /\ SocketInv /\ UnopenedInv /\ ReportInv /\ [Next]_vars => ReportInv'
<1> SUFFICES ASSUME TypeOK, OpenInv, RegistrationInv, SocketInv, UnopenedInv, ReportInv, [Next]_vars,
                    NEW n \in Nodes, OnFirst(n)'
             PROVE  Recorded(n)'
  BY DEF ReportInv
<1>0. /\ ws \in [Nodes -> Nat] /\ c2s \in [Sockets -> Seq(ToServer)] /\ nodes \in [Registered -> NodeInfo]
      /\ phase \in [Nodes -> Phases] /\ sv \in [Sockets -> {"none", "open", "terminated", "closed"}]
      /\ \A s \in Sockets : s[1] \in Nodes /\ s[2] \in Nat /\ s[2] # 0 /\ s = <<s[1], s[2]>>
      /\ links \in [Nodes -> SUBSET Nodes]
  BY MaxSocketsAssumption, SMTT(30) DEF TypeOK, Sockets
<1>1. phase'[n] = "open" /\ ws'[n] = 1 /\ sv'[Current(n)'] = "open"
  BY DEF OnFirst
<1>2. CASE Connect(n)
  <2>1. ws[n] = 0 /\ <<n, 1>> \in Sockets /\ Current(n)' = <<n, 1>>
    <3>1. ws'[n] = ws[n] + 1 /\ ws[n] < MaxSockets
      BY <1>2, MaxSocketsAssumption DEF Connect, TypeOK, Bounds
    <3>2. ws[n] = 0 /\ 1 \in 1 .. MaxSockets
      BY <1>0, <1>1, <3>1, MaxSocketsAssumption
    <3> QED
      BY <1>1, <3>2 DEF Current, Sockets
  <2>2. links[n] = {} /\ virtualIp[n] = Null /\ n \notin Registered
    BY <2>1 DEF UnopenedInv
  <2>3. UNCHANGED <<links, virtualIp, nodes>> /\ c2s' = [c2s EXCEPT ![<<n, ws[n] + 1>>] = <<[type |-> "register"]>>]
    BY <1>2 DEF Connect, linkVars
  <2>4. c2s'[<<n, 1>>] = <<[type |-> "register"]>>
    BY <1>0, <2>1, <2>3
  <2>5. \A i \in DOMAIN c2s'[<<n, 1>>] : i = 1 /\ ~IsReport(c2s'[<<n, 1>>][i])
    BY <2>4 DEF IsReport
  <2> QED
    BY <2>1, <2>2, <2>3, <2>5 DEF Recorded, Unentered, Registered
<1> SUFFICES ASSUME ~Connect(n) PROVE Recorded(n)'
  BY <1>2
<1> DEFINE c == Current(n)
<1> DEFINE q == c2s[c]
<1>3. ws[n] = 1 /\ phase[n] = "open" /\ c \in Sockets /\ Current(n)' = c /\ sv'[c] = "open" /\ sv[c] = "open"
      /\ c = <<n, 1>> /\ c[1] = n
  <2>1. ws[n] = 1 /\ phase[n] = "open" /\ Current(n)' = c
    BY <1>1, SocketsGrow DEF Current
  <2>2. c \in Sockets
    BY <2>1 DEF OpenInv
  <2>3. sv'[c] = "open" /\ sv[c] = "open"
    BY <1>1, <2>1, <2>2, SocketsGrow
  <2> QED
    BY <2>1, <2>2, <2>3 DEF Current
<1>4. Recorded(n) /\ q \in Seq(ToServer)
  BY <1>0, <1>3 DEF OnFirst, ReportInv
<1>5. ASSUME NEW s \in Sockets, OwnSocket(n, s) PROVE s = c
  <2>1. s[2] <= 1 /\ s[1] = n
    BY <1>3, <1>5 DEF SocketInv, OwnSocket
  <2>2. s[2] = 1
    BY <1>0, <2>1
  <2> QED
    BY <1>0, <1>3, <2>1, <2>2
<1>6. ~ServerClose(c)
  <2>1. ServerClose(c) => sv'[c] = "closed"
    BY <1>0, <1>3 DEF ServerClose
  <2> QED
    BY <1>3, <2>1
<1>7. ~ReRegister(c) /\ (Register(c) => Recorded(n)')
  <2>1. ASSUME Register(c) \/ ReRegister(c) PROVE q # << >> /\ Head(q) = q[1] /\ 1 \in DOMAIN q /\ q[1].type = "register"
    <3>1. q # << >> /\ Head(q).type = "register"
      BY <2>1 DEF Register, ReRegister, ServerReads
    <3> QED
      BY <1>4, <3>1, Shortened
  <2>2. n \in Registered => \A i \in DOMAIN q : q[i].type # "register"
    BY <1>4 DEF Recorded, Entered
  <2>3. ~ReRegister(c)
    <3>1. ReRegister(c) => n \in Registered
      BY <1>3 DEF ReRegister
    <3> QED
      BY <2>1, <2>2, <3>1
  <2>4. ASSUME Register(c) PROVE Recorded(n)'
    <3>1. /\ n \notin Registered /\ n \in Registered' /\ nodes'[n].connectedPeers = {}
          /\ c \in registeredAs' /\ c2s' = [c2s EXCEPT ![c] = Tail(q)] /\ UNCHANGED links
      BY <1>3, <2>4 DEF Register, ServerReads, Registered, linkVars
    <3>2. links[n] = {} /\ \A i \in DOMAIN q : (q[i].type = "register" => i = 1) /\ ~IsReport(q[i])
      BY <1>4, <3>1 DEF Recorded, Unentered
    <3>3. \A i \in DOMAIN Tail(q) : i \in Nat \ {0} /\ i + 1 \in DOMAIN q /\ Tail(q)[i] = q[i + 1]
      BY <1>4, <2>1, <2>4, Shortened
    <3>4. \A i \in DOMAIN Tail(q) : i + 1 # 1
      BY <3>3
    <3>5. \A i \in DOMAIN Tail(q) : Tail(q)[i].type # "register" /\ ~IsReport(Tail(q)[i])
      BY <3>2, <3>3, <3>4
    <3>6. c2s'[c] = Tail(q) /\ links'[n] = {}
      BY <1>0, <1>3, <3>1, <3>2
    <3> HIDE DEF c, q
    <3>7. WillRecord(nodes'[n].connectedPeers, c2s'[c], links'[n])
      BY <3>1, <3>5, <3>6 DEF WillRecord
    <3> QED
      BY <1>3, <3>1, <3>5, <3>6, <3>7 DEF Recorded, Entered
  <2> QED
    BY <2>3, <2>4
<1>8. TopologyUpdate(c) => Recorded(n)'
  <2> SUFFICES ASSUME TopologyUpdate(c) PROVE Recorded(n)'
    OBVIOUS
  <2> DEFINE to == Head(q).connectedTo
  <2>1. /\ q # << >> /\ IsReport(Head(q)) /\ c2s' = [c2s EXCEPT ![c] = Tail(q)] /\ UNCHANGED <<links, registeredAs>>
        /\ IF c \in registeredAs /\ n \in Registered
             THEN nodes' = [nodes EXCEPT ![n].connectedPeers = to] ELSE UNCHANGED nodes
    BY <1>3 DEF TopologyUpdate, ServerReads, linkVars, IsReport
  <2>2. /\ Head(q) = q[1] /\ 1 \in DOMAIN q
        /\ \A i \in DOMAIN Tail(q) : i + 1 \in DOMAIN q /\ Tail(q)[i] = q[i + 1]
    BY <1>4, <2>1, Shortened
  <2>3. n \in Registered
    BY <1>4, <2>1, <2>2 DEF Recorded, Unentered
  <2>4. c \in registeredAs /\ (\A i \in DOMAIN q : q[i].type # "register") /\ WillRecord(nodes[n].connectedPeers, q, links[n])
    BY <1>4, <2>3 DEF Recorded, Entered
  <2>5. nodes' = [nodes EXCEPT ![n] = [nodes[n] EXCEPT !.connectedPeers = to]]
    BY <2>1, <2>3, <2>4
  <2>6. nodes'[n].connectedPeers = to /\ n \in Registered'
    <3>1. nodes[n] \in NodeInfo
      BY <1>0, <2>3
    <3>2. [nodes[n] EXCEPT !.connectedPeers = to].connectedPeers = to
      BY <3>1 DEF NodeInfo
    <3> QED
      BY <1>0, <2>3, <2>5, <3>2 DEF Registered
  <2>7. WillRecord(to, Tail(q), links[n])
    BY <1>4, <2>1, <2>4, RecordRead
  <2>8. c2s'[c] = Tail(q)
    BY <1>0, <1>3, <2>1
  <2>9. \A i \in DOMAIN Tail(q) : Tail(q)[i].type # "register"
    BY <2>2, <2>4
  <2> HIDE DEF c, q, to
  <2> QED
    BY <1>3, <2>1, <2>4, <2>6, <2>7, <2>8, <2>9 DEF Recorded, Entered
<1>9. ASSUME NEW m \in Nodes, LinkChange(n, m) PROVE Recorded(n)'
  <2> DEFINE now == IF m \in links[n] THEN links[n] \ {m} ELSE links[n] \cup {m}
  <2> DEFINE x == LinkReport(n, now)
  <2>1. /\ virtualIp[n] # Null /\ links' = [links EXCEPT ![n] = now] /\ c2s' = Sent(n, x)
        /\ UNCHANGED <<nodes, registeredAs>>
    BY <1>9 DEF LinkChange, serverVars
  <2>2. n \in Registered
    BY <1>4, <2>1 DEF Recorded, Unentered
  <2>3. c \in registeredAs /\ \A i \in DOMAIN q : q[i].type # "register"
    BY <1>4, <2>2 DEF Recorded, Entered
  <2>4. x \in ToServer /\ IsReport(x) /\ x.connectedTo = now /\ x.type # "register"
    BY <1>0 DEF ToServer, LinkReport, IsReport
  <2>5. links'[n] = now
    BY <1>0, <2>1
  <2> HIDE DEF x, now
  <2>6. Sent(n, x)[c] = Append(q, x)
    BY <1>3, SentOn
  <2>7. c2s'[c] = Append(q, x) /\ n \in Registered'
    BY <2>1, <2>2, <2>6 DEF Registered
  <2> HIDE DEF c, q
  <2>8. WillRecord(nodes'[n].connectedPeers, c2s'[c], links'[n])
    BY <1>4, <2>4, <2>5, <2>7, RecordMore
  <2>9. \A i \in DOMAIN c2s'[c] : c2s'[c][i].type # "register"
    <3>1. \A i \in DOMAIN Append(q, x) : Append(q, x)[i] = x \/ (i \in DOMAIN q /\ Append(q, x)[i] = q[i])
      BY <1>4, <2>4, Extended
    <3> QED
      BY <2>3, <2>4, <2>7, <3>1
  <2> QED
    BY <1>3, <2>1, <2>3, <2>7, <2>8, <2>9 DEF Recorded, Entered
<1>10. ASSUME ~Register(c), ~TopologyUpdate(c), \A m \in Nodes : ~LinkChange(n, m) PROVE Recorded(n)'
  <2>1. PlainStep(n)
    BY <1>3, <1>6, <1>7, <1>10, ChannelKept
  <2>2. \A s \in Sockets : OwnSocket(n, s) =>
          ~Register(s) /\ ~ReRegister(s) /\ ~TopologyUpdate(s) /\ ~ServerClose(s)
    BY <1>5, <1>6, <1>7, <1>10
  <2>3. /\ n \in Registered' <=> n \in Registered
        /\ n \in Registered => nodes'[n].connectedPeers = nodes[n].connectedPeers
        /\ registeredAs \subseteq registeredAs'
    BY <2>2, EntryKept
  <2>4. ~Disconnect(n) /\ ~Restart(n)
    <3>1. Disconnect(n) \/ Restart(n) => phase'[n] # "open"
      BY <1>0 DEF Disconnect, Restart
    <3> QED
      BY <1>1, <3>1
  <2>5. links'[n] = links[n] /\ (virtualIp'[n] = virtualIp[n] \/ OnRegistered(n))
    BY <1>10, <2>4, LinksKept
  <2>6. OnRegistered(n) => n \in Registered
    <3> SUFFICES ASSUME OnRegistered(n) PROVE n \in Registered
      OBVIOUS
    <3>1. s2c[n] # << >> /\ Head(s2c[n]).type = "registered" /\ s2c[n] \in Seq(ToClient)
      BY DEF OnRegistered, ClientReads, TypeOK
    <3>2. Head(s2c[n]) = s2c[n][1] /\ 1 \in DOMAIN s2c[n]
      BY <3>1, Shortened
    <3>3. Answered(n)
      BY <3>1, <3>2 DEF Answered, IsAnswer
    <3> QED
      BY <1>3, <3>3 DEF RegistrationInv, Holds
  <2>7. virtualIp'[n] = virtualIp[n] \/ n \in Registered
    BY <2>5, <2>6
  <2>8. ws'[n] = ws[n]
    BY <1>1, <1>3
  <2> QED
    BY <1>3, <1>4, <2>1, <2>3, <2>5, <2>7, <2>8, StaysRecorded
<1> QED
  BY <1>7, <1>8, <1>9, <1>10

\* A client that has read everything knows every other registered node, and the server has the
\* links that a client on its first socket has reported: get-peers, peer-join, peer-leave and
\* topology-update lose nothing between them, however registrations, close events and messages of
\* any number of nodes and sockets interleave.
THEOREM ViewsStayTogether == Spec => []ViewsAgree
<1> DEFINE Inv == /\ TypeOK /\ OpenInv /\ RegistrationInv /\ PeerInv
                  /\ SocketInv /\ UnopenedInv /\ ReportInv
<1>1. Init => Inv
  <2> SUFFICES ASSUME Init PROVE Inv
    OBVIOUS
  <2>1. TypeOK
    BY InitType
  <2>2. OpenInv /\ RegistrationInv /\ PeerInv
    BY DEF Init, OpenInv, RegistrationInv, PeerInv, Answered, IsAnswer
  <2>3. SocketInv /\ ReportInv
    BY DEF Init, SocketInv, ReportInv, OnFirst
  <2>4. UnopenedInv
    BY DEF Init, UnopenedInv, Registered
  <2> QED
    BY <2>1, <2>2, <2>3, <2>4
<1>2. Inv /\ [Next]_vars => Inv'
  BY NextType, NextOpen, NextRegistration, NextPeers, NextSockets, NextUnopened, NextReport
<1>3. Inv => ViewsAgree
  <2> SUFFICES ASSUME Inv, NEW n \in Nodes, Quiet(n)
               PROVE  /\ Registered \ {n} \subseteq peers[n]
                      /\ ws[n] = 1 /\ c2s[Current(n)] = << >> => nodes[n].connectedPeers = links[n]
    BY DEF ViewsAgree, NoPeerMissed, TopologyReported
  <2>1. /\ registered[n] /\ sv[Current(n)] = "open" /\ s2c[n] = << >>
        /\ ~ \E i \in 1 .. Len(c2s[Current(n)]) : c2s[Current(n)][i].type = "get-peers"
    BY DEF Quiet
  <2>2. Answered(n) /\ phase[n] = "open" /\ n \in Registered
    BY <2>1 DEF Answered, RegistrationInv, Holds
  <2>3. c2s[Current(n)] \in Seq(ToServer)
    BY <2>2 DEF OpenInv, TypeOK
  <2>4. ~Asks(n)
    BY <2>1, <2>3 DEF Asks, IsAnswer, IsQuestion
  <2>5. \A m \in Registered \ {n} : WillKnow(peers[n], s2c[n], m)
    BY <2>1, <2>2, <2>4 DEF PeerInv
  <2>6. Registered \ {n} \subseteq peers[n]
    BY <2>1, <2>5 DEF WillKnow
  <2>7. ASSUME ws[n] = 1, c2s[Current(n)] = << >> PROVE nodes[n].connectedPeers = links[n]
    <3>1. Entered(n)
      BY <2>1, <2>2, <2>7 DEF ReportInv, OnFirst, Recorded
    <3> QED
      BY <2>7, <3>1 DEF Entered, WillRecord
  <2> QED
    BY <2>6, <2>7
<1> QED
  BY <1>1, <1>2, <1>3, PTL DEF Spec

-----------------------------------------------------------------------------
(* The order of signals *)

\* Signals that count: those sent after `registered' had come, to n and from m.
ToNode(x, n)   == x.type = "signal" /\ ~x.early /\ x.to = n
FromNode(x, m) == x.type = "signal" /\ ~x.early /\ x.from = m

\* Every entry has a socket of its own node that has registered, and a registered socket that the
\* server has open is the one its node's entry has: a node has at most one such socket.
EntryInv ==
  /\ \A n \in Registered : nodes[n].ws \in registeredAs /\ nodes[n].ws[1] = n
  /\ \A s \in registeredAs : /\ sv[s] # "none"
                             /\ sv[s] = "open" => s[1] \in Registered /\ nodes[s[1]].ws = s

\* What is on a socket that has not registered was sent early.
EarlyInv ==
  \A s \in Sockets : \A i \in DOMAIN c2s[s] :
    c2s[s][i].type = "signal" /\ ~c2s[s][i].early => s \in registeredAs

\* Node m has sent `hi' signals to n, which has seen number `lo': those under way, cq to the server
\* and behind them sq to n, are numbered upwards from lo to hi.
Line(lo, hi, sq, m, cq, n) ==
  /\ lo <= hi
  /\ \A i \in DOMAIN sq : FromNode(sq[i], m) => lo < sq[i].num /\ sq[i].num <= hi
  /\ \A i, j \in DOMAIN sq : i < j /\ FromNode(sq[i], m) /\ FromNode(sq[j], m) => sq[i].num < sq[j].num
  /\ \A i \in DOMAIN cq : ToNode(cq[i], n) => lo < cq[i].num /\ cq[i].num <= hi
  /\ \A i, j \in DOMAIN cq : i < j /\ ToNode(cq[i], n) /\ ToNode(cq[j], n) => cq[i].num < cq[j].num
  /\ \A i \in DOMAIN sq, j \in DOMAIN cq : FromNode(sq[i], m) /\ ToNode(cq[j], n) => sq[i].num < cq[j].num

\* The channels on which signals of m may still reach the server.
Waiting(m) == {<< >>} \cup {c2s[s] : s \in {c \in Sockets : c[1] = m /\ sv[c] = "open"}}
SignalInv ==
  \A n, m \in Nodes : \A q \in Waiting(m) : Line(seen[n][m], sent[m][n], s2c[n], m, q, n)

\* A signal has a number.
LEMMA SignalNumbered ==
  /\ \A x \in ToClient : x.type = "signal" => x.num \in Nat /\ x.from \in Nodes /\ x.early \in BOOLEAN
  /\ \A x \in ToServer : x.type = "signal" => x.num \in Nat /\ x.to \in Nodes /\ x.early \in BOOLEAN
BY DEF ToClient, ToServer

\* A line stays one when the receiver's channel loses a message, is emptied, or gets one that is not
\* a signal of m that counts.
LEMMA LineBelow ==
  ASSUME NEW lo \in Nat, NEW hi \in Nat, NEW m, NEW n, NEW sq \in Seq(ToClient), NEW cq \in Seq(ToServer),
         Line(lo, hi, sq, m, cq, n), NEW r,
         \/ r = sq \/ r = << >> \/ (sq # << >> /\ r = Tail(sq))
         \/ \E x \in ToClient : ~FromNode(x, m) /\ r = Append(sq, x)
  PROVE  Line(lo, hi, r, m, cq, n)
<1>1. CASE r = sq \/ r = << >>
  BY <1>1 DEF Line
<1>2. CASE sq # << >> /\ r = Tail(sq)
  <2>1. \A i \in DOMAIN r : i \in Nat /\ i + 1 \in DOMAIN sq /\ r[i] = sq[i + 1]
    BY <1>2, Shortened
  <2>2. \A i, j \in DOMAIN r : i < j => i + 1 < j + 1
    BY <2>1
  <2> QED
    BY <2>1, <2>2 DEF Line
<1>3. ASSUME NEW x \in ToClient, ~FromNode(x, m), r = Append(sq, x) PROVE Line(lo, hi, r, m, cq, n)
  <2>1. \A i \in DOMAIN r : (i \in DOMAIN sq /\ r[i] = sq[i]) \/ r[i] = x
    BY <1>3, Extended
  <2>2. \A i \in DOMAIN r : FromNode(r[i], m) => i \in DOMAIN sq /\ r[i] = sq[i]
    BY <1>3, <2>1
  <2> QED
    BY <2>2 DEF Line
<1> QED
  BY <1>1, <1>2, <1>3

\* The same for the sender's channel.
LEMMA LineAbove ==
  ASSUME NEW lo \in Nat, NEW hi \in Nat, NEW m, NEW n, NEW sq \in Seq(ToClient), NEW cq \in Seq(ToServer),
         Line(lo, hi, sq, m, cq, n), NEW r,
         \/ r = cq \/ r = << >> \/ (cq # << >> /\ r = Tail(cq))
         \/ \E x \in ToServer : ~ToNode(x, n) /\ r = Append(cq, x)
  PROVE  Line(lo, hi, sq, m, r, n)
<1>1. CASE r = cq \/ r = << >>
  BY <1>1 DEF Line
<1>2. CASE cq # << >> /\ r = Tail(cq)
  <2>1. \A i \in DOMAIN r : i \in Nat /\ i + 1 \in DOMAIN cq /\ r[i] = cq[i + 1]
    BY <1>2, Shortened
  <2>2. \A i, j \in DOMAIN r : i < j => i + 1 < j + 1
    BY <2>1
  <2> QED
    BY <2>1, <2>2 DEF Line
<1>3. ASSUME NEW x \in ToServer, ~ToNode(x, n), r = Append(cq, x) PROVE Line(lo, hi, sq, m, r, n)
  <2>1. \A i \in DOMAIN r : (i \in DOMAIN cq /\ r[i] = cq[i]) \/ r[i] = x
    BY <1>3, Extended
  <2>2. \A i \in DOMAIN r : ToNode(r[i], n) => i \in DOMAIN cq /\ r[i] = cq[i]
    BY <1>3, <2>1
  <2> QED
    BY <2>2 DEF Line
<1> QED
  BY <1>1, <1>2, <1>3

\* A channel without signals that count is as good as an empty one.
LEMMA LineBare ==
  ASSUME NEW lo \in Nat, NEW hi \in Nat, NEW m, NEW n, NEW sq \in Seq(ToClient), NEW cq,
         Line(lo, hi, sq, m, << >>, n), \A i \in DOMAIN cq : ~ToNode(cq[i], n)
  PROVE  Line(lo, hi, sq, m, cq, n)
BY DEF Line

\* The server passes the first signal on.
LEMMA LineRelayed ==
  ASSUME NEW lo \in Nat, NEW hi \in Nat, NEW m, NEW n, NEW sq \in Seq(ToClient), NEW cq \in Seq(ToServer),
         Line(lo, hi, sq, m, cq, n), cq # << >>, ToNode(Head(cq), n),
         NEW x \in ToClient, FromNode(x, m), x.num = Head(cq).num
  PROVE  Line(lo, hi, Append(sq, x), m, Tail(cq), n)
<1> DEFINE r == Append(sq, x)
           t == Tail(cq)
           h == Head(cq)
<1>1. /\ \A i \in DOMAIN r : i \in Nat /\ ((i \in DOMAIN sq /\ r[i] = sq[i]) \/ (i = Len(sq) + 1 /\ r[i] = x))
      /\ \A i \in DOMAIN sq : i \in Nat /\ i < Len(sq) + 1
      /\ Len(sq) + 1 \in Nat
  BY Extended
<1>2. /\ h = cq[1] /\ 1 \in DOMAIN cq
      /\ \A i \in DOMAIN t : i \in Nat \ {0} /\ i + 1 \in DOMAIN cq /\ t[i] = cq[i + 1]
  BY Shortened
<1>3. \A i \in DOMAIN t : 1 < i + 1
  BY <1>2
<1>4. \A i, j \in DOMAIN t : i < j => i + 1 < j + 1
  BY <1>2
<1>5. lo < x.num /\ x.num <= hi
  BY <1>2 DEF Line
<1>6. \A i \in DOMAIN sq : FromNode(sq[i], m) => sq[i].num < x.num
  BY <1>2 DEF Line
<1>7. \A j \in DOMAIN t : ToNode(t[j], n) => x.num < t[j].num
  BY <1>2, <1>3 DEF Line
<1>8. \A i, j \in DOMAIN r : i < j => i \in DOMAIN sq /\ r[i] = sq[i]
  BY <1>1
<1> HIDE DEF r, t, h
<1>9. \A i \in DOMAIN r : FromNode(r[i], m) => lo < r[i].num /\ r[i].num <= hi
  BY <1>1, <1>5 DEF Line
<1>10. \A i, j \in DOMAIN r : i < j /\ FromNode(r[i], m) /\ FromNode(r[j], m) => r[i].num < r[j].num
  BY <1>1, <1>6, <1>8 DEF Line
<1>11. \A i \in DOMAIN t : ToNode(t[i], n) => lo < t[i].num /\ t[i].num <= hi
  BY <1>2 DEF Line
<1>12. \A i, j \in DOMAIN t : i < j /\ ToNode(t[i], n) /\ ToNode(t[j], n) => t[i].num < t[j].num
  BY <1>2, <1>4 DEF Line
<1>13. \A i \in DOMAIN r, j \in DOMAIN t : FromNode(r[i], m) /\ ToNode(t[j], n) => r[i].num < t[j].num
  BY <1>1, <1>2, <1>7 DEF Line
<1>14. lo <= hi
  BY DEF Line
<1>15. Line(lo, hi, r, m, t, n)
  BY <1>9, <1>10, <1>11, <1>12, <1>13, <1>14 DEF Line
<1> QED
  BY <1>15 DEF r, t

\* Node n takes the first signal.
LEMMA LineSeen ==
  ASSUME NEW lo \in Nat, NEW hi \in Nat, NEW m, NEW n, NEW sq \in Seq(ToClient), NEW cq \in Seq(ToServer),
         Line(lo, hi, sq, m, cq, n), sq # << >>, FromNode(Head(sq), m)
  PROVE  Head(sq).num > lo /\ Line(Head(sq).num, hi, Tail(sq), m, cq, n)
<1> DEFINE t == Tail(sq)
           h == Head(sq)
<1>1. /\ h = sq[1] /\ 1 \in DOMAIN sq /\ h \in ToClient
      /\ \A i \in DOMAIN t : i \in Nat \ {0} /\ i + 1 \in DOMAIN sq /\ t[i] = sq[i + 1]
  BY Shortened
<1>2. h.num \in Nat
  BY <1>1, SignalNumbered DEF FromNode
<1>3. \A i \in DOMAIN t : 1 < i + 1
  BY <1>1
<1>4. \A i, j \in DOMAIN t : i < j => i + 1 < j + 1
  BY <1>1
<1>5. lo < h.num /\ h.num <= hi
  BY <1>1 DEF Line
<1>6. \A i \in DOMAIN t : FromNode(t[i], m) => h.num < t[i].num /\ t[i].num <= hi
  BY <1>1, <1>3 DEF Line
<1>7. \A j \in DOMAIN cq : ToNode(cq[j], n) => h.num < cq[j].num
  BY <1>1 DEF Line
<1>8. h.num > lo
  BY <1>2, <1>5
<1> HIDE DEF t, h
<1>9. Line(h.num, hi, t, m, cq, n)
  BY <1>1, <1>4, <1>5, <1>6, <1>7 DEF Line
<1> QED
  BY <1>8, <1>9 DEF t, h

\* Node m sends another signal to n: it is lost, or goes behind the others.
LEMMA LineSent ==
  ASSUME NEW lo \in Nat, NEW hi \in Nat, NEW m, NEW n, NEW sq \in Seq(ToClient), NEW cq \in Seq(ToServer),
         Line(lo, hi, sq, m, cq, n), NEW x \in ToServer, x.type = "signal", x.num = hi + 1
  PROVE  Line(lo, hi + 1, sq, m, cq, n) /\ Line(lo, hi + 1, sq, m, Append(cq, x), n)
<1> DEFINE r == Append(cq, x)
<1>1. /\ \A i \in DOMAIN r : i \in Nat /\ ((i \in DOMAIN cq /\ r[i] = cq[i]) \/ (i = Len(cq) + 1 /\ r[i] = x))
      /\ \A i \in DOMAIN cq : i \in Nat /\ i < Len(cq) + 1
      /\ Len(cq) + 1 \in Nat
  BY Extended
<1>2. /\ \A i \in DOMAIN sq : FromNode(sq[i], m) => sq[i].num \in Nat
      /\ \A i \in DOMAIN cq : ToNode(cq[i], n) => cq[i].num \in Nat
  <2>1. (\A i \in DOMAIN sq : sq[i] \in ToClient) /\ \A i \in DOMAIN cq : cq[i] \in ToServer
    OBVIOUS
  <2> QED
    BY <2>1, SignalNumbered DEF FromNode, ToNode
<1>3. \A k \in Nat : k <= hi => k <= hi + 1 /\ k < hi + 1
  OBVIOUS
<1>4. /\ \A i \in DOMAIN sq : FromNode(sq[i], m) => sq[i].num <= hi + 1 /\ sq[i].num < hi + 1
      /\ \A i \in DOMAIN cq : ToNode(cq[i], n) => cq[i].num <= hi + 1 /\ cq[i].num < hi + 1
      /\ lo <= hi + 1 /\ lo < hi + 1
  BY <1>2, <1>3 DEF Line
<1>5. Line(lo, hi + 1, sq, m, cq, n)
  BY <1>4 DEF Line
<1>6. \A i, j \in DOMAIN r : i < j => i \in DOMAIN cq /\ r[i] = cq[i]
  BY <1>1
<1> HIDE DEF r
<1>7. \A i \in DOMAIN r : ToNode(r[i], n) => lo < r[i].num /\ r[i].num <= hi + 1
  BY <1>1, <1>4, <1>5 DEF Line
<1>8. \A i, j \in DOMAIN r : i < j /\ ToNode(r[i], n) /\ ToNode(r[j], n) => r[i].num < r[j].num
  BY <1>1, <1>4, <1>5, <1>6 DEF Line
<1>9. \A i \in DOMAIN sq, j \in DOMAIN r : FromNode(sq[i], m) /\ ToNode(r[j], n) => sq[i].num < r[j].num
  BY <1>1, <1>4, <1>5 DEF Line
<1>10. Line(lo, hi + 1, sq, m, r, n)
  BY <1>5, <1>7, <1>8, <1>9 DEF Line
<1> QED
  BY <1>5, <1>10 DEF r

\* How a registration changes the registry: the node's entry has the new socket, which the
\* server has open, and no other socket of the node that has registered is open any more.
LEMMA RegisterEffect ==
  ASSUME TypeOK, NEW s \in Sockets, Register(s) \/ ReRegister(s)
  PROVE  /\ s[1] \in Registered' /\ nodes'[s[1]].ws = s
         /\ \A k \in Registered' \ {s[1]} : k \in Registered /\ nodes'[k] = nodes[k]
         /\ \A k \in Registered \ {s[1]} : k \in Registered' /\ nodes'[k] = nodes[k]
         /\ registeredAs' = registeredAs \cup {s}
         /\ sv[s] = "open" /\ sv'[s] = "open"
         /\ \A c \in Sockets : (sv'[c] = "open" => sv[c] = "open") /\ (sv'[c] = "none" => sv[c] = "none")
         /\ \A c \in Sockets : c # s /\ sv'[c] = "open" => ~(s[1] \in Registered /\ nodes[s[1]].ws = c)
<1>1. sv \in [Sockets -> {"none", "open", "terminated", "closed"}]
  BY DEF TypeOK
<1>2. sv[s] = "open" /\ registeredAs' = registeredAs \cup {s}
  BY DEF Register, ReRegister, ServerReads
<1>3. CASE Register(s)
  <2>1. sv' = sv /\ s[1] \notin Registered
    BY <1>3 DEF Register
  <2>2. /\ s[1] \in Registered' /\ nodes'[s[1]].ws = s
        /\ \A k \in Registered' \ {s[1]} : k \in Registered /\ nodes'[k] = nodes[k]
        /\ \A k \in Registered \ {s[1]} : k \in Registered' /\ nodes'[k] = nodes[k]
    BY <1>3 DEF Register, Registered
  <2> QED
    BY <1>2, <2>1, <2>2
<1>4. CASE ReRegister(s)
  <2> DEFINE old == nodes[s[1]].ws
  <2>1. s[1] \in Registered /\ nodes \in [Registered -> NodeInfo] /\ nodes[s[1]] \in NodeInfo
    BY <1>4 DEF ReRegister, TypeOK
  <2>2. nodes' = [nodes EXCEPT ![s[1]] = [nodes[s[1]] EXCEPT !.ws = s]] /\ sv' = Terminated(old, s)
    BY <1>4 DEF ReRegister
  <2>3. [nodes[s[1]] EXCEPT !.ws = s].ws = s
    BY <2>1 DEF NodeInfo
  <2>4. /\ s[1] \in Registered' /\ nodes'[s[1]].ws = s
        /\ \A k \in Registered' \ {s[1]} : k \in Registered /\ nodes'[k] = nodes[k]
        /\ \A k \in Registered \ {s[1]} : k \in Registered' /\ nodes'[k] = nodes[k]
    BY <2>1, <2>2, <2>3 DEF Registered
  <2>5. /\ \A c \in Sockets : (sv'[c] = "open" => sv[c] = "open") /\ (sv'[c] = "none" => sv[c] = "none")
        /\ \A c \in Sockets : c # s /\ sv'[c] = "open" => old # c
        /\ sv'[s] = "open"
    BY <1>1, <1>2, <2>2 DEF Terminated
  <2> QED
    BY <1>2, <2>4, <2>5
<1> QED
  BY <1>3, <1>4

\* A topology-update leaves the sockets of the entries alone.
LEMMA UpdateKeepsSockets ==
  ASSUME TypeOK, NEW s \in Sockets, TopologyUpdate(s)
  PROVE  Registered' = Registered /\ \A k \in Registered : nodes'[k].ws = nodes[k].ws
<1>1. CASE s \in registeredAs /\ s[1] \in Registered
  <2> DEFINE to == Head(c2s[s]).connectedTo
  <2>1. nodes \in [Registered -> NodeInfo] /\ nodes[s[1]] \in NodeInfo
    BY <1>1 DEF TypeOK
  <2>2. nodes' = [nodes EXCEPT ![s[1]] = [nodes[s[1]] EXCEPT !.connectedPeers = to]]
    BY <1>1 DEF TopologyUpdate
  <2>3. [nodes[s[1]] EXCEPT !.connectedPeers = to].ws = nodes[s[1]].ws
    BY <2>1 DEF NodeInfo
  <2> QED
    BY <2>1, <2>2, <2>3 DEF Registered
<1>2. CASE ~(s \in registeredAs /\ s[1] \in Registered)
  BY <1>2 DEF TopologyUpdate, Registered
<1> QED
  BY <1>1, <1>2

\* Entries and registered sockets go on belonging together.
LEMMA NextEntry == TypeOK /\ SocketInv /\ EntryInv /\ [Next]_vars => EntryInv'
<1> SUFFICES ASSUME TypeOK, SocketInv, EntryInv, [Next]_vars PROVE EntryInv'
  OBVIOUS
<1>0. /\ sv \in [Sockets -> {"none", "open", "terminated", "closed"}] /\ registeredAs \subseteq Sockets
      /\ ws \in [Nodes -> Nat]
      /\ \A s \in Sockets : s[1] \in Nodes /\ s[2] \in Nat
  BY MaxSocketsAssumption DEF TypeOK, Sockets
<1>1. ASSUME UNCHANGED <<nodes, registeredAs, sv>> PROVE EntryInv'
  BY <1>1 DEF EntryInv, Registered
<1>2. ASSUME NEW s \in Sockets, Register(s) \/ ReRegister(s) PROVE EntryInv'
  <2>1. /\ s[1] \in Registered' /\ nodes'[s[1]].ws = s
        /\ \A k \in Registered' \ {s[1]} : k \in Registered /\ nodes'[k] = nodes[k]
        /\ \A k \in Registered \ {s[1]} : k \in Registered' /\ nodes'[k] = nodes[k]
        /\ registeredAs' = registeredAs \cup {s}
    BY <1>2, RegisterEffect
  <2>2. /\ sv[s] = "open" /\ sv'[s] = "open"
        /\ \A c \in Sockets : (sv'[c] = "open" => sv[c] = "open") /\ (sv'[c] = "none" => sv[c] = "none")
        /\ \A c \in Sockets : c # s /\ sv'[c] = "open" => ~(s[1] \in Registered /\ nodes[s[1]].ws = c)
    BY <1>2, RegisterEffect
  <2>3. ASSUME NEW n \in Registered' PROVE nodes'[n].ws \in registeredAs' /\ nodes'[n].ws[1] = n
    BY <2>1 DEF EntryInv
  <2>4. ASSUME NEW c \in registeredAs'
        PROVE sv'[c] # "none" /\ (sv'[c] = "open" => c[1] \in Registered' /\ nodes'[c[1]].ws = c)
    <3>1. CASE c = s
      BY <2>1, <2>2, <3>1
    <3>2. CASE c # s
      <4>1. c \in registeredAs /\ c \in Sockets
        BY <1>0, <2>1, <3>2
      <4>2. sv[c] # "none" /\ (sv[c] = "open" => c[1] \in Registered /\ nodes[c[1]].ws = c)
        BY <4>1 DEF EntryInv
      <4>3. sv'[c] = "open" => c[1] # s[1]
        BY <2>2, <3>2, <4>1, <4>2
      <4> QED
        BY <2>1, <2>2, <4>1, <4>2, <4>3
    <3> QED
      BY <3>1, <3>2
  <2> QED
    BY <2>3, <2>4 DEF EntryInv
<1>3. ASSUME NEW s \in Sockets, TopologyUpdate(s) PROVE EntryInv'
  <2>1. UNCHANGED <<sv, registeredAs>>
    BY <1>3 DEF TopologyUpdate
  <2>2. Registered' = Registered /\ \A k \in Registered : nodes'[k].ws = nodes[k].ws
    BY <1>3, UpdateKeepsSockets
  <2> QED
    BY <2>1, <2>2 DEF EntryInv
<1>4. ASSUME NEW s \in Sockets, GetPeers(s) \/ RelaySignal(s) PROVE EntryInv'
  BY <1>1, <1>4 DEF GetPeers, RelaySignal, serverVars
<1>5. ASSUME NEW s \in Sockets, ServerClose(s) PROVE EntryInv'
  <2>1. sv' = [sv EXCEPT ![s] = "closed"] /\ registeredAs' = registeredAs /\ sv[s] # "none"
    BY <1>5 DEF ServerClose
  <2>2. /\ \A k \in Registered' : k \in Registered /\ nodes'[k] = nodes[k]
        /\ \A k \in Registered : nodes[k].ws # s => k \in Registered' /\ nodes'[k] = nodes[k]
    <3>1. CASE CurrentSocketOf(s)
      <4>1. nodes' = [k \in Registered \ {s[1]} |-> nodes[k]] /\ nodes[s[1]].ws = s
        BY <1>5, <3>1 DEF ServerClose, CurrentSocketOf
      <4> QED
        BY <4>1 DEF Registered
    <3>2. CASE ~CurrentSocketOf(s)
      BY <1>5, <3>2 DEF ServerClose, Registered
    <3> QED
      BY <3>1, <3>2
  <2>3. ASSUME NEW n \in Registered' PROVE nodes'[n].ws \in registeredAs' /\ nodes'[n].ws[1] = n
    BY <2>1, <2>2 DEF EntryInv
  <2>4. ASSUME NEW c \in registeredAs'
        PROVE sv'[c] # "none" /\ (sv'[c] = "open" => c[1] \in Registered' /\ nodes'[c[1]].ws = c)
    <3>1. c \in registeredAs /\ c \in Sockets
      BY <1>0, <2>1
    <3>2. sv'[c] # "none" /\ (sv'[c] = "open" => c # s /\ sv[c] = "open")
      BY <1>0, <2>1, <3>1 DEF EntryInv
    <3> QED
      BY <2>2, <3>1, <3>2 DEF EntryInv
  <2> QED
    BY <2>3, <2>4 DEF EntryInv
<1>6. ASSUME NEW n \in Nodes, Connect(n) PROVE EntryInv'
  <2> DEFINE o == <<n, ws[n] + 1>>
  <2>1. UNCHANGED <<nodes, registeredAs>> /\ sv' = [sv EXCEPT ![o] = "open"]
    BY <1>6 DEF Connect
  <2>2. ASSUME NEW c \in registeredAs PROVE c # o /\ c \in Sockets
    <3>1. c \in Sockets /\ c[2] <= ws[c[1]]
      BY <1>0 DEF EntryInv, SocketInv
    <3>2. c = o => c[1] = n /\ c[2] = ws[n] + 1
      OBVIOUS
    <3>3. ws[n] \in Nat
      BY <1>0
    <3> QED
      BY <3>1, <3>2, <3>3
  <2> HIDE DEF o
  <2>3. \A c \in registeredAs : sv'[c] = sv[c]
    BY <1>0, <2>1, <2>2
  <2> QED
    BY <2>1, <2>3 DEF EntryInv, Registered
<1>7. ASSUME NEW n \in Nodes, ClientClose(n) \/ ReconnectTimer(n) \/ Disconnect(n) \/ Restart(n)
      PROVE  EntryInv'
  BY <1>1, <1>7 DEF ClientClose, ReconnectTimer, Disconnect, Restart, serverVars
<1>8. ASSUME NEW n \in Nodes, ClientHandles(n) PROVE EntryInv'
  <2>1. \E t : ClientReads(n, t)
    BY <1>8 DEF ClientHandles, OnRegistered, OnPeers, OnPeerJoin, OnPeerLeave, OnSignal, OnOther
  <2> QED
    BY <1>1, <2>1 DEF ClientReads, serverVars
<1>9. ASSUME NEW n \in Nodes, NEW m \in Nodes, SendSignal(n, m) \/ LinkChange(n, m) PROVE EntryInv'
  BY <1>1, <1>9 DEF SendSignal, LinkChange, serverVars
<1>10. CASE UNCHANGED vars
  BY <1>1, <1>10 DEF vars, serverVars
<1> QED
  BY <1>2, <1>3, <1>4, <1>5, <1>6, <1>7, <1>8, <1>9, <1>10 DEF Next, ServerHandles

\* What a step does to a channel to the server: the socket is opened with its registration, or
\* a message is read, the channel is emptied, or the client sends something.
SendsOn(c, x) ==
  /\ sv[c] = "open" /\ c2s'[c] = Append(c2s[c], x)
  /\ \/ x.type # "signal"
     \/ \E n, m \in Nodes :
          /\ SendSignal(n, m) /\ c = Current(n)
          /\ x = [type |-> "signal", to |-> m, num |-> sent[n][m] + 1, early |-> ~registered[n]]
ChannelStep(c) ==
  \/ c2s'[c] = <<[type |-> "register"]>>
  \/ /\ sv'[c] = "open" => sv[c] = "open"
     /\ \/ c2s'[c] = c2s[c]
        \/ c2s'[c] = << >>
        \/ c2s[c] # << >> /\ c2s'[c] = Tail(c2s[c])
        \/ \E x \in ToServer : SendsOn(c, x)

\* Every step does one of these to each channel.
LEMMA NextChannel ==
  ASSUME TypeOK, [Next]_vars, NEW c \in Sockets
  PROVE  ChannelStep(c)
<1>0. /\ c2s \in [Sockets -> Seq(ToServer)]
      /\ sv \in [Sockets -> {"none", "open", "terminated", "closed"}]
  BY DEF TypeOK
<1>1. ASSUME UNCHANGED <<c2s, sv>> PROVE ChannelStep(c)
  BY <1>1 DEF ChannelStep
<1>2. ASSUME NEW s \in Sockets, ServerHandles(s) \/ ServerClose(s) PROVE ChannelStep(c)
  <2>1. (c2s' = [c2s EXCEPT ![s] = Tail(c2s[s])] /\ c2s[s] # << >>) \/ c2s' = [c2s EXCEPT ![s] = << >>]
    BY <1>2 DEF ServerHandles, Register, ReRegister, GetPeers, TopologyUpdate, RelaySignal,
                ServerReads, ServerClose
  <2>2. UNCHANGED sv \/ sv' = [sv EXCEPT ![s] = "closed"] \/ sv' = Terminated(nodes[s[1]].ws, s)
    BY <1>2 DEF ServerHandles, Register, ReRegister, GetPeers, TopologyUpdate, RelaySignal,
                ServerClose, serverVars
  <2>3. sv'[c] = "open" => sv[c] = "open"
    BY <1>0, <2>2 DEF Terminated
  <2>4. c2s'[c] = c2s[c] \/ c2s'[c] = << >> \/ (c2s[c] # << >> /\ c2s'[c] = Tail(c2s[c]))
    BY <1>0, <2>1
  <2> QED
    BY <2>3, <2>4 DEF ChannelStep
<1>3. ASSUME NEW k \in Nodes, Connect(k) PROVE ChannelStep(c)
  <2> DEFINE o == <<k, ws[k] + 1>>
  <2>1. sv' = [sv EXCEPT ![o] = "open"] /\ c2s' = [c2s EXCEPT ![o] = <<[type |-> "register"]>>]
    BY <1>3 DEF Connect
  <2> HIDE DEF o
  <2>2. CASE c = o
    <3>1. c2s'[c] = <<[type |-> "register"]>>
      BY <1>0, <2>1, <2>2
    <3> QED
      BY <3>1 DEF ChannelStep
  <2>3. CASE c # o
    <3>1. c2s'[c] = c2s[c] /\ sv'[c] = sv[c]
      BY <1>0, <2>1, <2>3
    <3> QED
      BY <3>1 DEF ChannelStep
  <2> QED
    BY <2>2, <2>3
<1>4. ASSUME NEW k \in Nodes, ClientClose(k) \/ ReconnectTimer(k) \/ Disconnect(k) \/ Restart(k)
      PROVE  ChannelStep(c)
  BY <1>1, <1>4 DEF ClientClose, ReconnectTimer, Disconnect, Restart, serverVars
<1>5. ASSUME NEW k \in Nodes, NEW x \in ToServer, c2s' = Sent(k, x), UNCHANGED sv,
             c = Current(k) /\ sv[c] = "open" /\ c2s'[c] = Append(c2s[c], x) => SendsOn(c, x)
      PROVE  ChannelStep(c)
  <2>1. CASE c2s' = c2s
    BY <1>1, <1>5, <2>1
  <2>2. CASE c2s' # c2s
    <3>1. sv[Current(k)] = "open" /\ c2s' = [c2s EXCEPT ![Current(k)] = Append(c2s[Current(k)], x)]
      BY <1>5, <2>2 DEF Sent
    <3>2. CASE c = Current(k)
      <4>1. c2s'[c] = Append(c2s[c], x) /\ sv[c] = "open"
        BY <1>0, <3>1, <3>2
      <4> QED
        BY <1>5, <3>2, <4>1 DEF ChannelStep
    <3>3. CASE c # Current(k)
      <4>1. c2s'[c] = c2s[c]
        BY <1>0, <3>1, <3>3
      <4> QED
        BY <1>5, <4>1 DEF ChannelStep
    <3> QED
      BY <3>2, <3>3
  <2> QED
    BY <2>1, <2>2
<1>6. ASSUME NEW k \in Nodes, ClientHandles(k) PROVE ChannelStep(c)
  <2>1. c2s' = c2s \/ c2s' = Sent(k, [type |-> "get-peers"])
    BY <1>6 DEF ClientHandles, OnRegistered, OnPeers, OnPeerJoin, OnPeerLeave, OnSignal, OnOther
  <2>2. [type |-> "get-peers"] \in ToServer /\ [type |-> "get-peers"].type # "signal"
    BY DEF ToServer
  <2>3. \E t : ClientReads(k, t)
    BY <1>6 DEF ClientHandles, OnRegistered, OnPeers, OnPeerJoin, OnPeerLeave, OnSignal, OnOther
  <2>4. UNCHANGED sv
    BY <2>3 DEF ClientReads, serverVars
  <2>5. sv[c] = "open" /\ c2s'[c] = Append(c2s[c], [type |-> "get-peers"]) => SendsOn(c, [type |-> "get-peers"])
    BY <2>2 DEF SendsOn
  <2> QED
    BY <1>1, <1>5, <2>1, <2>2, <2>4, <2>5
<1>7. ASSUME NEW k \in Nodes, NEW m \in Nodes, SendSignal(k, m) PROVE ChannelStep(c)
  <2> DEFINE x == [type |-> "signal", to |-> m, num |-> sent[k][m] + 1, early |-> ~registered[k]]
  <2>1. c2s' = Sent(k, x) /\ UNCHANGED sv
    BY <1>7 DEF SendSignal, serverVars
  <2>2. sent[k][m] + 1 \in Nat /\ (~registered[k]) \in BOOLEAN
    <3>1. sent[k] \in [Nodes -> Nat] /\ registered[k] \in BOOLEAN
      BY DEF TypeOK
    <3> QED
      BY <3>1
  <2>3. x \in ToServer
    BY <2>2 DEF ToServer
  <2>4. c = Current(k) /\ sv[c] = "open" /\ c2s'[c] = Append(c2s[c], x) => SendsOn(c, x)
    BY <1>7 DEF SendsOn
  <2> QED
    BY <1>5, <2>1, <2>3, <2>4
<1>8. ASSUME NEW k \in Nodes, NEW m \in Nodes, LinkChange(k, m) PROVE ChannelStep(c)
  <2> DEFINE now == IF m \in links[k] THEN links[k] \ {m} ELSE links[k] \cup {m}
             x   == LinkReport(k, now)
  <2>1. c2s' = Sent(k, x) /\ UNCHANGED sv
    BY <1>8 DEF LinkChange, serverVars
  <2>2. x \in ToServer /\ x.type # "signal"
    BY DEF LinkReport, ToServer, TypeOK
  <2>3. sv[c] = "open" /\ c2s'[c] = Append(c2s[c], x) => SendsOn(c, x)
    BY <2>2 DEF SendsOn
  <2> QED
    BY <1>5, <2>1, <2>2, <2>3
<1>9. CASE UNCHANGED vars
  BY <1>1, <1>9 DEF vars, serverVars
<1> QED
  BY <1>2, <1>3, <1>4, <1>6, <1>7, <1>8, <1>9 DEF Next

\* A signal that counts goes out on a socket that has registered.
LEMMA NextEarly ==
  TypeOK /\ RegistrationInv /\ EntryInv /\ EarlyInv /\ [Next]_vars => EarlyInv'
<1> SUFFICES ASSUME TypeOK, RegistrationInv, EntryInv, EarlyInv, [Next]_vars, NEW c \in Sockets,
                    NEW i \in DOMAIN c2s'[c], c2s'[c][i].type = "signal", ~c2s'[c][i].early
             PROVE  c \in registeredAs'
  BY DEF EarlyInv
<1>1. registeredAs \subseteq registeredAs'
  <2>1. ASSUME NEW s \in Sockets, ServerHandles(s) \/ ServerClose(s) PROVE registeredAs \subseteq registeredAs'
    BY <2>1 DEF ServerHandles, Register, ReRegister, GetPeers, TopologyUpdate, RelaySignal, ServerClose, serverVars
  <2>2. ASSUME NEW k \in Nodes, Connect(k) \/ ClientClose(k) \/ ReconnectTimer(k) \/ Disconnect(k) \/ Restart(k)
        PROVE  registeredAs' = registeredAs
    BY <2>2 DEF Connect, ClientClose, ReconnectTimer, Disconnect, Restart, serverVars
  <2>3. ASSUME NEW k \in Nodes, ClientHandles(k) PROVE registeredAs' = registeredAs
    <3>1. \E t : ClientReads(k, t)
      BY <2>3 DEF ClientHandles, OnRegistered, OnPeers, OnPeerJoin, OnPeerLeave, OnSignal, OnOther
    <3> QED
      BY <3>1 DEF ClientReads, serverVars
  <2>4. ASSUME NEW k \in Nodes, NEW m \in Nodes, SendSignal(k, m) \/ LinkChange(k, m)
        PROVE  registeredAs' = registeredAs
    BY <2>4 DEF SendSignal, LinkChange, serverVars
  <2>5. UNCHANGED vars => registeredAs' = registeredAs
    BY DEF vars, serverVars
  <2> QED
    BY <2>1, <2>2, <2>3, <2>4, <2>5 DEF Next
<1>2. c2s[c] \in Seq(ToServer)
  BY DEF TypeOK
<1>3. ASSUME NEW k \in DOMAIN c2s[c], c2s[c][k].type = "signal" /\ ~c2s[c][k].early PROVE c \in registeredAs'
  BY <1>1, <1>3 DEF EarlyInv
<1>4. CASE c2s'[c] = <<[type |-> "register"]>>
  <2>1. i = 1 /\ c2s'[c][i] = [type |-> "register"]
    BY <1>4
  <2> QED
    BY <2>1
<1>5. CASE c2s'[c] = c2s[c] \/ c2s'[c] = << >>
  BY <1>3, <1>5
<1>6. CASE c2s[c] # << >> /\ c2s'[c] = Tail(c2s[c])
  BY <1>2, <1>3, <1>6, Shortened
<1>7. ASSUME NEW x \in ToServer, SendsOn(c, x) PROVE c \in registeredAs'
  <2>1. c2s'[c] = Append(c2s[c], x) /\ sv[c] = "open"
    BY <1>7 DEF SendsOn
  <2>2. (i \in DOMAIN c2s[c] /\ c2s'[c][i] = c2s[c][i]) \/ c2s'[c][i] = x
    BY <1>2, <2>1, Extended
  <2>3. CASE c2s'[c][i] = x
    <3>1. PICK n \in Nodes :
            /\ c = Current(n)
            /\ \E m \in Nodes : x = [type |-> "signal", to |-> m, num |-> sent[n][m] + 1, early |-> ~registered[n]]
      BY <1>7, <2>3 DEF SendsOn
    <3>2. x.early = ~registered[n] /\ registered[n] \in BOOLEAN
      BY <3>1 DEF TypeOK
    <3>3. registered[n]
      BY <2>3, <3>2
    <3>4. n \in Registered /\ nodes[n].ws = c
      BY <2>1, <3>1, <3>3 DEF RegistrationInv, Answered, Holds
    <3> QED
      BY <1>1, <3>4 DEF EntryInv
  <2> QED
    BY <1>3, <2>2, <2>3
<1> QED
  BY <1>4, <1>5, <1>6, <1>7, NextChannel DEF ChannelStep

\* The server passes on a signal of m to n that counts.
Relays(s, n, m) == RelaySignal(s) /\ s[1] = m /\ s \in registeredAs /\ ToNode(Head(c2s[s]), n)
\* Any other step brings n no such signal.
BelowStep(n, m) ==
  \/ s2c'[n] = s2c[n]
  \/ s2c'[n] = << >>
  \/ s2c[n] # << >> /\ s2c'[n] = Tail(s2c[n])
  \/ \E x \in ToClient : ~FromNode(x, m) /\ s2c'[n] = Append(s2c[n], x)

\* A broadcast of something else is such a step.
LEMMA OtherDelivered ==
  ASSUME NEW v, NEW S, NEW x \in ToClient, NEW n \in Nodes, NEW m, ~FromNode(x, m), s2c' = Deliver(v, S, x)
  PROVE  BelowStep(n, m)
BY Delivered DEF BelowStep

\* What the client of n is sent, message by message.
LEMMA NextBelow ==
  ASSUME TypeOK, EntryInv, [Next]_vars, NEW n \in Nodes, NEW m \in Nodes, \A s \in Sockets : ~Relays(s, n, m)
  PROVE  BelowStep(n, m)
<1>0. s2c \in [Nodes -> Seq(ToClient)]
  BY DEF TypeOK
<1>1. ASSUME s2c' = s2c PROVE BelowStep(n, m)
  BY <1>1 DEF BelowStep
<1>2. ASSUME NEW s \in Sockets, Register(s) \/ ReRegister(s) PROVE BelowStep(n, m)
  <2> DEFINE k == s[1]
  <2>1. k \in Nodes
    BY SocketPair
  <2>2. PICK v, reg : s2c' = RegisterReplies(v, reg, k, s) /\ reg = nodes'
    <3>1. Register(s) => \E v, reg : s2c' = RegisterReplies(v, reg, k, s) /\ reg = nodes'
      BY DEF Register
    <3>2. ReRegister(s) => \E v, reg : s2c' = RegisterReplies(v, reg, k, s) /\ reg = nodes'
      BY DEF ReRegister
    <3> QED
      BY <1>2, <3>1, <3>2
  <2>3. TypeOK'
    BY NextType
  <2>4. k \in Registered'
    BY <1>2, RegisterEffect
  <2>5. reg[k].virtualIp \in Addresses
    BY <2>2, <2>3, <2>4 DEF TypeOK, NodeInfo
  <2> DEFINE a == [type |-> "registered", ip |-> reg[k].virtualIp]
             j == [type |-> "peer-join", node |-> k]
  <2>6. a \in ToClient /\ j \in ToClient /\ a.type # "signal" /\ j.type # "signal"
    BY <2>1, <2>5 DEF ToClient
  <2>7. ~FromNode(a, m) /\ ~FromNode(j, m)
    BY <2>6 DEF FromNode
  <2>8. PeerJoin(v, reg, k)[n] \in {s2c[n], Append(s2c[n], j)} /\ PeerJoin(v, reg, k) \in [Nodes -> Seq(ToClient)]
    BY <1>0, <2>6, Delivered, DeliverType DEF PeerJoin
  <2>9. s2c'[n] \in {PeerJoin(v, reg, k)[n], Append(s2c[n], a)}
    BY <2>2, <2>8 DEF RegisterReplies
  <2> HIDE DEF a, j
  <2> QED
    BY <2>6, <2>7, <2>8, <2>9 DEF BelowStep
<1>3. ASSUME NEW s \in Sockets, GetPeers(s) PROVE BelowStep(n, m)
  <2> DEFINE x == [type |-> "peers", peers |-> Registered \ {s[1]}]
  <2>1. x \in ToClient /\ x.type # "signal"
    BY DEF TypeOK, ToClient
  <2>2. s2c' = Deliver(sv, {s}, x)
    BY <1>3 DEF GetPeers
  <2> HIDE DEF x
  <2> QED
    BY <2>1, <2>2, OtherDelivered DEF FromNode
<1>4. ASSUME NEW s \in Sockets, TopologyUpdate(s) PROVE BelowStep(n, m)
  <2>1. CASE s2c' = s2c
    BY <1>1, <2>1
  <2>2. CASE s2c' # s2c
    <3>1. s2c' = Deliver(sv, SocketsOf(nodes', Nodes), Topology(nodes'))
      BY <1>4, <2>2 DEF TopologyUpdate
    <3>2. TypeOK'
      BY NextType
    <3>3. Topology(nodes') \in ToClient /\ Topology(nodes').type # "signal"
      <4>1. [k \in DOMAIN nodes' |-> nodes'[k].connectedPeers] \in [Registered' -> SUBSET Nodes]
        BY <3>2 DEF TypeOK, NodeInfo, Registered
      <4>2. Registered' \subseteq Nodes
        BY <3>2 DEF TypeOK
      <4> QED
        BY <4>1, <4>2 DEF Topology, ToClient
    <3> QED
      BY <3>1, <3>3, OtherDelivered DEF FromNode
  <2> QED
    BY <2>1, <2>2
<1>5. ASSUME NEW s \in Sockets, RelaySignal(s) PROVE BelowStep(n, m)
  <2> DEFINE q == Head(c2s[s])
             x == [type |-> "signal", from |-> s[1], num |-> q.num, early |-> q.early]
             e == [type |-> "signal-error", to |-> q.to]
  <2>1. q \in ToServer /\ q.type = "signal" /\ s[1] \in Nodes
    BY <1>5, SocketPair, SMTT(30) DEF RelaySignal, ServerReads, TypeOK
  <2>2. q.to \in Nodes /\ q.num \in Nat /\ q.early \in BOOLEAN
    BY <2>1, SignalNumbered
  <2>3. x \in ToClient /\ e \in ToClient /\ e.type # "signal" /\ x.from = s[1] /\ x.early = q.early
    BY <2>1, <2>2 DEF ToClient
  <2>4. \/ s2c' = s2c
        \/ s2c' = Deliver(sv, {nodes[q.to].ws}, x) /\ s \in registeredAs /\ q.to \in Registered
        \/ s2c' = Deliver(sv, {nodes[s[1]].ws}, e)
    <3>1. CASE s \notin registeredAs
      BY <1>5, <3>1 DEF RelaySignal
    <3>2. CASE s \in registeredAs /\ q.to \in Registered
      BY <1>5, <3>2 DEF RelaySignal
    <3>3. CASE s \in registeredAs /\ q.to \notin Registered
      BY <1>5, <3>3 DEF RelaySignal
    <3> QED
      BY <3>1, <3>2, <3>3
  <2>5. s \in registeredAs => s[1] # m \/ ~ToNode(q, n)
    BY <1>5 DEF Relays
  <2> HIDE DEF q, x, e
  <2>6. CASE s2c' = s2c
    BY <1>1, <2>6
  <2>7. CASE s2c' = Deliver(sv, {nodes[q.to].ws}, x) /\ s \in registeredAs /\ q.to \in Registered
    <3>1. CASE q.to = n
      <4>1. ~FromNode(x, m)
        BY <2>1, <2>3, <2>5, <2>7, <3>1 DEF FromNode, ToNode
      <4> QED
        BY <2>3, <2>7, <4>1, OtherDelivered
    <3>2. CASE q.to # n
      <4>1. nodes[q.to].ws[1] = q.to
        BY <2>7 DEF EntryInv
      <4>2. Current(n) \notin {nodes[q.to].ws}
        BY <3>2, <4>1 DEF Current
      <4>3. s2c'[n] = s2c[n]
        BY <2>7, <4>2, Delivered
      <4> QED
        BY <4>3 DEF BelowStep
    <3> QED
      BY <3>1, <3>2
  <2>8. CASE s2c' = Deliver(sv, {nodes[s[1]].ws}, e)
    BY <2>3, <2>8, OtherDelivered DEF FromNode
  <2> QED
    BY <2>4, <2>6, <2>7, <2>8
<1>6. ASSUME NEW s \in Sockets, ServerClose(s) PROVE BelowStep(n, m)
  <2> DEFINE x == [type |-> "peer-leave", node |-> s[1]]
  <2>1. x \in ToClient /\ x.type # "signal"
    BY SocketPair DEF ToClient
  <2>2. s2c' = s2c \/ \E v, S : s2c' = Deliver(v, S, x)
    BY <1>6 DEF ServerClose
  <2> HIDE DEF x
  <2> QED
    BY <1>1, <2>1, <2>2, OtherDelivered DEF FromNode
<1>7. ASSUME NEW k \in Nodes, Connect(k) \/ ReconnectTimer(k) \/ Restart(k) PROVE BelowStep(n, m)
  BY <1>1, <1>7 DEF Connect, ReconnectTimer, Restart
<1>8. ASSUME NEW k \in Nodes, ClientClose(k) \/ Disconnect(k) PROVE BelowStep(n, m)
  <2>1. s2c' = [s2c EXCEPT ![k] = << >>]
    BY <1>8 DEF ClientClose, Disconnect
  <2> QED
    BY <1>0, <2>1 DEF BelowStep
<1>9. ASSUME NEW k \in Nodes, ClientHandles(k) PROVE BelowStep(n, m)
  <2>1. \E t : ClientReads(k, t)
    BY <1>9 DEF ClientHandles, OnRegistered, OnPeers, OnPeerJoin, OnPeerLeave, OnSignal, OnOther
  <2>2. s2c[k] # << >> /\ s2c' = [s2c EXCEPT ![k] = Tail(s2c[k])]
    BY <2>1 DEF ClientReads
  <2> QED
    BY <1>0, <2>2 DEF BelowStep
<1>10. ASSUME NEW k \in Nodes, NEW j \in Nodes, SendSignal(k, j) \/ LinkChange(k, j) PROVE BelowStep(n, m)
  BY <1>1, <1>10 DEF SendSignal, LinkChange
<1>11. CASE UNCHANGED vars
  BY <1>1, <1>11 DEF vars
<1> QED
  BY <1>2, <1>3, <1>4, <1>5, <1>6, <1>7, <1>8, <1>9, <1>10, <1>11 DEF Next, ServerHandles

\* What n has seen of m changes only when it reads a signal of m that counts; what m has sent to n
\* only when it sends.
LEMMA HistoryKept ==
  ASSUME TypeOK, [Next]_vars, NEW n \in Nodes, NEW m \in Nodes
  PROVE  /\ ~(OnSignal(n) /\ FromNode(Head(s2c[n]), m)) => seen'[n][m] = seen[n][m]
         /\ ~SendSignal(m, n) => sent'[m][n] = sent[m][n]
<1>0. seen \in [Nodes -> [Nodes -> Nat]] /\ sent \in [Nodes -> [Nodes -> Nat]]
  BY DEF TypeOK
<1>1. ASSUME NEW s \in Sockets, ServerHandles(s) \/ ServerClose(s) PROVE UNCHANGED <<seen, sent>>
  BY <1>1 DEF ServerHandles, Register, ReRegister, GetPeers, TopologyUpdate, RelaySignal, ServerReads, ServerClose
<1>2. ASSUME NEW k \in Nodes, Connect(k) \/ ClientClose(k) \/ ReconnectTimer(k) \/ Disconnect(k) \/ Restart(k)
      PROVE  UNCHANGED <<seen, sent>>
  BY <1>2 DEF Connect, ClientClose, ReconnectTimer, Disconnect, Restart
<1>3. ASSUME NEW k \in Nodes, ClientHandles(k), ~OnSignal(k) PROVE UNCHANGED <<seen, sent>>
  BY <1>3 DEF ClientHandles, OnRegistered, OnPeers, OnPeerJoin, OnPeerLeave, OnOther, ClientReads
<1>4. ASSUME NEW k \in Nodes, OnSignal(k)
      PROVE  sent' = sent /\ (~(OnSignal(n) /\ FromNode(Head(s2c[n]), m)) => seen'[n][m] = seen[n][m])
  <2> DEFINE h == Head(s2c[k])
  <2>1. /\ sent' = sent /\ h.type = "signal"
        /\ seen' = [seen EXCEPT ![k][h.from] = IF h.early THEN @ ELSE h.num]
    BY <1>4 DEF OnSignal, ClientReads
  <2>2. seen' = [seen EXCEPT ![k] = [seen[k] EXCEPT ![h.from] = IF h.early THEN seen[k][h.from] ELSE h.num]]
    BY <2>1
  <2>3. CASE k # n
    BY <1>0, <2>1, <2>2, <2>3
  <2>4. CASE k = n /\ ~FromNode(h, m)
    <3>1. h.early \/ h.from # m
      BY <2>1, <2>4 DEF FromNode
    <3>2. seen[n] \in [Nodes -> Nat] /\ seen'[n] = [seen[n] EXCEPT ![h.from] = IF h.early THEN seen[n][h.from] ELSE h.num]
      BY <1>0, <2>2, <2>4
    <3> QED
      BY <2>1, <3>1, <3>2
  <2> QED
    BY <1>4, <2>1, <2>3, <2>4
<1>5. ASSUME NEW k \in Nodes, NEW j \in Nodes, SendSignal(k, j)
      PROVE  seen' = seen /\ (~SendSignal(m, n) => sent'[m][n] = sent[m][n])
  <2>1. seen' = seen /\ sent' = [sent EXCEPT ![k] = [sent[k] EXCEPT ![j] = sent[k][j] + 1]]
    BY <1>5 DEF SendSignal
  <2>2. ~SendSignal(m, n) => k # m \/ j # n
    BY <1>5
  <2> QED
    BY <1>0, <2>1, <2>2
<1>6. ASSUME NEW k \in Nodes, NEW j \in Nodes, LinkChange(k, j) PROVE UNCHANGED <<seen, sent>>
  BY <1>6 DEF LinkChange
<1>7. UNCHANGED vars => UNCHANGED <<seen, sent>>
  BY DEF vars
<1> QED
  BY <1>1, <1>2, <1>3, <1>4, <1>5, <1>6, <1>7 DEF Next

\* Signals that count stay in line.
LEMMA NextSignals ==
  TypeOK /\ EntryInv /\ EarlyInv /\ SignalInv /\ [Next]_vars => SignalInv'
<1> SUFFICES ASSUME TypeOK, EntryInv, EarlyInv, SignalInv, [Next]_vars, NEW n \in Nodes, NEW m \in Nodes,
                    NEW q \in Waiting(m)'
             PROVE  Line(seen'[n][m], sent'[m][n], s2c'[n], m, q, n)
  BY DEF SignalInv
<1> DEFINE lo == seen[n][m]
           hi == sent[m][n]
           Own(c) == c \in Sockets /\ c[1] = m /\ sv[c] = "open"
<1>0. /\ lo \in Nat /\ hi \in Nat /\ s2c[n] \in Seq(ToClient) /\ << >> \in Seq(ToServer)
      /\ \A c \in Sockets : c2s[c] \in Seq(ToServer)
      /\ registeredAs \subseteq Sockets
  <2>1. seen[n] \in [Nodes -> Nat] /\ sent[m] \in [Nodes -> Nat]
    BY DEF TypeOK
  <2> QED
    BY <2>1 DEF TypeOK
<1>1. Line(lo, hi, s2c[n], m, << >>, n) /\ \A c : Own(c) => Line(lo, hi, s2c[n], m, c2s[c], n)
  BY DEF SignalInv, Waiting
<1>2. q = << >> \/ \E c \in Sockets : c[1] = m /\ sv'[c] = "open" /\ q = c2s'[c]
  BY DEF Waiting
<1>3. (OnSignal(n) /\ FromNode(Head(s2c[n]), m)) \/ seen'[n][m] = lo
  BY HistoryKept
<1>4. SendSignal(m, n) \/ sent'[m][n] = hi
  BY HistoryKept
<1> HIDE DEF lo, hi
<1>5. ASSUME NEW s \in Sockets, Relays(s, n, m) PROVE Line(seen'[n][m], sent'[m][n], s2c'[n], m, q, n)
  <2> DEFINE h == Head(c2s[s])
             x == [type |-> "signal", from |-> m, num |-> h.num, early |-> h.early]
  <2>1. /\ RelaySignal(s) /\ s[1] = m /\ s \in registeredAs /\ ToNode(h, n) /\ sv[s] = "open" /\ c2s[s] # << >>
        /\ UNCHANGED <<sv, seen, sent>> /\ c2s' = [c2s EXCEPT ![s] = Tail(c2s[s])]
    BY <1>5 DEF Relays, RelaySignal, ServerReads, serverVars
  <2>2. h \in ToServer /\ h.type = "signal" /\ h.to = n /\ ~h.early
    BY <1>0, <2>1, Shortened DEF ToNode
  <2>3. h.num \in Nat /\ h.early \in BOOLEAN
    BY <2>2, SignalNumbered
  <2>4. x \in ToClient /\ FromNode(x, m) /\ x.num = h.num
    BY <2>2, <2>3 DEF ToClient, FromNode
  <2>5. s2c'[n] = s2c[n] \/ s2c'[n] = Append(s2c[n], x)
    <3>1. CASE h.to \in Registered
      <4>1. s2c' = Deliver(sv, {nodes[h.to].ws}, x)
        BY <2>1, <3>1 DEF RelaySignal
      <4> HIDE DEF x
      <4> QED
        BY <4>1, Delivered
    <3>2. CASE h.to \notin Registered
      <4> DEFINE e == [type |-> "signal-error", to |-> h.to]
      <4>1. s2c' = s2c \/ s2c' = Deliver(sv, {nodes[m].ws}, e)
        BY <2>1, <3>2 DEF RelaySignal
      <4>2. m \in Registered /\ nodes[m].ws = s
        BY <2>1 DEF EntryInv
      <4>3. CASE n = m
        BY <2>2, <3>2, <4>2, <4>3
      <4>4. CASE n # m
        <5>1. Current(n) \notin {nodes[m].ws}
          BY <2>1, <4>2, <4>4 DEF Current
        <5> HIDE DEF e
        <5> QED
          BY <4>1, <5>1, Delivered
      <4> QED
        BY <4>3, <4>4
    <3> QED
      BY <3>1, <3>2
  <2>6. Line(lo, hi, s2c[n], m, c2s[s], n)
    BY <1>1, <2>1
  <2>7. seen'[n][m] = lo /\ sent'[m][n] = hi
    BY <2>1 DEF lo, hi
  <2>8. Line(lo, hi, s2c'[n], m, Tail(c2s[s]), n)
    <3> HIDE DEF x, h
    <3>1. CASE s2c'[n] = s2c[n]
      BY <1>0, <2>1, <2>6, <3>1, LineAbove
    <3>2. CASE s2c'[n] = Append(s2c[n], x)
      <4>1. Line(lo, hi, Append(s2c[n], x), m, Tail(c2s[s]), n)
        BY <1>0, <2>1, <2>4, <2>6, LineRelayed DEF h
      <4> QED
        BY <3>2, <4>1
    <3> QED
      BY <2>5, <3>1, <3>2
  <2>9. s2c'[n] \in Seq(ToClient) /\ Tail(c2s[s]) \in Seq(ToServer)
    <3>1. TypeOK'
      BY NextType
    <3> QED
      BY <1>0, <2>1, <3>1, Shortened DEF TypeOK
  <2>10. Line(lo, hi, s2c'[n], m, << >>, n)
    BY <1>0, <2>8, <2>9, LineAbove
  <2>11. ASSUME NEW c \in Sockets, c[1] = m, sv'[c] = "open", q = c2s'[c] PROVE Line(lo, hi, s2c'[n], m, q, n)
    <3>1. CASE c = s
      <4>1. q = Tail(c2s[s])
        BY <2>1, <2>11, <3>1 DEF TypeOK
      <4> QED
        BY <2>8, <4>1
    <3>2. CASE c # s
      <4>1. q = c2s[c] /\ sv[c] = "open"
        BY <2>1, <2>11, <3>2 DEF TypeOK
      <4>2. c \notin registeredAs
        BY <2>1, <2>11, <3>2, <4>1 DEF EntryInv
      <4>3. \A i \in DOMAIN q : ~ToNode(q[i], n)
        BY <4>1, <4>2 DEF EarlyInv, ToNode
      <4> QED
        BY <1>0, <2>9, <2>10, <4>3, LineBare
    <3> QED
      BY <3>1, <3>2
  <2> QED
    BY <1>2, <2>7, <2>10, <2>11
<1>6. ASSUME SendSignal(m, n) PROVE Line(seen'[n][m], sent'[m][n], s2c'[n], m, q, n)
  <2> DEFINE x == [type |-> "signal", to |-> n, num |-> hi + 1, early |-> ~registered[m]]
  <2>1. /\ UNCHANGED <<sv, seen, s2c>> /\ c2s' = Sent(m, x)
        /\ sent' = [sent EXCEPT ![m][n] = hi + 1]
    BY <1>6 DEF SendSignal, serverVars, hi
  <2>2. sent'[m][n] = hi + 1 /\ seen'[n][m] = lo /\ s2c'[n] = s2c[n]
    BY <2>1 DEF TypeOK, lo
  <2>3. x \in ToServer /\ x.type = "signal" /\ x.num = hi + 1
    <3>1. registered[m] \in BOOLEAN
      BY DEF TypeOK
    <3>2. (~registered[m]) \in BOOLEAN /\ hi + 1 \in Nat
      BY <1>0, <3>1
    <3> QED
      BY <3>2 DEF ToServer
  <2> HIDE DEF x
  <2>4. CASE q = << >>
    <3>1. Line(lo, hi + 1, s2c[n], m, << >>, n)
      BY <1>0, <1>1, <2>3, LineSent
    <3> QED
      BY <2>2, <2>4, <3>1
  <2>5. ASSUME NEW c \in Sockets, c[1] = m, sv'[c] = "open", q = c2s'[c] PROVE Line(lo, hi + 1, s2c[n], m, q, n)
    <3>1. q = c2s[c] \/ q = Append(c2s[c], x)
      BY <2>1, <2>5 DEF Sent, TypeOK
    <3>2. Line(lo, hi, s2c[n], m, c2s[c], n) /\ c2s[c] \in Seq(ToServer)
      BY <1>0, <1>1, <2>1, <2>5
    <3>3. Line(lo, hi + 1, s2c[n], m, c2s[c], n) /\ Line(lo, hi + 1, s2c[n], m, Append(c2s[c], x), n)
      BY <1>0, <2>3, <3>2, LineSent
    <3> QED
      BY <3>1, <3>3
  <2> QED
    BY <1>2, <2>2, <2>4, <2>5
<1>7. ASSUME OnSignal(n), FromNode(Head(s2c[n]), m) PROVE Line(seen'[n][m], sent'[m][n], s2c'[n], m, q, n)
  <2> DEFINE h == Head(s2c[n])
  <2>1. /\ UNCHANGED <<sv, c2s, sent>> /\ s2c[n] # << >> /\ s2c' = [s2c EXCEPT ![n] = Tail(s2c[n])]
        /\ seen' = [seen EXCEPT ![n][h.from] = IF h.early THEN @ ELSE h.num]
    BY <1>7 DEF OnSignal, ClientReads, serverVars
  <2>2. h.from = m /\ ~h.early
    BY <1>7 DEF FromNode
  <2>3. seen' = [seen EXCEPT ![n] = [seen[n] EXCEPT ![m] = h.num]]
    BY <2>1, <2>2
  <2>4. seen'[n][m] = h.num /\ sent'[m][n] = hi /\ s2c'[n] = Tail(s2c[n])
    <3>1. seen \in [Nodes -> [Nodes -> Nat]] /\ s2c \in [Nodes -> Seq(ToClient)] /\ seen[n] \in [Nodes -> Nat]
      BY DEF TypeOK
    <3> HIDE DEF h
    <3>2. seen'[n] = [seen[n] EXCEPT ![m] = h.num]
      BY <2>3, <3>1
    <3> QED
      BY <2>1, <3>1, <3>2 DEF hi
  <2>5. Line(lo, hi, s2c[n], m, q, n) /\ q \in Seq(ToServer)
    BY <1>0, <1>1, <1>2, <2>1
  <2>6. Line(h.num, hi, Tail(s2c[n]), m, q, n)
    BY <1>0, <1>7, <2>1, <2>5, LineSeen
  <2> QED
    BY <2>4, <2>6
<1>8. ASSUME ~SendSignal(m, n), ~(OnSignal(n) /\ FromNode(Head(s2c[n]), m)), \A s \in Sockets : ~Relays(s, n, m)
      PROVE  Line(seen'[n][m], sent'[m][n], s2c'[n], m, q, n)
  <2>1. seen'[n][m] = lo /\ sent'[m][n] = hi
    BY <1>3, <1>4, <1>8
  <2>2. BelowStep(n, m)
    BY <1>8, NextBelow
  <2>3. ASSUME NEW r \in Seq(ToServer), Line(lo, hi, s2c[n], m, r, n) PROVE Line(lo, hi, s2c'[n], m, r, n)
    BY <1>0, <2>2, <2>3, LineBelow DEF BelowStep
  <2>4. CASE q = << >>
    BY <1>0, <1>1, <2>1, <2>3, <2>4
  <2>5. ASSUME NEW c \in Sockets, c[1] = m, sv'[c] = "open", q = c2s'[c] PROVE Line(lo, hi, s2c'[n], m, q, n)
    <3>1. ChannelStep(c)
      BY NextChannel
    <3>2. CASE q = <<[type |-> "register"]>>
      <4>1. \A i \in DOMAIN q : ~ToNode(q[i], n)
        <5>1. \A i \in DOMAIN q : q[i] = [type |-> "register"]
          BY <3>2
        <5> QED
          BY <5>1 DEF ToNode
      <4>2. Line(lo, hi, s2c[n], m, q, n)
        BY <1>0, <1>1, <4>1, LineBare
      <4>3. q \in Seq(ToServer)
        <5>1. [type |-> "register"] \in ToServer
          BY DEF ToServer
        <5> QED
          BY <3>2, <5>1
      <4> QED
        BY <2>3, <4>2, <4>3
    <3>3. CASE q # <<[type |-> "register"]>>
      <4>1. /\ sv[c] = "open" /\ c2s[c] \in Seq(ToServer)
            /\ \/ q = c2s[c] \/ q = << >> \/ (c2s[c] # << >> /\ q = Tail(c2s[c]))
               \/ \E x \in ToServer : SendsOn(c, x)
        BY <1>0, <2>5, <3>1, <3>3 DEF ChannelStep
      <4>2. Line(lo, hi, s2c'[n], m, c2s[c], n)
        BY <1>1, <2>3, <2>5, <4>1
      <4>3. ASSUME NEW x \in ToServer, SendsOn(c, x) PROVE ~ToNode(x, n) /\ q = Append(c2s[c], x)
        <5>1. CASE x.type # "signal"
          BY <2>5, <4>3, <5>1 DEF SendsOn, ToNode
        <5>2. CASE x.type = "signal"
          <6>1. PICK a \in Nodes, b \in Nodes :
                  /\ SendSignal(a, b) /\ c = Current(a)
                  /\ x = [type |-> "signal", to |-> b, num |-> sent[a][b] + 1, early |-> ~registered[a]]
            BY <4>3, <5>2 DEF SendsOn
          <6>2. a = m /\ x.to = b
            BY <2>5, <6>1 DEF Current
          <6>3. b # n
            BY <1>8, <6>1, <6>2
          <6> QED
            BY <2>5, <4>3, <6>2, <6>3 DEF SendsOn, ToNode
        <5> QED
          BY <5>1, <5>2
      <4>4. s2c'[n] \in Seq(ToClient)
        <5>1. TypeOK'
          BY NextType
        <5> QED
          BY <5>1 DEF TypeOK
      <4> QED
        BY <1>0, <4>1, <4>2, <4>3, <4>4, LineAbove
    <3> QED
      BY <3>2, <3>3
  <2> QED
    BY <1>2, <2>1, <2>4, <2>5
<1> QED
  BY <1>5, <1>6, <1>7, <1>8

\* The signals that a node sends once it is registered reach another node in the order in which they were
\* sent and none twice, with any number of nodes, sockets and signals, and whatever the server
\* still reads of sockets that the node has given up.
THEOREM SignalsStayInOrder == Spec => SignalsInOrder
<1> DEFINE Inv == /\ TypeOK /\ OpenInv /\ RegistrationInv /\ SocketInv
                  /\ EntryInv /\ EarlyInv /\ SignalInv
<1>1. Init => Inv
  <2> SUFFICES ASSUME Init PROVE Inv
    OBVIOUS
  <2>1. TypeOK
    BY InitType
  <2>2. OpenInv /\ RegistrationInv
    BY DEF Init, OpenInv, RegistrationInv, Answered, IsAnswer
  <2>3. SocketInv /\ EntryInv /\ EarlyInv
    BY DEF Init, SocketInv, EntryInv, EarlyInv, Registered
  <2>4. SignalInv
    <3> SUFFICES ASSUME NEW n \in Nodes, NEW m \in Nodes, NEW q \in Waiting(m)
                 PROVE  Line(seen[n][m], sent[m][n], s2c[n], m, q, n)
      BY DEF SignalInv
    <3>1. q = << >> /\ s2c[n] = << >> /\ seen[n][m] = 0 /\ sent[m][n] = 0
      BY DEF Init, Waiting
    <3> QED
      BY <3>1 DEF Line
  <2> QED
    BY <2>1, <2>2, <2>3, <2>4
<1>2. Inv /\ [Next]_vars => Inv'
  BY NextType, NextOpen, NextRegistration, NextSockets, NextEntry, NextEarly, NextSignals
<1>3. Inv /\ [Next]_vars => [\A n, m \in Nodes : seen'[n][m] # seen[n][m] => seen'[n][m] > seen[n][m]]_seen
  <2> SUFFICES ASSUME Inv, [Next]_vars, NEW n \in Nodes, NEW m \in Nodes, seen'[n][m] # seen[n][m]
               PROVE  seen'[n][m] > seen[n][m]
    OBVIOUS
  <2> DEFINE h == Head(s2c[n])
  <2>1. OnSignal(n) /\ FromNode(h, m)
    BY HistoryKept
  <2>2. s2c[n] # << >> /\ seen' = [seen EXCEPT ![n][h.from] = IF h.early THEN @ ELSE h.num] /\ h.from = m /\ ~h.early
    BY <2>1 DEF OnSignal, ClientReads, FromNode
  <2>3. seen' = [seen EXCEPT ![n] = [seen[n] EXCEPT ![m] = h.num]]
    BY <2>2
  <2>4. seen'[n][m] = h.num
    BY <2>3 DEF TypeOK
  <2>5. Line(seen[n][m], sent[m][n], s2c[n], m, << >>, n)
    BY DEF SignalInv, Waiting
  <2>6. seen[n][m] \in Nat /\ sent[m][n] \in Nat /\ s2c[n] \in Seq(ToClient) /\ << >> \in Seq(ToServer)
    <3>1. seen[n] \in [Nodes -> Nat] /\ sent[m] \in [Nodes -> Nat]
      BY DEF TypeOK
    <3> QED
      BY <3>1 DEF TypeOK
  <2>7. h.num > seen[n][m]
    BY <2>1, <2>2, <2>5, <2>6, LineSeen
  <2> QED
    BY <2>4, <2>7
<1> QED
  BY <1>1, <1>2, <1>3, PTL DEF Spec, SignalsInOrder
=============================================================================

------------------------------ MODULE MeshRouter ------------------------------
(***************************************************************************)
(* What one node, Local, knows of the mesh and how it picks its way to an  *)
(* exit (src/core/router.js, src/core/graph.js and the handlers of         *)
(* src/core/node.js that feed them).                                       *)
(*                                                                         *)
(* Every node reports its links to the signalling server, the server sends *)
(* the whole topology to everyone after each report, and Local merges the  *)
(* snapshots with what it sees of its own links.  Links come and go, each  *)
(* end notices by itself, and signalling sockets of other nodes drop while *)
(* their links stay up.  Latencies are left open: of the paths the search  *)
(* may return, any one is returned.                                        *)
(***************************************************************************)
EXTENDS Naturals, Sequences, FiniteSets, SequencesExt

CONSTANTS
  Local,           \* the node modelled, a client
  Others,          \* the other nodes
  Exits, Relays,   \* those among them with the role exit and with the role relay
  Budgets          \* bounds, one of which a behaviour has: how many links may come up or
                   \*   go down, and sockets drop; the snapshots on their way to Local;
                   \*   with them, whether the peer-connected handler awaits
                   \*   applyDeferredPolicyRouting

ASSUME RolesAssumption ==
  /\ Local \notin Others /\ IsFiniteSet(Others)
  /\ Exits \subseteq Others /\ Relays \subseteq Others /\ Exits \cap Relays = {}
RouterBounds == [links : Nat, drops : Nat, inbox : Nat, awaits : BOOLEAN]
ASSUME RouterBoundsAssumption == Budgets \subseteq RouterBounds

Mesh == Others \cup {Local}
AnyExit == Local   \* the key exit:any; the key exit:<id> is the exit's id
Keys    == Exits \cup {AnyExit}

VARIABLES
  links,           \* the links that are up: pairs {a, b}
  est,             \* node -> establishedPeers of its discovery
  reports,         \* node -> topology-update messages on their way to the server
  registry,        \* server: the registered nodes in the order of registration
  record,          \* server: node -> connectedPeers
  inbox,           \* messages of the server on their way to Local
  listed,          \* SignallingClient.peers of Local
  awaiting,        \* peers whose peer-connected handler is in its await
  graph,           \* NetworkGraph: nodes, those marked _fromTopology, edges, TURN marks
  route,           \* activeRoutes: key -> route, << >> if there is none
  unavailable,     \* the keys whose route is marked unavailable
  budget           \* the events still to come, and the configuration

serverVars == <<reports, registry, record>>
routerVars == <<graph, route, unavailable>>
meshVars == <<links, est, serverVars, inbox, listed, awaiting, routerVars, budget>>

-----------------------------------------------------------------------------
(* NetworkGraph.  edges is directed: the Map holds a set for each end.  The   *)
(* TURN mark of an edge of Local is kept for relays, where it is looked at.   *)

Neighbors(g, a) == {b \in Mesh : <<a, b>> \in g.edges}

\* addNode: a node that is not known starts with an empty set of edges, whatever
\* addEdge has put there before.
AddNode(g, a) ==
  IF a \in g.nodes THEN g
  ELSE [g EXCEPT !.nodes = @ \cup {a}, !.edges = {e \in @ : e[1] # a}]

AddEdge(g, a, b)    == [g EXCEPT !.edges = @ \cup {<<a, b>>, <<b, a>>}]
RemoveEdge(g, a, b) == [g EXCEPT !.edges = @ \ {<<a, b>>, <<b, a>>}, !.turn = @ \ {a, b}]

\* removeNode, for each node of a set: the neighbours that it lists forget it.
EdgesWithout(g, gone) ==
  {e \in g.edges : /\ e[1] \notin gone
                   /\ ~(e[2] \in gone /\ <<e[2], e[1]>> \in g.edges)}
RemoveEdgesOnly(g, gone) ==                             \* mutant: what is known of them stays
  [g EXCEPT !.nodes = @ \ gone, !.edges = EdgesWithout(g, gone)]
RemoveNodes(g, gone) ==
  [nodes    |-> g.nodes \ gone,
   topology |-> g.topology \ gone,
   edges    |-> EdgesWithout(g, gone),
   turn     |-> g.turn \ {p \in gone : <<p, Local>> \in g.edges}]

\* updateFromTopology: a snapshot is a sequence of entries [node, connectedTo].
WithEntry(g, entry, known) ==
  LET added == AddNode(g, entry.node)
      to    == {b \in entry.connectedTo : b \in added.nodes \cup known}
  IN [added EXCEPT !.topology = @ \cup {entry.node},
                   !.edges = @ \cup {<<entry.node, b>> : b \in to}
                               \cup {<<b, entry.node>> : b \in to}]

\* The same; the set makes TLC evaluate g once.
MergeEntry(g, entry, known) == CHOOSE m \in {WithEntry(h, entry, known) : h \in {g}} : TRUE

UpdateFromTopology(g, snapshot) ==
  LET known == {snapshot[i].node : i \in DOMAIN snapshot}
      merged[i \in 0..Len(snapshot)] ==
        IF i = 0 THEN g ELSE MergeEntry(merged[i - 1], snapshot[i], known)
      all == merged[Len(snapshot)]
  IN RemoveNodes(all, all.topology \ known)

-----------------------------------------------------------------------------
(* MeshRouter *)

Candidates == UNION {[1..k -> Others] : k \in 1..Cardinality(Others)}

\* r leads from Local along edges, through no node twice and none to be avoided.
IsPath(g, r, avoid) ==
  /\ <<Local, r[1]>> \in g.edges
  /\ \A i \in 1..Len(r) - 1 : <<r[i], r[i + 1]>> \in g.edges
  /\ \A i, j \in 1..Len(r) : r[i] = r[j] => i = j
  /\ \A i \in 1..Len(r) : r[i] \notin avoid

\* What findPathToNearestExitWeighted and findShortestPathWeighted may return.
IsExit(g, a) == a \in g.nodes \cap Exits
ToNearestExit(g, avoid) ==
  {r \in Candidates : /\ Local \in g.nodes
                      /\ IsPath(g, r, avoid)
                      /\ IsExit(g, Last(r))
                      /\ \A i \in 1..Len(r) - 1 : ~IsExit(g, r[i])}
ToExit(g, x, avoid) ==
  {r \in Candidates : x \in g.nodes /\ IsPath(g, r, avoid) /\ Last(r) = x}

OneOf(S) == IF S = {} THEN {<< >>} ELSE S

\* _getTurnRelayIds.
TurnRelays(g) == Neighbors(g, Local) \cap g.nodes \cap Relays \cap g.turn

\* _rebuildActiveRoutes: exit:any and the exits that are in the graph.
RebuildChoices(g) ==
  LET avoid == TurnRelays(g) IN
  [k \in Keys |-> IF k = AnyExit THEN OneOf(ToNearestExit(g, avoid))
                  ELSE IF IsExit(g, k) THEN OneOf(ToExit(g, k, avoid))
                  ELSE {route[k]}]
Rebuild(g, marked) ==
  /\ \E choices \in {RebuildChoices(g)} :
       route' \in {r \in [Keys -> UNION {choices[k] : k \in Keys}] :
                     \A k \in Keys : r[k] \in choices[k]}
  /\ unavailable' = {x \in marked : x # AnyExit /\ ~IsExit(g, x)}

\* addLocalConnection, if signalling lists the peer, then updateEdgeMetrics.
AddLocalConnection(p) ==
  /\ \E turn \in IF p \in Relays THEN BOOLEAN ELSE {FALSE} :
       LET g == IF p \in listed THEN AddEdge(AddNode(graph, p), Local, p) ELSE graph IN
       /\ graph' = [g EXCEPT !.turn = IF turn THEN @ \cup {p} ELSE @ \ {p}]
       /\ IF p \in listed THEN Rebuild(g, unavailable) ELSE UNCHANGED <<route, unavailable>>

\* removeLocalConnection, with _handlePeerDisconnectedRoutes.
RouteEndsAt(r, p) == r # << >> /\ Last(r) = p           \* mutant: only the exit is looked at
RouteUses(r, p)   == \E i \in DOMAIN r : r[i] = p
RemoveLocalConnection(p) ==
  LET affected == {k \in Keys : RouteUses(route[k], p)} IN
  /\ graph' = RemoveEdge(graph, Local, p)
  /\ IF affected # {} THEN Rebuild(graph', unavailable \cup affected)
                      ELSE UNCHANGED <<route, unavailable>>

\* The timer of start().
RebuildTimer ==
  /\ Rebuild(graph, unavailable)
  /\ UNCHANGED <<links, est, serverVars, inbox, listed, awaiting, graph, budget>>

\* findRouteToExit for a packet from the TUN device when there is no active route:
\* a new search, which avoids nothing.
FindRouteToExit ==
  /\ route[AnyExit] = << >> \/ AnyExit \in unavailable
  /\ \E r \in ToNearestExit(graph, {}) : route' = [route EXCEPT ![AnyExit] = r]
  /\ unavailable' = unavailable \ {AnyExit}
  /\ UNCHANGED <<links, est, serverVars, inbox, listed, awaiting, graph, budget>>

-----------------------------------------------------------------------------
(* Links, and what discovery does when a node notices *)

Registered(n) == \E i \in DOMAIN registry : registry[i] = n

LinkUp(a, b) ==
  /\ budget.links > 0 /\ {a, b} \notin links
  /\ b \notin est[a] /\ a \notin est[b]
  /\ links' = links \cup {{a, b}}
  /\ budget' = [budget EXCEPT !.links = @ - 1]
  /\ UNCHANGED <<est, serverVars, inbox, listed, awaiting, routerVars>>

LinkDown(a, b) ==
  /\ budget.links > 0 /\ {a, b} \in links
  /\ links' = links \ {{a, b}}
  /\ budget' = [budget EXCEPT !.links = @ - 1]
  /\ UNCHANGED <<est, serverVars, inbox, listed, awaiting, routerVars>>

\* _updateTopology: the report goes out before the router is told.
OldPeers(n, peers)    == est[n]                         \* mutant: sent before the set is updated
Established(n, peers) == peers
Report(n, peers) ==
  /\ est' = [est EXCEPT ![n] = peers]
  /\ reports' = IF Registered(n) THEN [reports EXCEPT ![n] = Append(@, Established(n, peers))]
                                 ELSE reports

PeerConnected(p) ==
  /\ {Local, p} \in links /\ p \notin est[Local]
  /\ Report(Local, est[Local] \cup {p})
  /\ IF budget.awaits THEN awaiting' = awaiting \cup {p} /\ UNCHANGED routerVars
                     ELSE AddLocalConnection(p) /\ UNCHANGED awaiting
  /\ UNCHANGED <<links, registry, record, inbox, listed, budget>>

\* The await of the peer-connected handler is over.
PolicyApplied(p) ==
  /\ p \in awaiting
  /\ awaiting' = awaiting \ {p}
  /\ AddLocalConnection(p)
  /\ UNCHANGED <<links, est, serverVars, inbox, listed, budget>>

PeerDisconnected(p) ==
  /\ {Local, p} \notin links /\ p \in est[Local]
  /\ Report(Local, est[Local] \ {p})
  /\ RemoveLocalConnection(p)
  /\ UNCHANGED <<links, registry, record, inbox, listed, awaiting, budget>>

\* Another node notices that one of its links has changed.
OtherNotices(n) ==
  /\ LET peers == {p \in Mesh : {n, p} \in links} IN
       peers # est[n] /\ Report(n, peers)
  /\ UNCHANGED <<links, registry, record, inbox, listed, awaiting, routerVars, budget>>

-----------------------------------------------------------------------------
(* The server, and what Local gets from it *)

\* _handleTopologyUpdate, _broadcastTopology.
TopologyUpdate(n) ==
  /\ reports[n] # << >> /\ Len(inbox) < budget.inbox
  /\ reports' = [reports EXCEPT ![n] = Tail(@)]
  /\ record' = [record EXCEPT ![n] = Head(reports[n])]
  /\ LET entry(m)  == [node |-> m, connectedTo |-> record'[m]]
         snapshot  == [i \in DOMAIN registry |-> entry(registry[i])]
     IN inbox' = Append(inbox, [type |-> "topology", topology |-> snapshot])
  /\ UNCHANGED <<links, est, registry, listed, awaiting, routerVars, budget>>

\* The signalling socket of another node drops, and it registers again.
Leave(n) ==
  /\ budget.drops > 0
  /\ budget' = [budget EXCEPT !.drops = @ - 1]
  /\ \E i \in DOMAIN registry : registry[i] = n /\ registry' = RemoveAt(registry, i)
  /\ reports' = [reports EXCEPT ![n] = << >>]
  /\ record' = [record EXCEPT ![n] = {}]
  /\ inbox' = Append(inbox, [type |-> "peer-leave", node |-> n])
  /\ UNCHANGED <<links, est, listed, awaiting, routerVars>>

Join(n) ==
  /\ ~Registered(n)
  /\ registry' = Append(registry, n)
  /\ inbox' = Append(inbox, [type |-> "peer-join", node |-> n])
  /\ UNCHANGED <<links, est, reports, record, listed, awaiting, routerVars, budget>>

ReceivePeer ==
  /\ inbox # << >> /\ Head(inbox).type # "topology"
  /\ inbox' = Tail(inbox)
  /\ listed' = IF Head(inbox).type = "peer-join" THEN listed \cup {Head(inbox).node}
                                                 ELSE listed \ {Head(inbox).node}
  /\ UNCHANGED <<links, est, serverVars, awaiting, routerVars, budget>>

\* updateTopology.
ReceiveTopology ==
  /\ inbox # << >> /\ Head(inbox).type = "topology"
  /\ inbox' = Tail(inbox)
  /\ graph' = UpdateFromTopology(graph, Head(inbox).topology)
  /\ Rebuild(graph', unavailable)
  /\ UNCHANGED <<links, est, serverVars, listed, awaiting, budget>>

-----------------------------------------------------------------------------
\* All nodes are registered, in any order, and have no links yet.
RouterInit ==
  /\ links = {}
  /\ est = [n \in Mesh |-> {}]
  /\ reports = [n \in Mesh |-> << >>]
  /\ registry \in SetToSeqs(Mesh)
  /\ record = [n \in Mesh |-> {}]
  /\ inbox = << >>
  /\ listed = Others
  /\ awaiting = {}
  /\ graph = [nodes |-> {}, topology |-> {}, edges |-> {}, turn |-> {}]
  /\ route = [k \in Keys |-> << >>]
  /\ unavailable = {}
  /\ budget \in Budgets

Progress ==
  \/ \E p \in Others : PeerConnected(p) \/ PolicyApplied(p) \/ PeerDisconnected(p)
  \/ \E n \in Others : OtherNotices(n) \/ Join(n)
  \/ \E n \in Mesh : TopologyUpdate(n)
  \/ ReceivePeer \/ ReceiveTopology

RouterNext ==
  \/ Progress
  \/ \E a, b \in Mesh : a # b /\ (LinkUp(a, b) \/ LinkDown(a, b))
  \/ \E n \in Others : Leave(n)
  \/ RebuildTimer \/ FindRouteToExit

RouterSpec == RouterInit /\ [][RouterNext]_meshVars

(***************************************************************************)
(* Fairness.  The ends of a link notice that it changed, event loops and   *)
(* sockets deliver, awaits end and nodes register again.  Each link event  *)
(* leads to finitely many such steps, so none of them is left out for good.*)
(* Nothing is assumed of the rebuild timer.                                *)
(***************************************************************************)
RouterFairness == WF_meshVars(Progress)

FairRouterSpec == RouterSpec /\ RouterFairness

-----------------------------------------------------------------------------
(* Properties *)

Topologies == Seq([node : Mesh, connectedTo : SUBSET Mesh])

\* Types, and a graph that knows where each node came from.
RouterTypeOK ==
  /\ links \subseteq {{a, b} : a, b \in Mesh}
  /\ est \in [Mesh -> SUBSET Mesh] /\ record \in [Mesh -> SUBSET Mesh]
  /\ reports \in [Mesh -> Seq(SUBSET Mesh)]
  /\ registry \in Seq(Mesh)
  /\ inbox \in Seq([type : {"topology"}, topology : Topologies]
                     \cup [type : {"peer-join", "peer-leave"}, node : Others])
  /\ listed \subseteq Others /\ awaiting \subseteq Others
  /\ graph \in [nodes : SUBSET Mesh, topology : SUBSET Mesh,
                edges : SUBSET (Mesh \X Mesh), turn : SUBSET Others]
  /\ graph.topology \subseteq graph.nodes
  /\ route \in [Keys -> Candidates \cup {<< >>}]
  /\ unavailable \subseteq Keys
  /\ budget \in RouterBounds

\* The route that packets are sent along is a path of the present graph from
\* Local to an exit.  findRouteToExit takes it from activeRoutes and looks only
\* for cycles, so whatever changes the graph must see to it.
RouteIsPath ==
  route[AnyExit] # << >> => /\ IsPath(graph, route[AnyExit], {})
                        /\ IsExit(graph, Last(route[AnyExit]))

\* When links no longer change, findRouteToExit finds a route if an exit can be
\* reached over the links there are, although snapshots arrive late and reset edges.
\* That holds while signalling stays up: a snapshot without a node whose socket has
\* dropped takes a linked exit out of the graph.
Reachable(n) ==
  \E r \in Candidates : /\ {Local, r[1]} \in links /\ Last(r) = n
                        /\ \A i \in 1..Len(r) - 1 : {r[i], r[i + 1]} \in links
ExitReachable == \E x \in Exits : Reachable(x)
RouteFound == route[AnyExit] # << >> \/ ToNearestExit(graph, {}) # {}
EventuallyRouted == budget.drops = 0 => <>[](RouteFound \/ ~ExitReachable)
=============================================================================

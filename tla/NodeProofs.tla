------------------------------ MODULE NodeProofs ------------------------------
(***************************************************************************)
(* Three parts of a node, for every value of their constants.              *)
(*                                                                         *)
(*   MeshRouter: the route of exit:any is a path of the present graph,     *)
(*   whatever links, reports, snapshots and timers do.                     *)
(*                                                                         *)
(*   PathSearch: the search finds a path that none is cheaper than, and    *)
(*   gives up only if there is none.                                       *)
(*                                                                         *)
(*   Pipeline: messages of a connection are delivered in order and at most *)
(*   once, and after the end of a connection at most one more packet of it *)
(*   is.                                                                   *)
(***************************************************************************)
EXTENDS MeshRouter, PathSearch, Pipeline,
        FiniteSetTheorems, WellFoundedInduction, NaturalsInduction, TLAPS

\* A set of numbers with 0 and all successors is all of Nat: the form of induction the
\* proofs use.
LEMMA AllNumbers ==
  ASSUME NEW T, 0 \in T, \A n \in Nat : n \in T => n + 1 \in T
  PROVE  Nat \subseteq T
<1> SUFFICES ASSUME Nat \ T # {} PROVE FALSE
  OBVIOUS
<1> DEFINE R == {ss \in Nat \X Nat : ss[1] < ss[2]}
<1>1. IsWellFoundedOn(R, Nat)
  BY NatLessThanWellFounded DEF OpToRel
<1>2. PICK x \in Nat \ T : \A y \in Nat \ T : ~(<<y, x>> \in R)
  BY <1>1, WFMin
<1>3. \A y \in Nat \ T : ~(y < x)
  BY <1>2
<1>4. x # 0 /\ x - 1 \in Nat /\ x - 1 < x
  BY <1>2
<1>5. x - 1 \in T
  BY <1>3, <1>4
<1> QED BY <1>2, <1>4, <1>5

-----------------------------------------------------------------------------
(* The router: routes                                                       *)

Routes == Candidates \cup {<< >>}

\* graph has its four fields; nothing is assumed of what they hold.
GraphShape == graph = [nodes |-> graph.nodes, topology |-> graph.topology,
                       edges |-> graph.edges, turn |-> graph.turn]
RouteType  == route \in [Keys -> Routes]
RouteInv   == GraphShape /\ RouteType /\ RouteIsPath

\* A route of n steps: a function on 1..n with n positive, every node another one.
LEMMA CandidateFacts ==
  ASSUME NEW r \in Candidates
  PROVE  /\ Len(r) \in Nat \ {0} /\ DOMAIN r = 1..Len(r)
         /\ \A i \in 1..Len(r) : r[i] \in Others
         /\ r # << >>
<1>1. PICK k \in 1..Cardinality(Others) : r \in [1..k -> Others]
  BY DEF Candidates
<1>2. k \in Nat \ {0}
  OBVIOUS
<1>3. r \in Seq(Others) /\ Len(r) = k
  BY <1>1, <1>2
<1> QED BY <1>1, <1>2, <1>3

\* What a path avoids may be left out.
LEMMA PathAvoidsLess ==
  ASSUME NEW g, NEW r, NEW avoid, IsPath(g, r, avoid)
  PROVE  IsPath(g, r, {})
BY DEF IsPath

\* After _rebuildActiveRoutes for a graph the route of exit:any is a path of it.
LEMMA RebuildSound ==
  ASSUME NEW g, NEW marked, Rebuild(g, marked), RouteType
  PROVE  /\ RouteType'
         /\ route'[AnyExit] # << >> => /\ IsPath(g, route'[AnyExit], {})
                                       /\ IsExit(g, Last(route'[AnyExit]))
<1> DEFINE choices == RebuildChoices(g)
<1>1. /\ route' \in [Keys -> UNION {choices[k] : k \in Keys}]
      /\ \A k \in Keys : route'[k] \in choices[k]
  BY DEF Rebuild
<1>2. \A k \in Keys : choices[k] \subseteq Routes
  BY DEF RebuildChoices, OneOf, ToNearestExit, ToExit, RouteType, Routes
<1>3. AnyExit \in Keys /\ choices[AnyExit] = OneOf(ToNearestExit(g, TurnRelays(g)))
  BY DEF RebuildChoices, Keys
<1>4. RouteType'
  BY <1>1, <1>2 DEF RouteType
<1>5. ASSUME route'[AnyExit] # << >>
      PROVE  route'[AnyExit] \in ToNearestExit(g, TurnRelays(g))
  BY <1>1, <1>3, <1>5 DEF OneOf
<1> QED BY <1>4, <1>5, PathAvoidsLess DEF ToNearestExit

\* RouteIsPath looks at the nodes and edges of the graph only.
LEMMA SameEdgesSamePath ==
  ASSUME NEW g, NEW h, NEW r, g.edges = h.edges, g.nodes = h.nodes,
         IsPath(g, r, {}), IsExit(g, Last(r))
  PROVE  IsPath(h, r, {}) /\ IsExit(h, Last(r))
BY DEF IsPath, IsExit

\* A path that does not go through p survives the loss of the link to p.
LEMMA PathWithout ==
  ASSUME NEW r \in Candidates, NEW p \in Others, GraphShape,
         IsPath(graph, r, {}), IsExit(graph, Last(r)), ~RouteUses(r, p)
  PROVE  LET g == RemoveEdge(graph, Local, p) IN IsPath(g, r, {}) /\ IsExit(g, Last(r))
<1> DEFINE g == RemoveEdge(graph, Local, p)
<1>1. g.edges = graph.edges \ {<<Local, p>>, <<p, Local>>} /\ g.nodes = graph.nodes
  BY DEF GraphShape, RemoveEdge
<1>2. Local \notin Others /\ p # Local
  BY RolesAssumption
<1>3. /\ Len(r) \in Nat \ {0} /\ DOMAIN r = 1..Len(r)
      /\ \A i \in 1..Len(r) : r[i] \in Others /\ r[i] # p
  BY CandidateFacts DEF RouteUses
<1>4. <<Local, r[1]>> \in g.edges
  <2>1. r[1] # p /\ <<Local, r[1]>> \in graph.edges
    BY <1>3 DEF IsPath
  <2> QED BY <2>1, <1>1, <1>2
<1>5. ASSUME NEW i \in 1..Len(r) - 1
      PROVE  <<r[i], r[i + 1]>> \in g.edges
  <2>1. i \in 1..Len(r) /\ i + 1 \in 1..Len(r)
    BY <1>3
  <2>2. r[i] # Local /\ r[i] # p /\ <<r[i], r[i + 1]>> \in graph.edges
    BY <2>1, <1>2, <1>3 DEF IsPath
  <2> QED BY <2>2, <1>1
<1> QED BY <1>1, <1>4, <1>5 DEF IsPath, IsExit

\* The empty graph has no route.
LEMMA InitRoute == RouterInit => RouteInv
<1> SUFFICES ASSUME RouterInit PROVE RouteInv
  OBVIOUS
<1>1. GraphShape
  BY DEF RouterInit, GraphShape
<1>2. RouteType /\ RouteIsPath
  BY DEF RouterInit, RouteType, Routes, RouteIsPath, Keys
<1> QED BY <1>1, <1>2 DEF RouteInv

\* addLocalConnection, and then updateEdgeMetrics, which leaves routes alone.
LEMMA AddLocalRoute ==
  ASSUME RouteInv, NEW p \in Others, AddLocalConnection(p)
  PROVE  RouteInv'
<1>1. PICK turn \in BOOLEAN :
        LET g == IF p \in listed THEN AddEdge(AddNode(graph, p), Local, p) ELSE graph IN
        /\ graph' = [g EXCEPT !.turn = IF turn THEN @ \cup {p} ELSE @ \ {p}]
        /\ IF p \in listed THEN Rebuild(g, unavailable) ELSE UNCHANGED <<route, unavailable>>
  BY DEF AddLocalConnection
<1> DEFINE g == IF p \in listed THEN AddEdge(AddNode(graph, p), Local, p) ELSE graph
<1>2. g = [nodes |-> g.nodes, topology |-> g.topology, edges |-> g.edges, turn |-> g.turn]
  BY DEF RouteInv, GraphShape, AddNode, AddEdge
<1>3. GraphShape' /\ graph'.edges = g.edges /\ graph'.nodes = g.nodes
  BY <1>1, <1>2 DEF GraphShape
<1>4. RouteType' /\ (route'[AnyExit] # << >> => /\ IsPath(g, route'[AnyExit], {})
                                                /\ IsExit(g, Last(route'[AnyExit])))
  <2>1. CASE p \in listed
    BY <2>1, <1>1, RebuildSound DEF RouteInv
  <2>2. CASE p \notin listed
    BY <2>2, <1>1 DEF RouteInv, RouteType, RouteIsPath
  <2> QED BY <2>1, <2>2
<1>5. RouteIsPath'
  BY <1>3, <1>4, SameEdgesSamePath DEF RouteIsPath
<1> QED BY <1>3, <1>4, <1>5 DEF RouteInv

\* A link that goes down takes the routes over it along (removeLocalConnection).
LEMMA RemoveLocalRoute ==
  ASSUME RouteInv, NEW p \in Others, RemoveLocalConnection(p)
  PROVE  RouteInv'
<1> DEFINE affected == {k \in Keys : RouteUses(route[k], p)}
<1>1. graph' = RemoveEdge(graph, Local, p)
  BY DEF RemoveLocalConnection
<1>2. GraphShape'
  BY <1>1 DEF RouteInv, GraphShape, RemoveEdge
<1>3. CASE affected # {}
  <2>1. Rebuild(graph', unavailable \cup affected)
    BY <1>3 DEF RemoveLocalConnection
  <2> QED BY <2>1, <1>2, RebuildSound DEF RouteInv, RouteIsPath
<1>4. CASE affected = {}
  <2>1. route' = route
    BY <1>4 DEF RemoveLocalConnection
  <2>2. AnyExit \in Keys /\ ~RouteUses(route[AnyExit], p)
    BY <1>4 DEF Keys
  <2>3. ASSUME route[AnyExit] # << >>
        PROVE  IsPath(graph', route[AnyExit], {}) /\ IsExit(graph', Last(route[AnyExit]))
    <3>1. route[AnyExit] \in Candidates
      BY <2>2, <2>3 DEF RouteInv, RouteType, Routes
    <3> QED BY <3>1, <2>2, <2>3, <1>1, PathWithout DEF RouteInv, RouteIsPath
  <2> QED BY <1>2, <2>1, <2>3 DEF RouteInv, RouteType, RouteIsPath
<1> QED BY <1>3, <1>4

\* Every step keeps the route a path of the graph.
LEMMA NextRoute == RouteInv /\ [RouterNext]_meshVars => RouteInv'
<1> SUFFICES ASSUME RouteInv, [RouterNext]_meshVars PROVE RouteInv'
  OBVIOUS
<1>1. ASSUME NEW p \in Others, PeerConnected(p) PROVE RouteInv'
  <2>1. CASE budget.awaits
    BY <1>1, <2>1 DEF PeerConnected, routerVars, RouteInv, GraphShape, RouteType, RouteIsPath
  <2>2. CASE ~budget.awaits
    BY <1>1, <2>2, AddLocalRoute DEF PeerConnected
  <2> QED BY <2>1, <2>2
<1>2. ASSUME NEW p \in Others, PolicyApplied(p) PROVE RouteInv'
  BY <1>2, AddLocalRoute DEF PolicyApplied
<1>3. ASSUME NEW p \in Others, PeerDisconnected(p) PROVE RouteInv'
  BY <1>3, RemoveLocalRoute DEF PeerDisconnected
<1>4. CASE ReceiveTopology
  <2>1. Rebuild(graph', unavailable)
    BY <1>4, SMTT(30) DEF ReceiveTopology
  <2>2. GraphShape'
    BY <1>4 DEF ReceiveTopology, UpdateFromTopology, RemoveNodes, GraphShape
  <2> QED BY <2>1, <2>2, RebuildSound DEF RouteInv, RouteIsPath
<1>5. CASE RebuildTimer
  <2>1. Rebuild(graph', unavailable) /\ GraphShape'
    BY <1>5 DEF RebuildTimer, RouteInv, GraphShape
  <2> QED BY <2>1, RebuildSound DEF RouteInv, RouteIsPath
<1>6. CASE FindRouteToExit
  <2>1. PICK r \in ToNearestExit(graph, {}) : route' = [route EXCEPT ![AnyExit] = r]
    BY <1>6 DEF FindRouteToExit
  <2>2. graph' = graph /\ r \in Candidates /\ IsPath(graph, r, {}) /\ IsExit(graph, Last(r))
    BY <1>6, <2>1 DEF FindRouteToExit, ToNearestExit
  <2>3. route'[AnyExit] = r /\ RouteType'
    BY <2>1, <2>2 DEF RouteInv, RouteType, Routes, Keys
  <2> QED BY <2>2, <2>3 DEF RouteInv, GraphShape, RouteIsPath
<1>7. CASE UNCHANGED <<graph, route>>
  BY <1>7 DEF RouteInv, GraphShape, RouteType, RouteIsPath
<1>8. ASSUME NEW a \in Mesh, NEW b \in Mesh, LinkUp(a, b) \/ LinkDown(a, b)
      PROVE  UNCHANGED <<graph, route>>
  BY <1>8 DEF LinkUp, LinkDown, routerVars
<1>9. ASSUME NEW n \in Others, OtherNotices(n) \/ Leave(n) \/ Join(n)
      PROVE  UNCHANGED <<graph, route>>
  BY <1>9 DEF OtherNotices, Leave, Join, routerVars
<1>10. ASSUME NEW n \in Mesh, TopologyUpdate(n) PROVE UNCHANGED <<graph, route>>
  BY <1>10 DEF TopologyUpdate, routerVars
<1>11. ASSUME ReceivePeer \/ UNCHANGED meshVars PROVE UNCHANGED <<graph, route>>
  BY <1>11 DEF ReceivePeer, meshVars, routerVars
<1> QED BY <1>1, <1>2, <1>3, <1>4, <1>5, <1>6, <1>7, <1>8, <1>9, <1>10, <1>11
           DEF RouterNext, Progress

\* Packets always go along a path of the graph that Local has at that moment:
\* every handler that takes an edge or a node away rebuilds the routes that it
\* breaks (router.js), for any mesh and any history.
THEOREM RouteAlwaysPath == RouterSpec => []RouteIsPath
<1>1. RouteInv => RouteIsPath
  BY DEF RouteInv
<1> QED BY <1>1, InitRoute, NextRoute, PTL DEF RouterSpec

-----------------------------------------------------------------------------
(* Types.  Only the merge of a snapshot needs an argument: it is a loop.     *)

GraphOK(g) ==
  /\ g \in [nodes : SUBSET Mesh, topology : SUBSET Mesh,
            edges : SUBSET (Mesh \X Mesh), turn : SUBSET Others]
  /\ g.topology \subseteq g.nodes

\* addNode and addEdge.
LEMMA AddKeepsGraph ==
  ASSUME NEW g, GraphOK(g), NEW a \in Mesh, NEW b \in Mesh
  PROVE  /\ GraphOK(AddNode(g, a)) /\ a \in AddNode(g, a).nodes
         /\ GraphOK(AddEdge(g, a, b)) /\ GraphOK(RemoveEdge(g, a, b))
<1>1. GraphOK(AddNode(g, a)) /\ a \in AddNode(g, a).nodes
  BY DEF GraphOK, AddNode
<1>2. GraphOK(AddEdge(g, a, b))
  BY DEF GraphOK, AddEdge
<1>3. GraphOK(RemoveEdge(g, a, b))
  BY DEF GraphOK, RemoveEdge
<1> QED BY <1>1, <1>2, <1>3

\* One entry of a snapshot.
LEMMA MergeKeepsGraph ==
  ASSUME NEW g, GraphOK(g), NEW entry \in [node : Mesh, connectedTo : SUBSET Mesh], NEW known
  PROVE  GraphOK(MergeEntry(g, entry, known))
<1> DEFINE added == AddNode(g, entry.node)
           to    == {b \in entry.connectedTo : b \in added.nodes \cup known}
           more  == {<<entry.node, b>> : b \in to} \cup {<<b, entry.node>> : b \in to}
<1>1. GraphOK(added) /\ entry.node \in added.nodes
  BY AddKeepsGraph
<1>2. to \subseteq Mesh /\ more \subseteq Mesh \X Mesh
  OBVIOUS
<1>3. MergeEntry(g, entry, known) = [added EXCEPT !.topology = @ \cup {entry.node},
          !.edges = (@ \cup {<<entry.node, b>> : b \in to}) \cup {<<b, entry.node>> : b \in to}]
  <2>1. {WithEntry(h, entry, known) : h \in {g}} = {WithEntry(g, entry, known)}
    OBVIOUS
  <2>2. MergeEntry(g, entry, known) = WithEntry(g, entry, known)
    BY <2>1 DEF MergeEntry
  <2> QED BY <2>2 DEF WithEntry
<1>4. MergeEntry(g, entry, known) = [added EXCEPT !.topology = @ \cup {entry.node}, !.edges = @ \cup more]
  <2>1. (added.edges \cup {<<entry.node, b>> : b \in to}) \cup {<<b, entry.node>> : b \in to}
          = added.edges \cup more
    OBVIOUS
  <2> QED BY <1>1, <1>3, <2>1 DEF GraphOK
<1>5. MergeEntry(g, entry, known) =
        [nodes |-> added.nodes, topology |-> added.topology \cup {entry.node},
         edges |-> added.edges \cup more, turn |-> added.turn]
  BY <1>1, <1>4 DEF GraphOK
<1>6. /\ added.nodes \subseteq Mesh /\ added.topology \cup {entry.node} \subseteq added.nodes
      /\ added.edges \cup more \subseteq Mesh \X Mesh /\ added.turn \subseteq Others
  BY <1>1, <1>2 DEF GraphOK
<1> HIDE DEF added, more
<1> QED BY <1>5, <1>6 DEF GraphOK

\* h is a merge of the first n entries of a snapshot, entry by entry.
Merging(g, snapshot, known, n, h) ==
  /\ h = [i \in 0 .. n |-> h[i]] /\ h[0] = g
  /\ \A i \in 1 .. n : h[i] = MergeEntry(h[i - 1], snapshot[i], known)

LEMMA MergesExist ==
  ASSUME NEW g, NEW snapshot, NEW known, NEW len \in Nat
  PROVE  \E h : Merging(g, snapshot, known, len, h)
<1> DEFINE T == {n \in Nat : \E h : Merging(g, snapshot, known, n, h)}
<1>1. 0 \in T
  <2>1. Merging(g, snapshot, known, 0, [i \in 0 .. 0 |-> g])
    BY DEF Merging
  <2> QED BY <2>1
<1>2. ASSUME NEW n \in Nat, n \in T PROVE n + 1 \in T
  <2>1. PICK h : Merging(g, snapshot, known, n, h)
    BY <1>2
  <2> DEFINE e == MergeEntry(h[n], snapshot[n + 1], known)
             k == [i \in 0 .. n + 1 |-> IF i = n + 1 THEN e ELSE h[i]]
  <2> HIDE DEF e
  <2>2. k = [i \in 0 .. n + 1 |-> k[i]] /\ k[0] = g
    BY <2>1 DEF Merging
  <2>3. ASSUME NEW i \in 1 .. n + 1 PROVE k[i] = MergeEntry(k[i - 1], snapshot[i], known)
    <3>1. CASE i = n + 1
      <4>1. k[i] = e /\ k[i - 1] = h[n]
        BY <3>1
      <4> QED BY <3>1, <4>1 DEF e
    <3>2. CASE i \in 1 .. n
      <4>1. k[i] = h[i] /\ k[i - 1] = h[i - 1]
        BY <3>2
      <4> QED BY <2>1, <3>2, <4>1 DEF Merging
    <3> QED BY <3>1, <3>2
  <2>4. Merging(g, snapshot, known, n + 1, k)
    BY <2>2, <2>3 DEF Merging
  <2> QED BY <2>4
<1> HIDE DEF T
<1>3. len \in T
  BY <1>1, <1>2, AllNumbers
<1> QED BY <1>3 DEF T

LEMMA SeqElements ==
  ASSUME NEW S, NEW q \in Seq(S)
  PROVE  Len(q) \in Nat /\ DOMAIN q = 1 .. Len(q) /\ \A i \in 1 .. Len(q) : q[i] \in S
OBVIOUS

\* updateFromTopology.
LEMMA SnapshotKeepsGraph ==
  ASSUME NEW g, GraphOK(g), NEW snapshot \in Topologies
  PROVE  GraphOK(UpdateFromTopology(g, snapshot))
<1>2. Len(snapshot) \in Nat /\ \A i \in 1 .. Len(snapshot) : snapshot[i] \in [node : Mesh, connectedTo : SUBSET Mesh]
  BY SeqElements DEF Topologies
<1> DEFINE known  == {snapshot[i].node : i \in DOMAIN snapshot}
           Def(f) == [i \in 0 .. Len(snapshot) |->
                        IF i = 0 THEN g ELSE MergeEntry(f[i - 1], snapshot[i], known)]
           merged == CHOOSE f : f = Def(f)
           all    == merged[Len(snapshot)]
<1>1. UpdateFromTopology(g, snapshot) = RemoveNodes(all, all.topology \ known)
  BY DEF UpdateFromTopology
<1>3. merged = Def(merged)
  <2>1. PICK h : Merging(g, snapshot, known, Len(snapshot), h)
    BY <1>2, MergesExist
  <2>2. h = Def(h)
    <3>1. ASSUME NEW i \in 0 .. Len(snapshot)
          PROVE  h[i] = IF i = 0 THEN g ELSE MergeEntry(h[i - 1], snapshot[i], known)
      <4>1. CASE i = 0
        BY <2>1, <4>1 DEF Merging
      <4>2. CASE i \in 1 .. Len(snapshot)
        BY <2>1, <4>2 DEF Merging
      <4> QED BY <1>2, <4>1, <4>2
    <3>2. h = [i \in 0 .. Len(snapshot) |-> h[i]]
      BY <2>1 DEF Merging
    <3> QED BY <3>1, <3>2
  <2> QED BY <2>2
<1> HIDE DEF merged, known
<1> DEFINE T == {i \in Nat : i <= Len(snapshot) => GraphOK(merged[i])}
<1>4. 0 \in T
  <2>1. merged[0] = g
    BY <1>2, <1>3
  <2> QED BY <2>1
<1>5. ASSUME NEW i \in Nat, i \in T PROVE i + 1 \in T
  <2> SUFFICES ASSUME i + 1 <= Len(snapshot) PROVE GraphOK(merged[i + 1])
    OBVIOUS
  <2>1. merged[i + 1] = MergeEntry(merged[i], snapshot[i + 1], known)
    BY <1>2, <1>3
  <2>2. GraphOK(merged[i]) /\ snapshot[i + 1] \in [node : Mesh, connectedTo : SUBSET Mesh]
    BY <1>2, <1>5
  <2> QED BY <2>1, <2>2, MergeKeepsGraph
<1> HIDE DEF T
<1>6. Len(snapshot) \in T
  BY <1>2, <1>4, <1>5, AllNumbers
<1>7. GraphOK(all)
  BY <1>2, <1>6 DEF T
<1> HIDE DEF all
<1> QED BY <1>1, <1>7 DEF GraphOK, RemoveNodes, EdgesWithout

\* What links, reports and the server are made of.
FeedOK ==
  /\ links \subseteq {{a, b} : a, b \in Mesh}
  /\ est \in [Mesh -> SUBSET Mesh] /\ record \in [Mesh -> SUBSET Mesh]
  /\ reports \in [Mesh -> Seq(SUBSET Mesh)]
  /\ registry \in Seq(Mesh)
  /\ inbox \in Seq([type : {"topology"}, topology : Topologies]
                     \cup [type : {"peer-join", "peer-leave"}, node : Others])
  /\ listed \subseteq Others /\ awaiting \subseteq Others
  /\ budget \in RouterBounds

RouterOK == GraphOK(graph) /\ RouteType /\ unavailable \subseteq Keys

LEMMA TypeParts == RouterTypeOK <=> FeedOK /\ RouterOK
BY SMTT(30) DEF RouterTypeOK, FeedOK, RouterOK, GraphOK, RouteType, Routes

LEMMA RebuildTypes ==
  ASSUME NEW g, NEW marked \in SUBSET Keys, Rebuild(g, marked), RouteType
  PROVE  RouteType' /\ unavailable' \subseteq Keys
BY RebuildSound DEF Rebuild

LEMMA AddLocalTypes ==
  ASSUME RouterOK, NEW p \in Others, AddLocalConnection(p)
  PROVE  RouterOK'
<1> DEFINE g == IF p \in listed THEN AddEdge(AddNode(graph, p), Local, p) ELSE graph
<1>1. PICK turn \in BOOLEAN :
        /\ graph' = [g EXCEPT !.turn = IF turn THEN @ \cup {p} ELSE @ \ {p}]
        /\ IF p \in listed THEN Rebuild(g, unavailable) ELSE UNCHANGED <<route, unavailable>>
  BY DEF AddLocalConnection
<1>2. p \in Mesh /\ Local \in Mesh
  BY DEF Mesh
<1>3. GraphOK(g)
  BY <1>2, AddKeepsGraph DEF RouterOK
<1>4. RouteType' /\ unavailable' \subseteq Keys
  BY <1>1, RebuildTypes DEF RouterOK, RouteType
<1> HIDE DEF g
<1>5. GraphOK(graph')
  BY <1>1, <1>3 DEF GraphOK
<1> QED BY <1>4, <1>5 DEF RouterOK

LEMMA RemoveLocalTypes ==
  ASSUME RouterOK, NEW p \in Others, RemoveLocalConnection(p)
  PROVE  RouterOK'
<1> DEFINE affected == {k \in Keys : RouteUses(route[k], p)}
<1>1. /\ graph' = RemoveEdge(graph, Local, p)
      /\ IF affected # {} THEN Rebuild(graph', unavailable \cup affected)
                          ELSE UNCHANGED <<route, unavailable>>
  BY DEF RemoveLocalConnection
<1>2. GraphOK(graph')
  BY <1>1, AddKeepsGraph DEF RouterOK, Mesh
<1>3. affected \subseteq Keys /\ unavailable \subseteq Keys /\ RouteType
  BY DEF RouterOK
<1> HIDE DEF affected
<1>4. RouteType' /\ unavailable' \subseteq Keys
  BY <1>1, <1>3, RebuildTypes DEF RouteType
<1> QED BY <1>2, <1>4 DEF RouterOK

LEMMA InitTypes == RouterInit => RouterTypeOK
<1> SUFFICES ASSUME RouterInit PROVE RouterTypeOK
  OBVIOUS
<1>1. Cardinality(Mesh) \in Nat
  BY RolesAssumption, FS_AddElement, FS_CardinalityType DEF Mesh
<1>2. registry \in Seq(Mesh)
  <2>1. registry \in SetToSeqs(Mesh)
    BY DEF RouterInit
  <2>2. registry \in [1 .. Cardinality(Mesh) -> Mesh]
    BY <2>1 DEF SetToSeqs
  <2> QED BY <1>1, <2>2
<1>3. FeedOK
  BY <1>2, RouterBoundsAssumption DEF RouterInit, FeedOK
<1>4. RouterOK
  BY DEF RouterInit, RouterOK, GraphOK, RouteType, Routes
<1> QED BY <1>3, <1>4, TypeParts

LEMMA ReportTypes ==
  ASSUME FeedOK, NEW n \in Mesh, NEW peers \in SUBSET Mesh, Report(n, peers)
  PROVE  est' \in [Mesh -> SUBSET Mesh] /\ reports' \in [Mesh -> Seq(SUBSET Mesh)]
BY DEF FeedOK, Report, Established

LEMMA NextTypes == RouterTypeOK /\ [RouterNext]_meshVars => RouterTypeOK'
<1>p. RouterTypeOK' <=> FeedOK' /\ RouterOK'
  BY SMTT(30) DEF RouterTypeOK, FeedOK, RouterOK, GraphOK, RouteType, Routes
<1> SUFFICES ASSUME FeedOK, RouterOK, [RouterNext]_meshVars PROVE FeedOK' /\ RouterOK'
  BY <1>p, TypeParts
<1> DEFINE Msgs == [type : {"topology"}, topology : Topologies]
                     \cup [type : {"peer-join", "peer-leave"}, node : Others]
<1>m. Others \subseteq Mesh /\ Local \in Mesh
  BY DEF Mesh
<1>i. inbox # << >> => Head(inbox) \in Msgs /\ Tail(inbox) \in Seq(Msgs)
  BY DEF FeedOK
<1>s. ASSUME UNCHANGED routerVars PROVE RouterOK'
  BY <1>s DEF RouterOK, GraphOK, RouteType, routerVars
<1>1. ASSUME NEW p \in Others, PeerConnected(p) PROVE FeedOK' /\ RouterOK'
  <2>1. est[Local] \cup {p} \in SUBSET Mesh /\ Local \in Mesh
    BY <1>m DEF FeedOK
  <2>2. est' \in [Mesh -> SUBSET Mesh] /\ reports' \in [Mesh -> Seq(SUBSET Mesh)]
    BY <1>1, <2>1, ReportTypes DEF PeerConnected
  <2>3. FeedOK'
    BY <1>1, <2>2 DEF PeerConnected, FeedOK
  <2>4. RouterOK'
    BY <1>1, <1>s, AddLocalTypes DEF PeerConnected
  <2> QED BY <2>3, <2>4
<1>2. ASSUME NEW p \in Others, PolicyApplied(p) PROVE FeedOK' /\ RouterOK'
  <2>1. FeedOK'
    BY <1>2 DEF PolicyApplied, FeedOK, serverVars
  <2> QED BY <1>2, <2>1, AddLocalTypes DEF PolicyApplied
<1>3. ASSUME NEW p \in Others, PeerDisconnected(p) PROVE FeedOK' /\ RouterOK'
  <2>1. est[Local] \ {p} \in SUBSET Mesh /\ Local \in Mesh
    BY <1>m DEF FeedOK
  <2>2. est' \in [Mesh -> SUBSET Mesh] /\ reports' \in [Mesh -> Seq(SUBSET Mesh)]
    BY <1>3, <2>1, ReportTypes DEF PeerDisconnected
  <2>3. FeedOK'
    BY <1>3, <2>2 DEF PeerDisconnected, FeedOK
  <2> QED BY <1>3, <2>3, RemoveLocalTypes DEF PeerDisconnected
<1>4. ASSUME NEW n \in Others, OtherNotices(n) PROVE FeedOK' /\ RouterOK'
  <2>1. PICK peers \in SUBSET Mesh : Report(n, peers)
    BY <1>4 DEF OtherNotices
  <2>2. est' \in [Mesh -> SUBSET Mesh] /\ reports' \in [Mesh -> Seq(SUBSET Mesh)]
    BY <1>m, <2>1, ReportTypes
  <2>3. FeedOK'
    BY <1>4, <2>2 DEF OtherNotices, FeedOK
  <2> QED BY <1>4, <1>s, <2>3 DEF OtherNotices
<1>5. ASSUME NEW n \in Others, Join(n) PROVE FeedOK' /\ RouterOK'
  <2>1. [type |-> "peer-join", node |-> n] \in Msgs
    OBVIOUS
  <2>2. inbox' \in Seq(Msgs)
    BY <1>5, <2>1 DEF Join, FeedOK
  <2>3. registry' \in Seq(Mesh)
    BY <1>m, <1>5 DEF Join, FeedOK
  <2>4. FeedOK'
    BY <1>5, <2>2, <2>3 DEF Join, FeedOK
  <2> QED BY <1>5, <1>s, <2>4 DEF Join
<1>6. ASSUME NEW n \in Mesh, TopologyUpdate(n) PROVE FeedOK' /\ RouterOK'
  <2> DEFINE snapshot == [i \in DOMAIN registry |-> [node |-> registry[i], connectedTo |-> record'[registry[i]]]]
             msg == [type |-> "topology", topology |-> snapshot]
  <2>1. /\ reports[n] # << >> /\ reports' = [reports EXCEPT ![n] = Tail(@)]
        /\ record' = [record EXCEPT ![n] = Head(reports[n])]
        /\ inbox' = Append(inbox, msg)
    BY <1>6 DEF TopologyUpdate
  <2>2. reports[n] \in Seq(SUBSET Mesh)
    BY DEF FeedOK
  <2>3. record' \in [Mesh -> SUBSET Mesh] /\ reports' \in [Mesh -> Seq(SUBSET Mesh)]
    <3>1. Head(reports[n]) \in SUBSET Mesh /\ Tail(reports[n]) \in Seq(SUBSET Mesh)
      BY <2>1, <2>2
    <3> QED BY <2>1, <3>1 DEF FeedOK
  <2>4. snapshot \in Topologies
    <3>1. registry \in Seq(Mesh)
      BY DEF FeedOK
    <3>2. DOMAIN registry = 1 .. Len(registry) /\ Len(registry) \in Nat /\ \A i \in DOMAIN registry : registry[i] \in Mesh
      BY <3>1
    <3> DEFINE Entries == [node : Mesh, connectedTo : SUBSET Mesh]
    <3>3. snapshot \in [1 .. Len(registry) -> Entries]
      BY <2>3, <3>2
    <3> HIDE DEF snapshot, Entries
    <3>4. snapshot \in Seq(Entries)
      BY <3>2, <3>3
    <3> QED BY <3>4 DEF Topologies, Entries
  <2> HIDE DEF snapshot
  <2>5. msg \in Msgs
    BY <2>4
  <2> HIDE DEF msg, Msgs
  <2>6. inbox' \in Seq(Msgs)
    BY <2>1, <2>5 DEF FeedOK, Msgs
  <2>7. FeedOK'
    BY <1>6, <2>3, <2>6 DEF TopologyUpdate, FeedOK, Msgs
  <2> QED BY <1>6, <1>s, <2>7 DEF TopologyUpdate
<1>7. ASSUME NEW n \in Others, Leave(n) PROVE FeedOK' /\ RouterOK'
  <2>1. [type |-> "peer-leave", node |-> n] \in Msgs
    OBVIOUS
  <2>2. inbox' \in Seq(Msgs)
    BY <1>7, <2>1 DEF Leave, FeedOK
  <2>3. registry' \in Seq(Mesh)
    <3>1. PICK i \in DOMAIN registry : registry' = RemoveAt(registry, i)
      BY <1>7 DEF Leave
    <3>2. registry \in Seq(Mesh) /\ i \in 1 .. Len(registry)
      BY DEF FeedOK
    <3> QED BY <3>1, <3>2 DEF RemoveAt
  <2>4. budget' \in [links : Nat, drops : Nat, inbox : Nat, awaits : BOOLEAN]
    <3>1. budget \in [links : Nat, drops : Nat, inbox : Nat, awaits : BOOLEAN]
      BY DEF FeedOK, RouterBounds
    <3>2. budget.drops > 0 /\ budget' = [budget EXCEPT !.drops = @ - 1]
      BY <1>7 DEF Leave
    <3> QED BY <3>1, <3>2
  <2>5. reports' \in [Mesh -> Seq(SUBSET Mesh)] /\ record' \in [Mesh -> SUBSET Mesh]
    BY <1>7 DEF Leave, FeedOK
  <2>6. FeedOK'
    BY <1>7, <2>2, <2>3, <2>4, <2>5, SMTT(30) DEF Leave, FeedOK, RouterBounds
  <2> QED BY <1>7, <1>s, <2>6 DEF Leave
<1>8. ASSUME ReceivePeer PROVE FeedOK' /\ RouterOK'
  <2>1. Head(inbox) \in Msgs /\ Tail(inbox) \in Seq(Msgs) /\ Head(inbox).type # "topology"
    BY <1>8, <1>i DEF ReceivePeer
  <2>2. Head(inbox).node \in Others
    BY <2>1
  <2>3. FeedOK'
    BY <1>8, <2>1, <2>2 DEF ReceivePeer, FeedOK, serverVars
  <2> QED BY <1>8, <1>s, <2>3 DEF ReceivePeer
<1>9. ASSUME ReceiveTopology PROVE FeedOK' /\ RouterOK'
  <2>1. Head(inbox) \in Msgs /\ Tail(inbox) \in Seq(Msgs) /\ Head(inbox).type = "topology"
    BY <1>9, <1>i DEF ReceiveTopology
  <2>2. Head(inbox).topology \in Topologies
    BY <2>1
  <2>3. FeedOK'
    BY <1>9, <2>1 DEF ReceiveTopology, FeedOK, serverVars
  <2>4. GraphOK(graph')
    BY <1>9, <2>2, SnapshotKeepsGraph DEF ReceiveTopology, RouterOK
  <2>5. Rebuild(graph', unavailable)
    BY <1>9, SMTT(30) DEF ReceiveTopology
  <2> QED BY <2>3, <2>4, <2>5, RebuildTypes DEF RouterOK
<1>10. ASSUME NEW a \in Mesh, NEW b \in Mesh, LinkUp(a, b) \/ LinkDown(a, b) PROVE FeedOK' /\ RouterOK'
  <2>1. links' \subseteq {{x, y} : x, y \in Mesh} /\ budget' \in [links : Nat, drops : Nat, inbox : Nat, awaits : BOOLEAN]
    <3>1. budget \in [links : Nat, drops : Nat, inbox : Nat, awaits : BOOLEAN] /\ links \subseteq {{x, y} : x, y \in Mesh}
      BY DEF FeedOK, RouterBounds
    <3>2. budget.links > 0 /\ budget' = [budget EXCEPT !.links = @ - 1]
      BY <1>10 DEF LinkUp, LinkDown
    <3>3. links' \subseteq links \cup {{a, b}}
      BY <1>10 DEF LinkUp, LinkDown
    <3>4. {a, b} \in {{x, y} : x, y \in Mesh}
      OBVIOUS
    <3>5. links' \subseteq {{x, y} : x, y \in Mesh}
      BY <3>1, <3>3, <3>4
    <3>6. budget' \in [links : Nat, drops : Nat, inbox : Nat, awaits : BOOLEAN]
      BY <3>1, <3>2
    <3> QED BY <3>5, <3>6
  <2>2. FeedOK'
    BY <1>10, <2>1 DEF LinkUp, LinkDown, FeedOK, serverVars, RouterBounds
  <2> QED BY <1>10, <1>s, <2>2 DEF LinkUp, LinkDown
<1>11. ASSUME RebuildTimer PROVE FeedOK' /\ RouterOK'
  <2>1. FeedOK'
    BY <1>11 DEF RebuildTimer, FeedOK, serverVars
  <2>2. Rebuild(graph, unavailable) /\ graph' = graph
    BY <1>11 DEF RebuildTimer
  <2> QED BY <2>1, <2>2, RebuildTypes DEF RouterOK
<1>12. ASSUME FindRouteToExit PROVE FeedOK' /\ RouterOK'
  <2>1. FeedOK'
    BY <1>12 DEF FindRouteToExit, FeedOK, serverVars
  <2>2. PICK r \in Candidates : route' = [route EXCEPT ![AnyExit] = r]
    BY <1>12 DEF FindRouteToExit, ToNearestExit
  <2>3. RouteType'
    BY <2>2 DEF RouterOK, RouteType, Routes
  <2> QED BY <1>12, <2>1, <2>3 DEF FindRouteToExit, RouterOK
<1>13. ASSUME UNCHANGED meshVars PROVE FeedOK' /\ RouterOK'
  BY <1>13, <1>s DEF meshVars, FeedOK, serverVars
<1> QED BY <1>1, <1>2, <1>3, <1>4, <1>5, <1>6, <1>7, <1>8, <1>9, <1>10, <1>11, <1>12, <1>13
           DEF RouterNext, Progress

\* Types hold for any mesh, and a graph always has the nodes that it knows from a topology: a
\* snapshot is merged node by node, and one that is pruned is forgotten altogether (graph.js).
THEOREM RouterTypes == RouterSpec => []RouterTypeOK
BY InitTypes, NextTypes, PTL DEF RouterSpec

-----------------------------------------------------------------------------
(* The search for the path of least latency: the inductive invariant        *)

Entries == [cost : Nat, node : Nodes]

InputOK ==
  /\ DOMAIN latency \subseteq Pairs /\ latency \in [DOMAIN latency -> Nat]
  /\ goals \subseteq Nodes \ {From} /\ excluded \subseteq Nodes

\* Costs and predecessors of the nodes found so far.
DistOK ==
  /\ DOMAIN dist \subseteq Nodes /\ dist \in [DOMAIN dist -> Nat]
  /\ From \in DOMAIN dist /\ dist[From] = 0
  /\ DOMAIN prev = DOMAIN dist \ {From}

\* No entry is cheaper than what is known of its node, and none is there twice.
HeapOK ==
  /\ heap \in Seq(Entries) /\ IsInjective(heap)
  /\ \A i \in DOMAIN heap : heap[i].node \in DOMAIN dist /\ dist[heap[i].node] <= heap[i].cost

\* A node that was found and has no entry left with its cost: the loop has looked at its
\* neighbours.
Settled(n) ==
  n \in DOMAIN dist /\ \A i \in DOMAIN heap : ~(heap[i].node = n /\ heap[i].cost = dist[n])

\* Its neighbours are found, over it or more cheaply, and nothing cheaper than it is to come.
SettledOK(n) ==
  /\ n \notin goals
  /\ \A i \in DOMAIN heap : dist[n] <= heap[i].cost
  /\ \A m \in Adjacent(n) \ excluded : m \in DOMAIN dist /\ dist[m] <= dist[n] + Weight(n, m)

\* A predecessor is settled, so that its cost is final.
PrevOK(n) ==
  /\ Settled(prev[n]) /\ n \in Adjacent(prev[n]) /\ n \notin excluded
  /\ dist[n] = dist[prev[n]] + Weight(prev[n], n)

SearchOK ==
  /\ DistOK /\ HeapOK
  /\ \A n \in Nodes : Settled(n) => SettledOK(n)
  /\ \A n \in DOMAIN prev : PrevOK(n)

SearchInv == InputOK /\ (result = Searching => SearchOK) /\ Optimal

-----------------------------------------------------------------------------
(* Weights, the least entry, and what a turn leaves in the heap               *)

LEMMA WeightPositive ==
  ASSUME InputOK, NEW a, NEW b, {a, b} \in DOMAIN latency
  PROVE  Weight(a, b) \in Nat \ {0}
<1>1. latency[{a, b}] \in Nat
  BY DEF InputOK
<1>2. DEFAULT_LATENCY \in Nat \ {0}
  BY SearchAssumption
<1> QED BY <1>1, <1>2 DEF Weight

\* An edge joins two nodes.
LEMMA NoLoop ==
  ASSUME InputOK, NEW a, {a} \in DOMAIN latency
  PROVE  FALSE
<1>1. {a} \in Pairs
  BY DEF InputOK
<1>2. PICK x \in Nodes, y \in Nodes : {a} = {x, y}
  BY <1>1 DEF Pairs
<1>3. a \in Nodes
  BY <1>2
<1> QED BY <1>1, <1>3 DEF Pairs

LEMMA LeastNumber ==
  ASSUME NEW S \in SUBSET Nat, S # {}
  PROVE  \E x \in S : \A y \in S : x <= y
<1> SUFFICES ASSUME \A x \in S : \E y \in S : y < x PROVE FALSE
  OBVIOUS
<1> DEFINE T == {n \in Nat : \A m \in 0 .. n : m \notin S}
<1>1. 0 \in T
  OBVIOUS
<1>2. ASSUME NEW n \in Nat, n \in T PROVE n + 1 \in T
  <2>1. n + 1 \notin S
    BY <1>2
  <2> QED BY <1>2, <2>1
<1> HIDE DEF T
<1>3. Nat \subseteq T
  BY <1>1, <1>2, AllNumbers
<1>4. PICK x \in S : TRUE
  OBVIOUS
<1>5. x \in T /\ x \in 0 .. x
  BY <1>3
<1> QED BY <1>5 DEF T

\* The sorted heap begins with an entry that none is cheaper than.
LEMMA CheapestFacts ==
  ASSUME NEW h \in Seq(Entries), h # << >>
  PROVE  /\ Cheapest(h) \in DOMAIN h
         /\ \A j \in DOMAIN h : h[Cheapest(h)].cost <= h[j].cost
<1>1. DOMAIN h = 1 .. Len(h) /\ Len(h) \in Nat \ {0} /\ \A j \in DOMAIN h : h[j] \in Entries
  OBVIOUS
<1>2. \A j \in DOMAIN h : h[j].cost \in Nat
  BY <1>1 DEF Entries
<1> DEFINE costs == {h[j].cost : j \in DOMAIN h}
<1>3. PICK c \in costs : \A d \in costs : c <= d
  <2>1. costs \in SUBSET Nat /\ costs # {}
    BY <1>1, <1>2
  <2> QED BY <2>1, LeastNumber
<1> DEFINE places == {j \in DOMAIN h : h[j].cost = c}
<1>4. PICK i \in places : \A j \in places : i <= j
  <2>1. places \in SUBSET Nat /\ places # {}
    BY <1>1, <1>3
  <2> QED BY <2>1, LeastNumber
<1>5. \A j \in DOMAIN h : h[i].cost < h[j].cost \/ (h[i].cost = h[j].cost /\ i <= j)
  <2> SUFFICES ASSUME NEW j \in DOMAIN h PROVE h[i].cost < h[j].cost \/ (h[i].cost = h[j].cost /\ i <= j)
    OBVIOUS
  <2>1. h[i].cost = c /\ h[j].cost \in costs /\ h[j].cost \in Nat /\ c \in Nat
    BY <1>2, <1>4
  <2>2. c <= h[j].cost
    BY <1>3, <2>1
  <2>3. h[j].cost = c => j \in places
    OBVIOUS
  <2> QED BY <1>4, <2>1, <2>2, <2>3
<1>6. i \in DOMAIN h
  BY <1>4
<1>7. /\ Cheapest(h) \in DOMAIN h
      /\ \A j \in DOMAIN h : \/ h[Cheapest(h)].cost < h[j].cost
                             \/ h[Cheapest(h)].cost = h[j].cost /\ Cheapest(h) <= j
  BY <1>5, <1>6 DEF Cheapest
<1> QED BY <1>2, <1>7

LEMMA RemoveFacts ==
  ASSUME NEW S, NEW s \in Seq(S), NEW i \in DOMAIN s
  PROVE  /\ RemoveAt(s, i) \in Seq(S) /\ Len(RemoveAt(s, i)) = Len(s) - 1
         /\ \A j \in 1 .. Len(s) - 1 : RemoveAt(s, i)[j] = IF j < i THEN s[j] ELSE s[j + 1]
<1>1. Len(s) \in Nat /\ i \in 1 .. Len(s)
  OBVIOUS
<1> DEFINE a == SubSeq(s, 1, i - 1)
           b == SubSeq(s, i + 1, Len(s))
<1>2. /\ a \in Seq(S) /\ Len(a) = i - 1 /\ \A j \in 1 .. i - 1 : a[j] = s[j]
  BY <1>1
<1>3. b \in Seq(S) /\ Len(b) = Len(s) - i /\ \A j \in 1 .. Len(s) - i : b[j] = s[i + j]
  BY <1>1
<1> HIDE DEF a, b
<1>4. RemoveAt(s, i) = a \o b
  BY DEF RemoveAt, a, b
<1>5. a \o b \in Seq(S) /\ Len(a \o b) = Len(s) - 1
  BY <1>1, <1>2, <1>3
<1>6. ASSUME NEW j \in 1 .. Len(s) - 1 PROVE (a \o b)[j] = IF j < i THEN s[j] ELSE s[j + 1]
  <2>1. CASE j < i
    BY <1>1, <1>2, <1>3, <2>1
  <2>2. CASE ~(j < i)
    <3>1. j - (i - 1) \in 1 .. Len(s) - i /\ i + (j - (i - 1)) = j + 1
      BY <1>1, <2>2
    <3>2. (a \o b)[j] = b[j - (i - 1)]
      BY <1>1, <1>2, <1>3, <2>2, SMTT(30)
    <3> QED BY <1>3, <2>2, <3>1, <3>2
  <2> QED BY <2>1, <2>2
<1> QED BY <1>4, <1>5, <1>6

\* The heap after a turn has what it had, without the entry taken, and what is pushed.
Turned(h, s, i, t) ==
  /\ \A k \in DOMAIN h : (\E j \in DOMAIN s : j # i /\ h[k] = s[j]) \/ (\E j \in DOMAIN t : h[k] = t[j])
  /\ \A j \in DOMAIN s : j # i => \E k \in DOMAIN h : h[k] = s[j]
  /\ \A j \in DOMAIN t : \E k \in DOMAIN h : h[k] = t[j]

LEMMA TurnFacts ==
  ASSUME NEW S, NEW s \in Seq(S), NEW i \in DOMAIN s, NEW t \in Seq(S)
  PROVE  LET h == RemoveAt(s, i) \o t IN
         /\ h \in Seq(S) /\ Turned(h, s, i, t)
         /\ IsInjective(s) /\ IsInjective(t) /\ (\A j \in DOMAIN s, k \in DOMAIN t : s[j] # t[k])
              => IsInjective(h)
<1> DEFINE r == RemoveAt(s, i)
           h == r \o t
           n == Len(s) - 1
           from(k) == IF k < i THEN k ELSE k + 1
<1>1. /\ Len(s) \in Nat \ {0} /\ i \in 1 .. Len(s) /\ DOMAIN s = 1 .. Len(s) /\ n \in Nat
      /\ DOMAIN t = 1 .. Len(t) /\ Len(t) \in Nat
  OBVIOUS
<1>2. r \in Seq(S) /\ Len(r) = n /\ \A k \in 1 .. n : r[k] = s[from(k)]
  BY RemoveFacts
<1> HIDE DEF r
<1>3. /\ h \in Seq(S) /\ DOMAIN h = 1 .. n + Len(t)
      /\ \A k \in 1 .. n : h[k] = r[k]
      /\ \A k \in 1 .. Len(t) : h[n + k] = t[k]
  <2>1. h \in Seq(S) /\ Len(h) = n + Len(t)
    <3>1. r \in Seq(S) /\ Len(r) = n
      BY <1>2
    <3> HIDE DEF n
    <3> QED BY <3>1, SMTT(30)
  <2>2. \A k \in 1 .. n : h[k] = r[k]
    BY <1>1, <1>2
  <2>3. ASSUME NEW k \in 1 .. Len(t) PROVE h[n + k] = t[k]
    <3> HIDE DEF n
    <3>1. n + k > n /\ n + k <= n + Len(t) /\ (n + k) - n = k
      BY <1>1
    <3> QED BY <1>1, <1>2, <3>1
  <2> QED BY <1>1, <2>1, <2>2, <2>3
<1> HIDE DEF h
<1>4. ASSUME NEW k \in DOMAIN h
      PROVE  \/ k \in 1 .. n /\ from(k) \in DOMAIN s /\ from(k) # i /\ h[k] = s[from(k)]
             \/ k - n \in DOMAIN t /\ h[k] = t[k - n]
  <2>1. CASE k \in 1 .. n
    <3>1. from(k) \in DOMAIN s /\ from(k) # i
      BY <1>1, <2>1
    <3>2. h[k] = r[k] /\ r[k] = s[from(k)]
      BY <1>2, <1>3, <2>1
    <3> QED BY <2>1, <3>1, <3>2
  <2>2. CASE k \notin 1 .. n
    <3>1. k - n \in 1 .. Len(t) /\ n + (k - n) = k
      BY <1>1, <1>3, <2>2
    <3> QED BY <1>1, <1>3, <3>1
  <2> QED BY <2>1, <2>2
<1>5. ASSUME NEW j \in DOMAIN s, j # i PROVE \E k \in DOMAIN h : h[k] = s[j]
  <2>1. CASE j < i
    <3>1. j \in 1 .. n /\ from(j) = j
      BY <1>1, <2>1
    <3>2. h[j] = r[j] /\ r[j] = s[from(j)] /\ j \in DOMAIN h
      <4>1. r[j] = s[from(j)]
        BY <1>2, <3>1
      <4>2. j \in DOMAIN h
        BY <1>1, <1>3, <3>1
      <4> QED BY <1>3, <3>1, <4>1, <4>2
    <3> QED BY <3>1, <3>2
  <2>2. CASE j > i
    <3>1. j - 1 \in 1 .. n /\ from(j - 1) = j
      BY <1>1, <2>2
    <3> QED BY <1>1, <1>2, <1>3, <3>1, SMTT(30)
  <2> QED BY <1>1, <1>5, <2>1, <2>2
<1>6. ASSUME NEW j \in DOMAIN t PROVE \E k \in DOMAIN h : h[k] = t[j]
  <2>1. n + j \in DOMAIN h
    BY <1>1, <1>3
  <2> QED BY <1>1, <1>3, <2>1
<1>7. Turned(h, s, i, t)
  BY <1>4, <1>5, <1>6 DEF Turned
<1>8. ASSUME IsInjective(s), IsInjective(t), \A j \in DOMAIN s, k \in DOMAIN t : s[j] # t[k],
             NEW k \in DOMAIN h, NEW l \in DOMAIN h, h[k] = h[l]
      PROVE  k = l
  <2>1. CASE k \in 1 .. n /\ from(k) \in DOMAIN s /\ h[k] = s[from(k)]
    <3>1. l \in 1 .. n /\ from(l) \in DOMAIN s /\ h[l] = s[from(l)]
      BY <1>4, <1>8, <2>1
    <3>2. from(k) = from(l)
      BY <1>8, <2>1, <3>1 DEF IsInjective
    <3> QED BY <1>1, <2>1, <3>1, <3>2
  <2>2. CASE k - n \in DOMAIN t /\ h[k] = t[k - n]
    <3>1. l - n \in DOMAIN t /\ h[l] = t[l - n]
      BY <1>4, <1>8, <2>2
    <3>2. k - n = l - n
      BY <1>8, <2>2, <3>1 DEF IsInjective
    <3> QED BY <1>1, <1>3, <3>2
  <2> QED BY <1>4, <2>1, <2>2
<1>9. IsInjective(s) /\ IsInjective(t) /\ (\A j \in DOMAIN s, k \in DOMAIN t : s[j] # t[k])
        => IsInjective(h)
  BY <1>8 DEF IsInjective
<1> QED BY <1>3, <1>7, <1>9 DEF h, r

\* A set in some order has each of its elements once.
LEMMA OrderFacts ==
  ASSUME NEW S, IsFiniteSet(S), NEW order \in SetToSeqs(S)
  PROVE  /\ order \in Seq(S) /\ IsInjective(order)
         /\ \A x \in S : \E j \in DOMAIN order : order[j] = x
<1> DEFINE c == Cardinality(S)
<1>1. c \in Nat
  BY FS_CardinalityType
<1>2. order \in [1 .. c -> S] /\ \A j, k \in 1 .. c : j # k => order[j] # order[k]
  BY DEF SetToSeqs
<1>3. order \in Seq(S) /\ IsInjective(order)
  BY <1>1, <1>2 DEF IsInjective
<1>4. order \in Injection(1 .. c, S)
  BY <1>2, <1>3 DEF Injection
<1>5. Cardinality(1 .. c) = c
  BY <1>1, FS_Interval
<1>6. order \in Surjection(1 .. c, S)
  BY <1>4, <1>5, FS_Injection
<1> QED BY <1>2, <1>3, <1>6 DEF Surjection

-----------------------------------------------------------------------------
(* A turn of the loop keeps the invariant                                    *)

\* What a turn begins with: the cheapest entry.
CheapestIs(i, cur, cost) ==
  /\ i \in DOMAIN heap /\ cur = heap[i].node /\ cost = heap[i].cost
  /\ \A j \in DOMAIN heap : cost <= heap[j].cost

LEMMA HeapTypes ==
  ASSUME DistOK, HeapOK, NEW j \in DOMAIN heap
  PROVE  /\ heap[j].cost \in Nat /\ heap[j].node \in DOMAIN dist /\ dist[heap[j].node] \in Nat
         /\ dist[heap[j].node] <= heap[j].cost /\ heap[j] \in Entries
         /\ heap[j] = [cost |-> heap[j].cost, node |-> heap[j].node]
<1>1. heap[j] \in Entries
  BY DEF HeapOK
<1> QED BY <1>1 DEF HeapOK, DistOK, Entries

LEMMA SameGraph ==
  ASSUME UNCHANGED given
  PROVE  /\ \A a, b : Weight(a, b)' = Weight(a, b)
         /\ \A a : Adjacent(a)' = Adjacent(a)
         /\ InputOK => InputOK'
BY DEF given, Weight, Adjacent, InputOK

\* A stale entry is dropped.
LEMMA StaleKeeps ==
  ASSUME SearchOK, NEW i, NEW cur, NEW cost, CheapestIs(i, cur, cost), cost > dist[cur],
         heap' = RemoveAt(heap, i), UNCHANGED <<dist, prev>>, UNCHANGED given
  PROVE  SearchOK'
<1>0. DistOK /\ HeapOK /\ i \in DOMAIN heap
  BY DEF SearchOK, CheapestIs
<1>1. heap' \in Seq(Entries) /\ Turned(heap', heap, i, << >>) /\ IsInjective(heap')
  <2>1. << >> \in Seq(Entries) /\ IsInjective(<< >>) /\ DOMAIN << >> = {}
    BY DEF IsInjective
  <2>2. heap \in Seq(Entries) /\ IsInjective(heap)
    BY <1>0 DEF HeapOK
  <2>3. RemoveAt(heap, i) \in Seq(Entries)
    BY <1>0, <2>2, RemoveFacts
  <2>4. RemoveAt(heap, i) \o << >> = RemoveAt(heap, i)
    BY <2>3
  <2> QED BY <1>0, <2>1, <2>2, <2>4, TurnFacts
<1>2. \A k \in DOMAIN heap' : \E j \in DOMAIN heap : j # i /\ heap'[k] = heap[j]
  BY <1>1 DEF Turned
<1>3. \A j \in DOMAIN heap : j # i => \E k \in DOMAIN heap' : heap'[k] = heap[j]
  BY <1>1 DEF Turned
<1>4. DistOK'
  BY <1>0 DEF DistOK
<1>5. HeapOK'
  BY <1>0, <1>1, <1>2 DEF HeapOK
<1>6. \A n : Settled(n)' <=> Settled(n)
  <2> SUFFICES ASSUME NEW n \in DOMAIN dist PROVE Settled(n)' <=> Settled(n)
    BY DEF Settled
  <2>1. ~(heap[i].node = n /\ heap[i].cost = dist[n])
    <3>1. dist[cur] \in Nat /\ cost \in Nat /\ cur = heap[i].node /\ cost = heap[i].cost
      BY <1>0, HeapTypes DEF CheapestIs
    <3> QED BY <3>1
  <2>2. Settled(n) => Settled(n)'
    BY <1>2 DEF Settled
  <2>3. Settled(n)' => Settled(n)
    BY <1>3, <2>1 DEF Settled
  <2> QED BY <2>2, <2>3
<1>7. ASSUME NEW n \in Nodes, Settled(n)' PROVE SettledOK(n)'
  <2>1. SettledOK(n)
    BY <1>6, <1>7 DEF SearchOK
  <2>2. goals' = goals /\ excluded' = excluded
    BY DEF given
  <2> QED BY <1>2, <2>1, <2>2, SameGraph DEF SettledOK
<1>8. ASSUME NEW n \in DOMAIN prev PROVE PrevOK(n)'
  <2>1. PrevOK(n) /\ excluded' = excluded
    BY DEF SearchOK, given
  <2> QED BY <1>6, <2>1, SameGraph DEF PrevOK
<1> QED BY <1>4, <1>5, <1>7, <1>8 DEF SearchOK

\* What is pushed: an entry for each node that is reached more cheaply.
LEMMA PushedFacts ==
  ASSUME InputOK, DistOK, NEW cur \in Nodes, NEW cost \in Nat, NEW new, new = Improved(cur, cost),
         NEW order \in SetToSeqs(new),
         NEW t, t = [j \in DOMAIN order |-> [cost |-> cost + Weight(cur, order[j]), node |-> order[j]]]
  PROVE  /\ t \in Seq(Entries) /\ IsInjective(t)
         /\ \A j \in DOMAIN t : t[j].node \in new /\ t[j].cost = cost + Weight(cur, t[j].node)
         /\ \A n \in new : \E j \in DOMAIN t : t[j].node = n /\ t[j].cost = cost + Weight(cur, n)
<1>1. new \subseteq Nodes /\ IsFiniteSet(new)
  <2>1. new \subseteq Nodes
    BY DEF Improved, Adjacent
  <2> QED BY <2>1, SearchAssumption, FS_Subset
<1>2. order \in Seq(new) /\ IsInjective(order) /\ \A n \in new : \E j \in DOMAIN order : order[j] = n
  BY <1>1, OrderFacts
<1>3. DOMAIN order = 1 .. Len(order) /\ Len(order) \in Nat /\ \A j \in DOMAIN order : order[j] \in new
  BY <1>2
<1>4. \A n \in new : n \in Nodes /\ cost + Weight(cur, n) \in Nat
  <2> SUFFICES ASSUME NEW n \in new PROVE n \in Nodes /\ cost + Weight(cur, n) \in Nat
    OBVIOUS
  <2>1. n \in Nodes /\ {cur, n} \in DOMAIN latency
    BY DEF Improved, Adjacent
  <2>2. Weight(cur, n) \in Nat
    BY <2>1, WeightPositive
  <2> QED BY <2>1, <2>2
<1>5. \A j \in DOMAIN order : t[j] = [cost |-> cost + Weight(cur, order[j]), node |-> order[j]]
  OBVIOUS
<1>6. t \in Seq(Entries)
  <2>1. \A j \in 1 .. Len(order) : t[j] \in Entries
    BY <1>3, <1>4, <1>5 DEF Entries
  <2>2. t \in [1 .. Len(order) -> Entries]
    BY <1>3, <2>1
  <2> QED BY <1>3, <2>2
<1>7. DOMAIN t = DOMAIN order /\ \A j \in DOMAIN t : t[j].node = order[j] /\ t[j].cost = cost + Weight(cur, order[j])
  BY <1>5
<1>8. IsInjective(t)
  BY <1>2, <1>7 DEF IsInjective
<1> QED BY <1>2, <1>3, <1>6, <1>7, <1>8

\* A node that is reached more cheaply is another node, and is not settled.
LEMMA ImprovedFacts ==
  ASSUME InputOK, SearchOK, NEW i, NEW cur, NEW cost, CheapestIs(i, cur, cost), NEW n \in Improved(cur, cost)
  PROVE  /\ n \in Nodes /\ n \in Adjacent(cur) /\ n \notin excluded /\ n # From /\ n # cur
         /\ Weight(cur, n) \in Nat \ {0} /\ cost \in Nat
         /\ n \in DOMAIN dist => cost + Weight(cur, n) < dist[n]
         /\ ~Settled(n)
<1>0. DistOK /\ HeapOK /\ i \in DOMAIN heap
  BY DEF SearchOK, CheapestIs
<1>1. cost \in Nat /\ cur \in DOMAIN dist /\ dist[cur] \in Nat /\ dist[cur] <= cost
  BY <1>0, HeapTypes DEF CheapestIs
<1>2. /\ n \in Nodes /\ n \in Adjacent(cur) /\ n \notin excluded /\ {cur, n} \in DOMAIN latency
      /\ n \in DOMAIN dist => cost + Weight(cur, n) < dist[n]
  BY DEF Improved, Adjacent
<1>3. Weight(cur, n) \in Nat \ {0}
  BY <1>2, WeightPositive
<1>4. n # cur
  BY <1>2, NoLoop
<1>5. n # From
  BY <1>0, <1>1, <1>2, <1>3 DEF DistOK
<1>6. ~Settled(n)
  <2> SUFFICES ASSUME Settled(n) PROVE FALSE
    OBVIOUS
  <2>1. n \in DOMAIN dist /\ dist[n] \in Nat
    BY <1>0 DEF Settled, DistOK
  <2>2. dist[n] <= heap[i].cost /\ heap[i].cost = cost
    BY <1>0, <1>2 DEF SearchOK, SettledOK, CheapestIs
  <2> QED BY <1>1, <1>2, <1>3, <2>1, <2>2
<1> QED BY <1>1, <1>2, <1>3, <1>4, <1>5, <1>6

\* cur's neighbours are looked at: cur is settled now.
LEMMA FreshKeeps ==
  ASSUME InputOK, SearchOK, NEW i, NEW cur, NEW cost, CheapestIs(i, cur, cost), ~(cost > dist[cur]),
         cur \notin goals, NEW new, new = Improved(cur, cost),
         dist' = [n \in DOMAIN dist \cup new |-> IF n \in new THEN cost + Weight(cur, n) ELSE dist[n]],
         prev' = [n \in DOMAIN prev \cup new |-> IF n \in new THEN cur ELSE prev[n]],
         NEW order \in SetToSeqs(new),
         heap' = RemoveAt(heap, i) \o
                   [j \in DOMAIN order |-> [cost |-> cost + Weight(cur, order[j]), node |-> order[j]]],
         UNCHANGED given
  PROVE  SearchOK'
<1> DEFINE t == [j \in DOMAIN order |-> [cost |-> cost + Weight(cur, order[j]), node |-> order[j]]]
<1>0. DistOK /\ HeapOK /\ i \in DOMAIN heap
  BY DEF SearchOK, CheapestIs
<1>1. cost \in Nat /\ cur \in DOMAIN dist /\ dist[cur] = cost /\ cur \in Nodes
  <2>1. cost \in Nat /\ cur \in DOMAIN dist /\ dist[cur] \in Nat /\ dist[cur] <= cost
    BY <1>0, HeapTypes DEF CheapestIs
  <2> QED BY <1>0, <2>1 DEF DistOK
<1>2. \A n \in new : /\ n \in Nodes /\ n \in Adjacent(cur) /\ n \notin excluded /\ n # From /\ n # cur
                     /\ Weight(cur, n) \in Nat \ {0}
                     /\ (n \in DOMAIN dist => cost + Weight(cur, n) < dist[n])
                     /\ ~Settled(n)
  BY ImprovedFacts
<1>3. /\ t \in Seq(Entries) /\ IsInjective(t)
      /\ \A j \in DOMAIN t : t[j].node \in new /\ t[j].cost = cost + Weight(cur, t[j].node)
      /\ \A n \in new : \E j \in DOMAIN t : t[j].node = n /\ t[j].cost = cost + Weight(cur, n)
  BY <1>0, <1>1, PushedFacts
<1> HIDE DEF t
<1>4. heap' \in Seq(Entries) /\ Turned(heap', heap, i, t) /\ IsInjective(heap')
  <2>1. heap \in Seq(Entries) /\ IsInjective(heap)
    BY <1>0 DEF HeapOK
  <2>2. ASSUME NEW j \in DOMAIN heap, NEW k \in DOMAIN t PROVE heap[j] # t[k]
    <3> SUFFICES ASSUME heap[j] = t[k] PROVE FALSE
      OBVIOUS
    <3> DEFINE m == t[k].node
    <3>1. m \in new /\ t[k].cost = cost + Weight(cur, m)
      BY <1>3
    <3>2. m \in DOMAIN dist /\ dist[m] <= cost + Weight(cur, m) /\ dist[m] \in Nat
      BY <1>0, <3>1, HeapTypes
    <3> QED BY <1>1, <1>2, <3>1, <3>2
  <2>3. heap' = RemoveAt(heap, i) \o t
    BY DEF t
  <2>4. t \in Seq(Entries) /\ IsInjective(t)
    BY <1>3
  <2> DEFINE h == RemoveAt(heap, i) \o t
  <2>5. /\ h \in Seq(Entries) /\ Turned(h, heap, i, t)
        /\ IsInjective(heap) /\ IsInjective(t) /\ (\A j \in DOMAIN heap, k \in DOMAIN t : heap[j] # t[k])
             => IsInjective(h)
    BY <1>0, <2>1, <2>4, TurnFacts, ZenonT(60)
  <2>6. IsInjective(h)
    BY <2>1, <2>2, <2>4, <2>5, ZenonT(60)
  <2> QED BY <2>3, <2>5, <2>6
<1>5. /\ \A k \in DOMAIN heap' : \/ \E j \in DOMAIN heap : j # i /\ heap'[k] = heap[j]
                                 \/ \E j \in DOMAIN t : heap'[k] = t[j]
      /\ \A j \in DOMAIN heap : j # i => \E k \in DOMAIN heap' : heap'[k] = heap[j]
      /\ \A j \in DOMAIN t : \E k \in DOMAIN heap' : heap'[k] = t[j]
  BY <1>4 DEF Turned
<1>6. /\ DOMAIN dist' = DOMAIN dist \cup new
      /\ \A n \in new : dist'[n] = cost + Weight(cur, n)
      /\ \A n \in DOMAIN dist \ new : dist'[n] = dist[n]
  OBVIOUS
<1>7. /\ DOMAIN prev' = DOMAIN prev \cup new
      /\ \A n \in new : prev'[n] = cur
      /\ \A n \in DOMAIN prev \ new : prev'[n] = prev[n]
  OBVIOUS
<1>8. DistOK'
  <2>1. dist' \in [DOMAIN dist' -> Nat]
    <3>1. \A n \in DOMAIN dist \cup new : dist'[n] \in Nat
      <4>1. ASSUME NEW n \in new PROVE dist'[n] \in Nat
        BY <1>1, <1>2, <1>6
      <4>2. ASSUME NEW n \in DOMAIN dist \ new PROVE dist'[n] \in Nat
        BY <1>0, <1>6 DEF DistOK
      <4> QED BY <4>1, <4>2
    <3> QED BY <3>1
  <2>2. DOMAIN dist' \subseteq Nodes /\ From \in DOMAIN dist' /\ dist'[From] = 0
    BY <1>0, <1>2, <1>6 DEF DistOK
  <2>3. DOMAIN prev' = DOMAIN dist' \ {From}
    BY <1>0, <1>2, <1>6, <1>7 DEF DistOK
  <2> QED BY <2>1, <2>2, <2>3 DEF DistOK
<1>9. \A n \in DOMAIN dist : dist'[n] <= dist[n] /\ dist'[n] \in Nat /\ dist[n] \in Nat
  <2>1. \A n \in DOMAIN dist : dist'[n] \in Nat /\ dist[n] \in Nat
    BY <1>0, <1>6, <1>8 DEF DistOK
  <2>2. ASSUME NEW n \in DOMAIN dist, n \in new PROVE dist'[n] <= dist[n]
    BY <1>1, <1>2, <1>6, <2>1, <2>2
  <2> QED BY <1>6, <2>1, <2>2
<1>10. HeapOK'
  <2>1. ASSUME NEW k \in DOMAIN heap'
        PROVE  heap'[k].node \in DOMAIN dist' /\ dist'[heap'[k].node] <= heap'[k].cost
    <3>1. ASSUME NEW j \in DOMAIN heap, heap'[k] = heap[j]
          PROVE  heap'[k].node \in DOMAIN dist' /\ dist'[heap'[k].node] <= heap'[k].cost
      <4> DEFINE m == heap[j].node
      <4>1. m \in DOMAIN dist /\ dist[m] <= heap[j].cost /\ heap[j].cost \in Nat
        BY <1>0, HeapTypes
      <4>2. dist'[m] <= dist[m] /\ dist'[m] \in Nat /\ dist[m] \in Nat /\ m \in DOMAIN dist'
        BY <1>6, <1>9, <4>1
      <4> HIDE DEF m
      <4>3. dist'[m] <= heap[j].cost
        BY <4>1, <4>2
      <4> QED BY <3>1, <4>2, <4>3 DEF m
    <3>2. ASSUME NEW j \in DOMAIN t, heap'[k] = t[j]
          PROVE  heap'[k].node \in DOMAIN dist' /\ dist'[heap'[k].node] <= heap'[k].cost
      <4> DEFINE m == t[j].node
      <4>1. m \in new /\ t[j].cost = cost + Weight(cur, m)
        BY <1>3
      <4>2. dist'[m] = t[j].cost /\ m \in DOMAIN dist' /\ t[j].cost \in Nat
        BY <1>1, <1>2, <1>6, <4>1
      <4> HIDE DEF m
      <4> QED BY <3>2, <4>2 DEF m
    <3> QED BY <1>5, <3>1, <3>2
  <2> QED BY <1>4, <2>1 DEF HeapOK
<1>11. \A n : Settled(n)' <=> (Settled(n) \/ n = cur)
  <2> SUFFICES ASSUME NEW n PROVE Settled(n)' <=> (Settled(n) \/ n = cur)
    OBVIOUS
  <2>1. CASE n \in new
    <3>1. PICK j \in DOMAIN t : t[j].node = n /\ t[j].cost = cost + Weight(cur, n)
      BY <1>3, <2>1
    <3>2. PICK k \in DOMAIN heap' : heap'[k] = t[j]
      BY <1>5
    <3>3. heap'[k].node = n /\ heap'[k].cost = dist'[n]
      BY <1>6, <2>1, <3>1, <3>2
    <3>4. ~Settled(n)'
      BY <3>3 DEF Settled
    <3> QED BY <1>2, <2>1, <3>4
  <2>2. CASE n \notin new /\ n = cur
    <3>1. n \in DOMAIN dist' /\ dist'[n] = cost
      BY <1>1, <1>6, <2>2
    <3>2. ASSUME NEW k \in DOMAIN heap', heap'[k].node = n, heap'[k].cost = cost PROVE FALSE
      <4>1. ASSUME NEW j \in DOMAIN heap, j # i, heap'[k] = heap[j] PROVE FALSE
        <5>1. /\ heap[j] = [cost |-> heap[j].cost, node |-> heap[j].node]
              /\ heap[i] = [cost |-> heap[i].cost, node |-> heap[i].node]
          BY <1>0, HeapTypes
        <5>2. heap[j].cost = heap[i].cost /\ heap[j].node = heap[i].node
          BY <2>2, <3>2, <4>1 DEF CheapestIs
        <5>3. heap[i] = heap[j]
          BY <5>1, <5>2
        <5> QED BY <1>0, <4>1, <5>3 DEF HeapOK, IsInjective
      <4>2. ASSUME NEW j \in DOMAIN t, heap'[k] = t[j] PROVE FALSE
        BY <1>3, <2>2, <3>2, <4>2
      <4> QED BY <1>5, <4>1, <4>2
    <3>3. Settled(n)'
      BY <3>1, <3>2 DEF Settled
    <3> QED BY <2>2, <3>3
  <2>3. CASE n \notin new /\ n # cur /\ n \in DOMAIN dist
    <3>1. n \in DOMAIN dist' /\ dist'[n] = dist[n]
      BY <1>6, <2>3
    <3>2. ASSUME Settled(n) PROVE Settled(n)'
      <4>1. ASSUME NEW k \in DOMAIN heap', heap'[k].node = n, heap'[k].cost = dist[n] PROVE FALSE
        <5>1. ASSUME NEW j \in DOMAIN heap, heap'[k] = heap[j] PROVE FALSE
          BY <3>2, <4>1, <5>1 DEF Settled
        <5>2. ASSUME NEW j \in DOMAIN t, heap'[k] = t[j] PROVE FALSE
          BY <1>3, <2>3, <4>1, <5>2
        <5> QED BY <1>5, <5>1, <5>2
      <4> QED BY <3>1, <4>1 DEF Settled
    <3>3. ASSUME Settled(n)' PROVE Settled(n)
      <4>1. ASSUME NEW j \in DOMAIN heap, heap[j].node = n, heap[j].cost = dist[n] PROVE FALSE
        <5>1. j # i
          BY <2>3, <4>1 DEF CheapestIs
        <5>2. PICK k \in DOMAIN heap' : heap'[k] = heap[j]
          BY <1>5, <5>1
        <5> QED BY <3>1, <3>3, <4>1, <5>2 DEF Settled
      <4> QED BY <2>3, <4>1 DEF Settled
    <3> QED BY <2>3, <3>2, <3>3
  <2>4. CASE n \notin new /\ n # cur /\ n \notin DOMAIN dist
    BY <1>6, <2>4 DEF Settled
  <2> QED BY <2>1, <2>2, <2>3, <2>4
<1>12. goals' = goals /\ excluded' = excluded
  BY DEF given
<1>13. \A k \in DOMAIN heap' : cost <= heap'[k].cost /\ heap'[k].cost \in Nat
  <2> SUFFICES ASSUME NEW k \in DOMAIN heap' PROVE cost <= heap'[k].cost /\ heap'[k].cost \in Nat
    OBVIOUS
  <2>1. ASSUME NEW j \in DOMAIN heap, heap'[k] = heap[j] PROVE cost <= heap'[k].cost /\ heap'[k].cost \in Nat
    BY <1>0, <2>1, HeapTypes DEF CheapestIs
  <2>2. ASSUME NEW j \in DOMAIN t, heap'[k] = t[j] PROVE cost <= heap'[k].cost /\ heap'[k].cost \in Nat
    <3>1. t[j].node \in new /\ t[j].cost = cost + Weight(cur, t[j].node)
      BY <1>3
    <3>2. Weight(cur, t[j].node) \in Nat
      BY <1>2, <3>1
    <3> QED BY <1>1, <2>2, <3>1, <3>2
  <2> QED BY <1>5, <2>1, <2>2
<1>14. ASSUME NEW n \in Nodes, Settled(n)' PROVE SettledOK(n)'
  <2>1. CASE n = cur
    <3>1. dist'[n] = cost
      BY <1>1, <1>2, <1>6, <2>1
    <3>2. ASSUME NEW m \in Adjacent(n) \ excluded
          PROVE  m \in DOMAIN dist' /\ dist'[m] <= dist'[n] + Weight(n, m)
      <4>1. Weight(n, m) \in Nat
        BY WeightPositive DEF Adjacent
      <4>2. CASE m \in new
        BY <1>1, <1>6, <2>1, <3>1, <4>1, <4>2
      <4>3. CASE m \notin new
        <5>1. m \in DOMAIN dist /\ ~(cost + Weight(cur, m) < dist[m])
          BY <2>1, <4>3 DEF Improved
        <5>2. dist'[m] = dist[m] /\ dist[m] \in Nat /\ m \in DOMAIN dist'
          BY <1>6, <1>9, <4>3, <5>1
        <5>3. dist[m] <= cost + Weight(cur, m)
          BY <1>1, <2>1, <4>1, <5>1, <5>2
        <5> QED BY <2>1, <3>1, <5>2, <5>3
      <4> QED BY <4>2, <4>3
    <3> QED BY <1>12, <1>13, <2>1, <3>1, <3>2, SameGraph DEF SettledOK
  <2>2. CASE n # cur
    <3>1. Settled(n) /\ SettledOK(n)
      BY <1>11, <1>14, <2>2 DEF SearchOK
    <3>2. n \in DOMAIN dist \ new /\ dist'[n] = dist[n] /\ dist[n] \in Nat
      BY <1>2, <1>6, <1>9, <3>1 DEF Settled
    <3>3. dist[n] <= cost
      BY <3>1 DEF SettledOK, CheapestIs
    <3>4. ASSUME NEW k \in DOMAIN heap' PROVE dist'[n] <= heap'[k].cost
      <4>1. cost <= heap'[k].cost /\ heap'[k].cost \in Nat
        BY <1>13
      <4> QED BY <1>1, <3>2, <3>3, <4>1
    <3>5. ASSUME NEW m \in Adjacent(n) \ excluded
          PROVE  m \in DOMAIN dist' /\ dist'[m] <= dist'[n] + Weight(n, m)
      <4>1. Weight(n, m) \in Nat
        BY WeightPositive DEF Adjacent
      <4>2. m \in DOMAIN dist /\ dist[m] <= dist[n] + Weight(n, m)
        BY <3>1 DEF SettledOK
      <4>3. dist'[m] <= dist[m] /\ dist'[m] \in Nat /\ dist[m] \in Nat /\ m \in DOMAIN dist'
        BY <1>6, <1>9, <4>2
      <4> QED BY <3>2, <4>1, <4>2, <4>3
    <3>6. n \notin goals
      BY <3>1 DEF SettledOK
    <3> QED BY <1>12, <3>4, <3>5, <3>6, SameGraph DEF SettledOK
  <2> QED BY <2>1, <2>2
<1>15. ASSUME NEW n \in DOMAIN prev' PROVE PrevOK(n)'
  <2>1. CASE n \in new
    <3>1. prev'[n] = cur /\ Settled(cur)' /\ n \in Adjacent(cur) /\ n \notin excluded
      BY <1>2, <1>7, <1>11, <2>1
    <3>2. dist'[cur] = cost /\ dist'[n] = cost + Weight(cur, n)
      BY <1>1, <1>2, <1>6, <2>1
    <3> QED BY <1>12, <3>1, <3>2, SameGraph DEF PrevOK
  <2>2. CASE n \notin new
    <3>0. PICK q : q = prev[n]
      OBVIOUS
    <3>1. n \in DOMAIN prev /\ prev'[n] = q /\ n \in DOMAIN dist /\ dist'[n] = dist[n]
      BY <1>0, <1>6, <1>7, <2>2, <3>0 DEF DistOK
    <3>2. /\ Settled(q) /\ n \in Adjacent(q) /\ n \notin excluded
          /\ dist[n] = dist[q] + Weight(q, n)
      BY <3>0, <3>1 DEF SearchOK, PrevOK
    <3>3. Settled(q)'
      BY <1>11, <3>2
    <3>4. q \in DOMAIN dist \ new
      BY <1>2, <3>2 DEF Settled
    <3>5. dist'[q] = dist[q]
      BY <1>6, <3>4
    <3> QED BY <1>12, <3>1, <3>2, <3>3, <3>5, SameGraph DEF PrevOK
  <2> QED BY <2>1, <2>2
<1> QED BY <1>8, <1>10, <1>14, <1>15 DEF SearchOK

-----------------------------------------------------------------------------
(* What a path costs                                                        *)

WeightIn(l, a, b) == IF l[{a, b}] > 0 THEN l[{a, b}] ELSE DEFAULT_LATENCY

CostIn(l, p) ==
  LET upTo[j \in 1..Len(p)] == IF j = 1 THEN 0 ELSE upTo[j - 1] + WeightIn(l, p[j - 1], p[j])
  IN upTo[Len(p)]

\* What the first n nodes of p cost, one after the other.
Sums(p, n, h) ==
  /\ h = [j \in 1 .. n |-> h[j]] /\ h[1] = 0
  /\ \A j \in 2 .. n : h[j] = h[j - 1] + Weight(p[j - 1], p[j])

LEMMA SumsExist ==
  ASSUME NEW p, NEW len \in Nat \ {0}
  PROVE  \E h : Sums(p, len, h)
<1> DEFINE T == {n \in Nat : \E h : Sums(p, n + 1, h)}
<1>1. 0 \in T
  <2>1. Sums(p, 1, [j \in 1 .. 1 |-> 0])
    BY DEF Sums
  <2> QED BY <2>1
<1>2. ASSUME NEW n \in Nat, n \in T PROVE n + 1 \in T
  <2>1. PICK h : Sums(p, n + 1, h)
    BY <1>2
  <2> DEFINE e == h[n + 1] + Weight(p[n + 1], p[n + 2])
             k == [j \in 1 .. n + 2 |-> IF j = n + 2 THEN e ELSE h[j]]
  <2> HIDE DEF e
  <2>2. k = [j \in 1 .. n + 2 |-> k[j]] /\ k[1] = 0
    BY <2>1 DEF Sums
  <2>3. ASSUME NEW j \in 2 .. n + 2 PROVE k[j] = k[j - 1] + Weight(p[j - 1], p[j])
    <3>1. CASE j = n + 2
      <4>1. k[j] = e /\ k[j - 1] = h[n + 1] /\ j - 1 = n + 1
        BY <3>1
      <4> QED BY <3>1, <4>1 DEF e
    <3>2. CASE j \in 2 .. n + 1
      <4>1. k[j] = h[j] /\ k[j - 1] = h[j - 1]
        BY <3>2
      <4> QED BY <2>1, <3>2, <4>1 DEF Sums
    <3> QED BY <3>1, <3>2
  <2>4. Sums(p, n + 2, k)
    BY <2>2, <2>3 DEF Sums
  <2>5. (n + 1) + 1 = n + 2
    OBVIOUS
  <2> QED BY <2>4, <2>5
<1> HIDE DEF T
<1>3. len - 1 \in T
  BY <1>1, <1>2, AllNumbers
<1>4. (len - 1) + 1 = len
  OBVIOUS
<1> QED BY <1>3, <1>4 DEF T

LEMMA CostFacts ==
  ASSUME NEW p, Len(p) \in Nat \ {0}
  PROVE  \E h : Sums(p, Len(p), h) /\ Cost(p) = h[Len(p)]
<1> DEFINE len == Len(p)
           Def(f) == [j \in 1 .. len |-> IF j = 1 THEN 0 ELSE f[j - 1] + Weight(p[j - 1], p[j])]
           upTo == CHOOSE f : f = Def(f)
<1>1. Cost(p) = upTo[len]
  BY DEF Cost
<1>2. upTo = Def(upTo)
  <2>1. PICK h : Sums(p, len, h)
    BY SumsExist
  <2>2. h = Def(h)
    <3>1. ASSUME NEW j \in 1 .. len
          PROVE  h[j] = IF j = 1 THEN 0 ELSE h[j - 1] + Weight(p[j - 1], p[j])
      <4>1. CASE j = 1
        BY <2>1, <4>1 DEF Sums
      <4>2. CASE j \in 2 .. len
        BY <2>1, <4>2 DEF Sums
      <4> QED BY <4>1, <4>2
    <3>2. h = [j \in 1 .. len |-> h[j]]
      BY <2>1 DEF Sums
    <3> QED BY <3>1, <3>2
  <2> QED BY <2>2
<1> HIDE DEF upTo
<1>3. Sums(p, len, upTo)
  <2>1. upTo = [j \in 1 .. len |-> upTo[j]]
    BY <1>2
  <2>2. upTo[1] = 0
    BY <1>2
  <2>3. ASSUME NEW j \in 2 .. len PROVE upTo[j] = upTo[j - 1] + Weight(p[j - 1], p[j])
    BY <1>2
  <2> QED BY <2>1, <2>2, <2>3 DEF Sums
<1> QED BY <1>1, <1>3

\* What a path costs depends on the latencies only.
LEMMA SamePaths ==
  ASSUME UNCHANGED given
  PROVE  /\ \A p : Cost(p)' = Cost(p)
         /\ Paths' = Paths
<1>1. latency' = latency /\ goals' = goals /\ excluded' = excluded
  BY DEF given
<1>2. ASSUME NEW p PROVE Cost(p)' = Cost(p)
  <2>1. Cost(p) = CostIn(latency, p)
    BY DEF Cost, CostIn, Weight, WeightIn
  <2>2. Cost(p)' = CostIn(latency', p)
    BY DEF Cost, CostIn, Weight, WeightIn
  <2> QED BY <1>1, <2>1, <2>2
<1>3. Paths' = Paths
  BY <1>1 DEF Paths
<1> QED BY <1>2, <1>3

LEMMA WalkFacts ==
  ASSUME NEW p \in Walks
  PROVE  /\ p \in Seq(Nodes) /\ Len(p) \in Nat \ {0} /\ DOMAIN p = 1 .. Len(p)
         /\ Last(p) = p[Len(p)] /\ \A j \in 1 .. Len(p) : p[j] \in Nodes
<1>1. Cardinality(Nodes) \in Nat
  BY SearchAssumption, FS_CardinalityType
<1>2. PICK k \in 1 .. Cardinality(Nodes) : p \in [1 .. k -> Nodes]
  BY DEF Walks
<1>3. k \in Nat \ {0}
  BY <1>1, <1>2
<1>4. p \in Seq(Nodes) /\ Len(p) = k
  BY <1>2, <1>3
<1> QED BY <1>2, <1>3, <1>4 DEF Last

\* As long as the search goes on, the heap has an entry that is no more expensive than
\* any path: its last node is found and not settled, or one before it is.
LEMMA LowerBound ==
  ASSUME InputOK, SearchOK, NEW p \in Paths
  PROVE  Cost(p) \in Nat /\ \E i \in DOMAIN heap : heap[i].cost <= Cost(p)
<1> DEFINE len == Len(p)
<1>0. DistOK /\ HeapOK
  BY DEF SearchOK
<1>1. /\ len \in Nat \ {0} /\ \A j \in 1 .. len : p[j] \in Nodes
      /\ p[1] = From /\ p[len] \in goals
      /\ \A j \in 2 .. len : p[j] \notin excluded /\ {p[j - 1], p[j]} \in DOMAIN latency
  <2>1. p \in Walks
    BY DEF Paths
  <2> QED BY <2>1, WalkFacts DEF Paths
<1>2. PICK h : Sums(p, len, h) /\ Cost(p) = h[len]
  BY <1>1, CostFacts
<1> DEFINE Reached(j) == p[j] \in DOMAIN dist /\ dist[p[j]] <= h[j]
           Open(j)    == \E i \in DOMAIN heap : heap[i].cost <= h[j]
           T == {j \in Nat : j + 1 <= len => h[j + 1] \in Nat /\ (Reached(j + 1) \/ Open(j + 1))}
<1> HIDE DEF len
<1>3. 0 \in T
  <2>1. h[1] = 0 /\ dist[p[1]] = 0 /\ p[1] \in DOMAIN dist
    BY <1>0, <1>1, <1>2 DEF Sums, DistOK
  <2> QED BY <2>1
<1>4. ASSUME NEW j \in 1 .. len, h[j] \in Nat, Reached(j)
      PROVE  Open(j) \/ (Settled(p[j]) /\ dist[p[j]] \in Nat)
  <2>1. dist[p[j]] \in Nat /\ p[j] \in DOMAIN dist
    BY <1>0, <1>4 DEF DistOK
  <2>2. ASSUME ~Settled(p[j]) PROVE Open(j)
    <3>1. PICK i \in DOMAIN heap : heap[i].node = p[j] /\ heap[i].cost = dist[p[j]]
      BY <2>1, <2>2 DEF Settled
    <3> QED BY <1>4, <3>1
  <2> QED BY <2>1, <2>2
<1>5. ASSUME NEW j \in Nat, j \in T PROVE j + 1 \in T
  <2> SUFFICES ASSUME (j + 1) + 1 <= len
               PROVE  h[(j + 1) + 1] \in Nat /\ (Reached((j + 1) + 1) \/ Open((j + 1) + 1))
    OBVIOUS
  <2> DEFINE a == j + 1
             b == (j + 1) + 1
  <2>1. a \in 1 .. len /\ b \in 2 .. len /\ b - 1 = a
    BY <1>1
  <2>2. h[a] \in Nat /\ (Reached(a) \/ Open(a))
    BY <1>5, <2>1
  <2> HIDE DEF a, b
  <2>3. p[b] \notin excluded /\ {p[a], p[b]} \in DOMAIN latency /\ h[b] = h[a] + Weight(p[a], p[b])
    BY <1>1, <1>2, <2>1 DEF Sums
  <2>4. Weight(p[a], p[b]) \in Nat
    BY <2>3, WeightPositive
  <2>5. h[b] \in Nat /\ h[a] <= h[b]
    BY <2>2, <2>3, <2>4
  <2>6. CASE Open(a)
    <3>1. PICK i \in DOMAIN heap : heap[i].cost <= h[a]
      BY <2>6
    <3>2. heap[i].cost \in Nat
      BY <1>0, HeapTypes
    <3>3. heap[i].cost <= h[b]
      BY <2>2, <2>5, <3>1, <3>2
    <3> QED BY <2>5, <3>3 DEF b
  <2>7. CASE Reached(a) /\ Settled(p[a]) /\ dist[p[a]] \in Nat
    <3>1. p[b] \in Adjacent(p[a]) \ excluded /\ p[a] \in Nodes
      BY <1>1, <2>1, <2>3 DEF Adjacent
    <3>2. p[b] \in DOMAIN dist /\ dist[p[b]] <= dist[p[a]] + Weight(p[a], p[b])
      BY <2>7, <3>1 DEF SearchOK, SettledOK
    <3>3. dist[p[b]] \in Nat
      BY <1>0, <3>2 DEF DistOK
    <3>4. dist[p[b]] <= h[b]
      BY <2>2, <2>3, <2>4, <2>7, <3>2, <3>3
    <3> QED BY <2>5, <3>2, <3>4 DEF b
  <2> QED BY <1>4, <2>1, <2>2, <2>6, <2>7
<1>6. len - 1 \in T /\ (len - 1) + 1 = len
  <2> HIDE DEF T
  <2> QED BY <1>1, <1>3, <1>5, AllNumbers
<1>7. h[len] \in Nat /\ (Reached(len) \/ Open(len))
  BY <1>6
<1>8. ~Settled(p[len])
  BY <1>1 DEF SearchOK, SettledOK
<1>9. Open(len)
  BY <1>1, <1>4, <1>7, <1>8
<1> QED BY <1>2, <1>7, <1>9

-----------------------------------------------------------------------------
(* The path that prev leads back along                                      *)

\* Whatever leads back from a node that was found begins at From, takes edges over nodes
\* that are not excluded, has no node twice, and costs what is known of the node.
LEMMA LedBackFacts ==
  ASSUME InputOK, SearchOK, NEW p \in Seq(Nodes), p # << >>, NEW n \in DOMAIN dist, LedBack(p, n)
  PROVE  /\ p[1] = From /\ IsInjective(p) /\ Cost(p) = dist[n]
         /\ \A j \in 2 .. Len(p) : p[j] \notin excluded /\ {p[j - 1], p[j]} \in DOMAIN latency
<1> DEFINE len == Len(p)
<1>0. DistOK /\ len \in Nat \ {0} /\ DOMAIN p = 1 .. len
  BY DEF SearchOK
<1>1. /\ p[len] = n /\ p[1] \notin DOMAIN prev
      /\ \A j \in 2 .. len : p[j] \in DOMAIN prev /\ p[j - 1] = prev[p[j]]
  BY DEF LedBack, Last
<1> HIDE DEF len
<1>2. ASSUME NEW j \in 2 .. len
      PROVE  /\ Settled(p[j - 1]) /\ p[j] \in Adjacent(p[j - 1]) /\ p[j] \notin excluded
             /\ dist[p[j]] = dist[p[j - 1]] + Weight(p[j - 1], p[j])
  <2>1. p[j] \in DOMAIN prev /\ p[j - 1] = prev[p[j]]
    BY <1>1
  <2>2. PrevOK(p[j])
    BY <2>1 DEF SearchOK
  <2> QED BY <2>1, <2>2 DEF PrevOK
<1>3. ASSUME NEW j \in 1 .. len PROVE p[j] \in DOMAIN dist /\ dist[p[j]] \in Nat
  <2>1. p[j] \in DOMAIN dist
    <3>1. CASE j = len
      BY <1>1, <3>1
    <3>2. CASE j # len
      <4>1. j + 1 \in 2 .. len /\ (j + 1) - 1 = j
        BY <1>0, <3>2
      <4>2. Settled(p[j])
        BY <1>2, <4>1
      <4> QED BY <4>2 DEF Settled
    <3> QED BY <3>1, <3>2
  <2> QED BY <1>0, <2>1 DEF DistOK
<1>4. p[1] = From
  <2>1. p[1] \in DOMAIN dist
    BY <1>0, <1>3
  <2> QED BY <1>0, <1>1, <2>1 DEF DistOK
<1>5. ASSUME NEW j \in 2 .. len
      PROVE  /\ {p[j - 1], p[j]} \in DOMAIN latency
             /\ dist[p[j - 1]] < dist[p[j]]
  <2>1. {p[j - 1], p[j]} \in DOMAIN latency
    BY <1>2 DEF Adjacent
  <2>2. Weight(p[j - 1], p[j]) \in Nat \ {0}
    BY <2>1, WeightPositive
  <2>3. j - 1 \in 1 .. len /\ j \in 1 .. len
    BY <1>0
  <2>4. dist[p[j - 1]] \in Nat /\ dist[p[j]] \in Nat
    BY <1>3, <2>3
  <2> QED BY <1>2, <2>1, <2>2, <2>4
<1>6. Cost(p) = dist[n]
  <2>1. PICK h : Sums(p, len, h) /\ Cost(p) = h[len]
    BY <1>0, CostFacts DEF len
  <2> DEFINE T == {j \in Nat : j + 1 <= len => h[j + 1] = dist[p[j + 1]]}
  <2>2. 0 \in T
    BY <1>0, <1>4, <2>1 DEF Sums, DistOK
  <2>3. ASSUME NEW j \in Nat, j \in T PROVE j + 1 \in T
    <3> SUFFICES ASSUME (j + 1) + 1 <= len PROVE h[(j + 1) + 1] = dist[p[(j + 1) + 1]]
      OBVIOUS
    <3> DEFINE a == j + 1
               b == (j + 1) + 1
    <3>1. a \in 1 .. len /\ b \in 2 .. len /\ b - 1 = a /\ h[a] = dist[p[a]]
      BY <1>0, <2>3
    <3> HIDE DEF a, b
    <3>2. h[b] = h[a] + Weight(p[a], p[b])
      BY <2>1, <3>1 DEF Sums
    <3>3. dist[p[b]] = dist[p[a]] + Weight(p[a], p[b])
      BY <1>2, <3>1
    <3>4. h[b] = dist[p[b]]
      BY <3>1, <3>2, <3>3
    <3> QED BY <3>4 DEF b
  <2>4. len - 1 \in T /\ (len - 1) + 1 = len
    <3> HIDE DEF T
    <3> QED BY <1>0, <2>2, <2>3, AllNumbers
  <2> QED BY <1>1, <2>1, <2>4
<1>7. ASSUME NEW j \in 1 .. len, NEW k \in 1 .. len, j < k PROVE dist[p[j]] < dist[p[k]]
  <2> DEFINE T == {d \in Nat : j + d + 1 <= len => dist[p[j]] < dist[p[j + d + 1]]}
  <2>1. 0 \in T
    <3> SUFFICES ASSUME j + 0 + 1 <= len PROVE dist[p[j]] < dist[p[j + 0 + 1]]
      OBVIOUS
    <3>1. j + 0 + 1 \in 2 .. len /\ (j + 0 + 1) - 1 = j
      BY <1>0
    <3> QED BY <1>5, <3>1
  <2>2. ASSUME NEW d \in Nat, d \in T PROVE d + 1 \in T
    <3> SUFFICES ASSUME j + (d + 1) + 1 <= len PROVE dist[p[j]] < dist[p[j + (d + 1) + 1]]
      OBVIOUS
    <3> DEFINE a == j + d + 1
               b == j + (d + 1) + 1
    <3>1. a \in 1 .. len /\ b \in 2 .. len /\ b - 1 = a /\ dist[p[j]] < dist[p[a]] /\ b \in 1 .. len
      BY <1>0, <2>2
    <3> HIDE DEF a, b
    <3>2. dist[p[a]] < dist[p[b]]
      BY <1>5, <3>1
    <3>3. dist[p[j]] \in Nat /\ dist[p[a]] \in Nat /\ dist[p[b]] \in Nat
      BY <1>3, <3>1
    <3>4. dist[p[j]] < dist[p[b]]
      BY <3>1, <3>2, <3>3
    <3> QED BY <3>4 DEF b
  <2>3. k - j - 1 \in T /\ j + (k - j - 1) + 1 = k
    <3>1. k - j - 1 \in Nat /\ j + (k - j - 1) + 1 = k
      BY <1>0, <1>7
    <3> HIDE DEF T
    <3> QED BY <2>1, <2>2, <3>1, AllNumbers
  <2> QED BY <1>0, <2>3
<1>8. IsInjective(p)
  <2>1. ASSUME NEW j \in 1 .. len, NEW k \in 1 .. len, p[j] = p[k] PROVE j = k
    <3>1. ~(j < k) /\ ~(k < j)
      BY <1>3, <1>7, <2>1
    <3> QED BY <1>0, <3>1
  <2> QED BY <1>0, <2>1 DEF IsInjective
<1> QED BY <1>2, <1>4, <1>5, <1>6, <1>8 DEF len

\* What has no node twice is no longer than there are nodes.
LEMMA InjectiveIsWalk ==
  ASSUME NEW p \in Seq(Nodes), p # << >>, IsInjective(p)
  PROVE  p \in Walks
<1>1. Len(p) \in Nat \ {0} /\ DOMAIN p = 1 .. Len(p) /\ p \in [1 .. Len(p) -> Nodes]
  OBVIOUS
<1>2. p \in Injection(1 .. Len(p), Nodes)
  BY <1>1 DEF Injection, IsInjective
<1>3. Cardinality(1 .. Len(p)) <= Cardinality(Nodes)
  BY <1>2, SearchAssumption, FS_Injection
<1>4. Cardinality(1 .. Len(p)) = Len(p)
  BY <1>1, FS_Interval
<1>5. Cardinality(Nodes) \in Nat
  BY SearchAssumption, FS_CardinalityType
<1>6. Len(p) \in 1 .. Cardinality(Nodes)
  BY <1>1, <1>3, <1>4, <1>5
<1> QED BY <1>1, <1>6 DEF Walks

\* From every node that was found something leads back.
LEMMA ChainExists ==
  ASSUME InputOK, SearchOK, NEW n \in DOMAIN dist
  PROVE  \E p \in Walks : LedBack(p, n)
<1> DEFINE Led(m) == \E p \in Seq(Nodes) : p # << >> /\ LedBack(p, m)
           T == {d \in Nat : \A m \in DOMAIN dist : dist[m] <= d => Led(m)}
<1>0. DistOK
  BY DEF SearchOK
<1>1. Led(From)
  <2>1. <<From>> \in Seq(Nodes) /\ <<From>> # << >> /\ Len(<<From>>) = 1
    BY SearchAssumption
  <2>2. From \notin DOMAIN prev
    BY <1>0 DEF DistOK
  <2>3. LedBack(<<From>>, From)
    BY <2>1, <2>2 DEF LedBack, Last
  <2> QED BY <2>1, <2>3
<1>2. ASSUME NEW m \in DOMAIN dist, m # From
      PROVE  /\ m \in DOMAIN prev /\ prev[m] \in DOMAIN dist /\ dist[prev[m]] < dist[m]
             /\ dist[m] \in Nat /\ dist[prev[m]] \in Nat /\ m \in Nodes
  <2>1. m \in DOMAIN prev /\ m \in Nodes /\ dist[m] \in Nat
    BY <1>0, <1>2 DEF DistOK
  <2>2. PrevOK(m)
    BY <2>1 DEF SearchOK
  <2>3. prev[m] \in DOMAIN dist /\ {prev[m], m} \in DOMAIN latency
    BY <2>2 DEF PrevOK, Settled, Adjacent
  <2>4. Weight(prev[m], m) \in Nat \ {0} /\ dist[prev[m]] \in Nat
    BY <1>0, <2>3, WeightPositive DEF DistOK
  <2>5. dist[m] = dist[prev[m]] + Weight(prev[m], m)
    BY <2>2 DEF PrevOK
  <2> QED BY <2>1, <2>3, <2>4, <2>5
<1>3. 0 \in T
  <2> SUFFICES ASSUME NEW m \in DOMAIN dist, dist[m] <= 0 PROVE Led(m)
    OBVIOUS
  <2>1. m = From
    BY <1>2
  <2> QED BY <1>1, <2>1
<1>4. ASSUME NEW m \in DOMAIN dist, m # From, Led(prev[m]) PROVE Led(m)
  <2>1. PICK p \in Seq(Nodes) : p # << >> /\ LedBack(p, prev[m])
    BY <1>4
  <2> DEFINE r == Append(p, m)
  <2>2. /\ r \in Seq(Nodes) /\ r # << >> /\ Len(r) = Len(p) + 1 /\ Len(p) \in Nat \ {0}
        /\ r[Len(p) + 1] = m /\ \A j \in 1 .. Len(p) : r[j] = p[j]
    BY <1>2, <1>4, <2>1, SMTT(30)
  <2> HIDE DEF r
  <2>3. /\ p[Len(p)] = prev[m] /\ p[1] \notin DOMAIN prev
        /\ \A j \in 2 .. Len(p) : p[j] \in DOMAIN prev /\ p[j - 1] = prev[p[j]]
    BY <2>1 DEF LedBack, Last
  <2>4. ASSUME NEW j \in 2 .. Len(r) PROVE r[j] \in DOMAIN prev /\ r[j - 1] = prev[r[j]]
    <3>1. CASE j = Len(p) + 1
      <4>1. r[j] = m /\ r[j - 1] = p[Len(p)]
        BY <2>2, <3>1
      <4> QED BY <1>2, <1>4, <2>3, <4>1
    <3>2. CASE j \in 2 .. Len(p)
      <4>1. r[j] = p[j] /\ r[j - 1] = p[j - 1]
        BY <2>2, <3>2
      <4> QED BY <2>3, <3>2, <4>1
    <3> QED BY <2>2, <3>1, <3>2
  <2>5. r[1] = p[1] /\ Last(r) = m
    BY <2>2 DEF Last
  <2>6. LedBack(r, m)
    BY <2>3, <2>4, <2>5 DEF LedBack
  <2> QED BY <2>2, <2>6
<1>5. ASSUME NEW d \in Nat, d \in T PROVE d + 1 \in T
  <2> SUFFICES ASSUME NEW m \in DOMAIN dist, dist[m] <= d + 1 PROVE Led(m)
    OBVIOUS
  <2>1. CASE m = From
    BY <1>1, <2>1
  <2>2. CASE m # From
    <3>1. prev[m] \in DOMAIN dist /\ dist[prev[m]] <= d
      BY <1>2, <2>2
    <3>2. Led(prev[m])
      BY <1>5, <3>1
    <3> HIDE DEF Led
    <3> QED BY <1>4, <2>2, <3>2
  <2> QED BY <2>1, <2>2
<1>6. Nat \subseteq T
  <2> HIDE DEF T
  <2> QED BY <1>3, <1>5, AllNumbers
<1>7. Led(n)
  <2>1. dist[n] \in Nat /\ dist[n] <= dist[n]
    BY <1>0 DEF DistOK
  <2>2. dist[n] \in T
    BY <1>6, <2>1
  <2> HIDE DEF Led
  <2> QED BY <2>1, <2>2
<1>8. PICK p \in Seq(Nodes) : p # << >> /\ LedBack(p, n)
  BY <1>7
<1>9. p \in Walks
  BY <1>8, LedBackFacts, InjectiveIsWalk
<1> QED BY <1>8, <1>9

-----------------------------------------------------------------------------
(* The search                                                               *)

\* The first goal that is taken is reached as cheaply as any goal can be.
LEMMA GoalTaken ==
  ASSUME InputOK, SearchOK, NEW i, NEW cur, NEW cost, CheapestIs(i, cur, cost), cur \in goals
  PROVE  /\ PathTo(cur) \in Paths /\ cost = Cost(PathTo(cur))
         /\ \A p \in Paths : cost <= Cost(p)
<1>0. DistOK /\ HeapOK /\ i \in DOMAIN heap /\ cur \in Nodes
  BY DEF SearchOK, CheapestIs, InputOK
<1>1. cost \in Nat /\ cur \in DOMAIN dist /\ dist[cur] \in Nat /\ dist[cur] <= cost
  BY <1>0, HeapTypes DEF CheapestIs
<1>2. cost = dist[cur]
  <2>1. ~Settled(cur)
    BY <1>0 DEF SearchOK, SettledOK
  <2>2. PICK j \in DOMAIN heap : heap[j].cost = dist[cur]
    BY <1>1, <2>1 DEF Settled
  <2>3. cost <= dist[cur]
    BY <2>2 DEF CheapestIs
  <2> QED BY <1>1, <2>3
<1> DEFINE p == PathTo(cur)
<1>3. p \in Walks /\ LedBack(p, cur)
  BY <1>1, ChainExists DEF PathTo
<1> HIDE DEF p
<1>4. p \in Seq(Nodes) /\ p # << >>
  <2>1. p \in Seq(Nodes) /\ Len(p) \in Nat \ {0}
    BY <1>3, WalkFacts
  <2> QED BY <2>1
<1>5. /\ p[1] = From /\ IsInjective(p) /\ Cost(p) = dist[cur]
      /\ \A j \in 2 .. Len(p) : p[j] \notin excluded /\ {p[j - 1], p[j]} \in DOMAIN latency
  BY <1>1, <1>3, <1>4, LedBackFacts
<1>6. Last(p) \in goals
  BY <1>3 DEF LedBack
<1>7. p \in Paths
  BY <1>3, <1>5, <1>6 DEF Paths
<1>8. ASSUME NEW q \in Paths PROVE cost <= Cost(q)
  <2>1. Cost(q) \in Nat /\ \E j \in DOMAIN heap : heap[j].cost <= Cost(q)
    BY LowerBound
  <2>2. PICK j \in DOMAIN heap : heap[j].cost <= Cost(q)
    BY <2>1
  <2>3. cost <= heap[j].cost /\ heap[j].cost \in Nat
    BY <1>0, HeapTypes DEF CheapestIs
  <2> QED BY <1>1, <2>1, <2>2, <2>3
<1> QED BY <1>2, <1>5, <1>7, <1>8 DEF p

LEMMA InitSearch == SearchInit => SearchInv
<1> SUFFICES ASSUME SearchInit PROVE SearchInv
  OBVIOUS
<1>1. InputOK
  <2>1. PICK edges \in SUBSET Pairs : latency \in [edges -> Latencies]
    BY DEF SearchInit
  <2>2. goals \in GoalSets /\ excluded \in ExcludedSets
    BY DEF SearchInit
  <2> QED BY <2>1, <2>2, SearchAssumption DEF InputOK
<1>2. /\ dist = [n \in {From} |-> 0] /\ prev = [n \in {} |-> From]
      /\ heap = <<[cost |-> 0, node |-> From]>> /\ result = Searching
  BY DEF SearchInit
<1>3. From \in Nodes
  BY SearchAssumption
<1>4. DistOK
  BY <1>2, <1>3 DEF DistOK
<1>5. DOMAIN heap = {1} /\ heap[1] = [cost |-> 0, node |-> From] /\ heap \in Seq(Entries)
  <2>1. [cost |-> 0, node |-> From] \in Entries
    BY <1>3 DEF Entries
  <2> HIDE DEF Entries
  <2> QED BY <1>2, <2>1
<1>6. heap[1].cost = 0 /\ heap[1].node = From
  BY <1>5
<1>7. HeapOK
  BY <1>2, <1>5, <1>6 DEF HeapOK, IsInjective
<1>8. \A n : ~Settled(n)
  BY <1>2, <1>5, <1>6 DEF Settled
<1>9. SearchOK
  BY <1>2, <1>4, <1>7, <1>8 DEF SearchOK
<1>10. Optimal
  BY <1>2 DEF Optimal, Searching, NotFound
<1> QED BY <1>1, <1>9, <1>10 DEF SearchInv

LEMMA NextSearch == SearchInv /\ [SearchNext]_searchVars => SearchInv'
<1> SUFFICES ASSUME SearchInv, [SearchNext]_searchVars PROVE SearchInv'
  OBVIOUS
<1>0. InputOK /\ (result = Searching => SearchOK) /\ Optimal
  BY DEF SearchInv
<1>1. CASE Step
  <2> DEFINE i    == Cheapest(heap)
             cost == heap[i].cost
             cur  == heap[i].node
             rest == RemoveAt(heap, i)
  <2>0. SearchOK /\ HeapOK /\ UNCHANGED given /\ heap # << >>
    BY <1>0, <1>1 DEF Step, SearchOK
  <2>1. CheapestIs(i, cur, cost)
    <3>1. heap \in Seq(Entries)
      BY <2>0 DEF HeapOK
    <3> QED BY <2>0, <3>1, CheapestFacts DEF CheapestIs
  <2>2. IF cur \in goals
        THEN /\ result' = [path |-> PathTo(cur), cost |-> cost]
             /\ heap' = rest /\ UNCHANGED <<dist, prev>>
        ELSE Expand(cur, cost, rest) /\ UNCHANGED result
    BY <1>1 DEF Step
  <2>3. result = Searching
    BY <1>1 DEF Step
  <2>4. DistOK /\ cost \in Nat
    <3>1. DistOK
      BY <2>0 DEF SearchOK
    <3> QED BY <2>0, <2>1, <3>1, HeapTypes DEF CheapestIs
  <2> HIDE DEF i, cost, cur
  <2>5. InputOK'
    BY <1>0, <2>0, SameGraph
  <2>6. CASE cur \in goals
    <3>1. result'.path = PathTo(cur) /\ result'.cost = cost
      BY <2>2, <2>6
    <3>2. /\ PathTo(cur) \in Paths /\ cost = Cost(PathTo(cur))
          /\ \A p \in Paths : cost <= Cost(p)
      BY <1>0, <2>0, <2>1, <2>6, GoalTaken
    <3>3. Paths' = Paths /\ \A p : Cost(p)' = Cost(p)
      BY <2>0, SamePaths
    <3>4. result' # NotFound /\ result' # Searching
      BY <2>4, <3>1 DEF NotFound, Searching
    <3>5. Optimal'
      BY <3>1, <3>2, <3>3, <3>4 DEF Optimal
    <3> QED BY <2>5, <3>4, <3>5 DEF SearchInv
  <2>7. CASE cur \notin goals
    <3>1. Expand(cur, cost, rest) /\ result' = result
      BY <2>2, <2>7
    <3>2. SearchOK'
      <4>1. CASE cost > dist[cur]
        BY <2>0, <2>1, <3>1, <4>1, StaleKeeps DEF Expand
      <4>2. CASE ~(cost > dist[cur])
        <5> DEFINE new == Improved(cur, cost)
        <5>1. /\ dist' = [n \in DOMAIN dist \cup new |-> IF n \in new THEN cost + Weight(cur, n) ELSE dist[n]]
              /\ prev' = [n \in DOMAIN prev \cup new |-> IF n \in new THEN cur ELSE prev[n]]
              /\ \E order \in SetToSeqs(new) :
                   heap' = rest \o [j \in DOMAIN order |->
                                      [cost |-> cost + Weight(cur, order[j]), node |-> order[j]]]
          BY <3>1, <4>2 DEF Expand
        <5> HIDE DEF new
        <5>2. PICK order \in SetToSeqs(new) :
                   heap' = rest \o [j \in DOMAIN order |->
                                      [cost |-> cost + Weight(cur, order[j]), node |-> order[j]]]
          BY <5>1
        <5>3. new = Improved(cur, cost)
          BY DEF new
        <5> QED BY <1>0, <2>0, <2>1, <2>7, <4>2, <5>1, <5>2, <5>3, FreshKeeps
      <4> QED BY <4>1, <4>2
    <3>3. Optimal'
      BY <2>3, <3>1 DEF Optimal, Searching, NotFound
    <3> QED BY <2>5, <3>2, <3>3 DEF SearchInv
  <2> QED BY <2>6, <2>7
<1>2. CASE GiveUp
  <2>1. SearchOK /\ heap = << >> /\ result' = NotFound /\ UNCHANGED given
    BY <1>0, <1>2 DEF GiveUp
  <2>2. Paths = {}
    BY <1>0, <2>1, LowerBound
  <2>3. InputOK' /\ Paths' = Paths
    BY <1>0, <2>1, SameGraph, SamePaths
  <2>4. Optimal' /\ result' # Searching
    BY <2>1, <2>2, <2>3 DEF Optimal, NotFound, Searching
  <2> QED BY <2>3, <2>4 DEF SearchInv
<1>3. CASE UNCHANGED searchVars
  <2>1. UNCHANGED <<given, dist, prev, heap, result>>
    BY <1>3 DEF searchVars
  <2>2. /\ Paths' = Paths /\ (\A p : Cost(p)' = Cost(p)) /\ InputOK'
        /\ (\A a, b : Weight(a, b)' = Weight(a, b)) /\ (\A a : Adjacent(a)' = Adjacent(a))
    BY <1>0, <2>1, SameGraph, SamePaths
  <2>3. Optimal'
    BY <1>0, <2>1, <2>2 DEF Optimal
  <2>4. SearchOK => SearchOK'
    <3>1. /\ \A n : Settled(n)' <=> Settled(n)
          /\ goals' = goals /\ excluded' = excluded
      BY <2>1 DEF Settled, given
    <3>2. \A n : SettledOK(n) => SettledOK(n)'
      BY <2>1, <2>2, <3>1 DEF SettledOK
    <3>3. \A n : PrevOK(n) => PrevOK(n)'
      BY <2>1, <2>2, <3>1 DEF PrevOK
    <3>4. (DistOK => DistOK') /\ (HeapOK => HeapOK')
      BY <2>1 DEF DistOK, HeapOK
    <3> QED BY <2>1, <3>1, <3>2, <3>3, <3>4 DEF SearchOK
  <2> QED BY <1>0, <2>1, <2>2, <2>3, <2>4 DEF SearchInv
<1> QED BY <1>1, <1>2, <1>3 DEF SearchNext, Done

\* The search of graph.js returns a path to a goal that none is cheaper than, with its cost,
\* and gives up only if there is none: in every graph, with any latencies, from any node, in
\* whatever order the neighbours of a node are looked at.
THEOREM SearchOptimal == SearchSpec => []Optimal
<1>1. SearchInv => Optimal
  BY DEF SearchInv
<1> QED BY <1>1, InitSearch, NextSearch, PTL DEF SearchSpec

-----------------------------------------------------------------------------
(* The crypto pipeline                                                      *)

ChainOf(m) == <<m.peer, m.conn>>

\* The session is that of the connection, and the chain in the map is the connection's own: a
\* message is on the chain of the connection it came over.
LinkInv ==
  \A p \in Peers : session[p] = link[p] /\ link[p] \in {0, made[p]} /\ current[p] \in {0, link[p]}

\* The messages of a chain are its connection's, in their order; none is on two chains.
QueueInv ==
  \A c \in Chains : \A i \in DOMAIN queue[c] :
    /\ ChainOf(queue[c][i]) = c /\ queue[c][i].n <= arrived /\ c[2] <= made[c[1]]
    /\ \A k \in DOMAIN queue[c] : i < k => queue[c][i].n < queue[c][k].n
    /\ \A d \in Chains : \A k \in DOMAIN queue[d] : queue[d][k].n = queue[c][i].n => d = c

\* What was delivered came before what is still on the chain.
DoneInv ==
  \A i \in DOMAIN done :
    /\ done[i].n <= arrived
    /\ \A c \in Chains : \A k \in DOMAIN queue[c] : ChainOf(done[i]) = c => done[i].n < queue[c][k].n

\* Answers that go out at once find no older ones on the chain.
DirectInv ==
  pool.dir = "tx" /\ ~alive =>
    \/ \A p \in Peers : link[p] = 0 /\ made[p] = MaxConnections
    \/ \A c \in Chains : queue[c] = << >>

\* A callback is that of the first message of a chain that waits for it.
PendInv ==
  /\ IsFiniteSet(pending)
  /\ \A c \in waiting : queue[c] # << >>
  /\ \A j \in pending : /\ j.chain \in waiting /\ j.msg = queue[j.chain][1]
                        /\ j.id = j.msg.n /\ j.msg.kind = "data"

\* The number of a job with a worker is that of no message that may still be submitted; what a
\* worker has, or says, of a job with a callback is about that very job.
Spent ==
  {id \in 0 .. arrived :
     \A c \in Chains : \A k \in DOMAIN queue[c] : queue[c][k].n = id => c \in waiting /\ k = 1}
FlightInv ==
  /\ \A w \in Workers : \A i \in DOMAIN input[w] :
       /\ input[w][i].id \in Spent
       /\ \A j \in pending : j.id = input[w][i].id => j = input[w][i]
  /\ \A w \in Workers : \A i \in DOMAIN output[w] :
       /\ output[w][i].id \in Spent
       /\ \A j \in pending : j.id = output[w][i].id => output[w][i].ok = Opens(j.msg, j.key)

\* After the one late packet of a connection, none is left that could be opened.
LateData == {m \in late : m.kind = "data"}
LateInv ==
  pool.dir = "rx" =>
    \A m \in LateData :
      /\ link[m.peer] # m.conn /\ m.conn <= made[m.peer]
      /\ \A j \in pending : j.chain = ChainOf(m) => j.key # m.conn
      /\ \A l \in LateData : ChainOf(l) = ChainOf(m) => l = m

PipeInv ==
  /\ TypeOK /\ LinkInv /\ QueueInv /\ DoneInv /\ InOrder
  /\ DirectInv /\ PendInv /\ FlightInv /\ LateInv

-----------------------------------------------------------------------------
USE PoolAssumption, BoundsAssumption

\* A chain is a peer and the number of a connection to it.
LEMMA ChainFacts ==
  /\ \A c \in Chains : c[1] \in Peers /\ c[2] \in 1 .. MaxConnections /\ c = <<c[1], c[2]>>
  /\ \A p \in Peers, k \in 1 .. MaxConnections : <<p, k>> \in Chains
BY DEF Chains

\* The parts of a message, a job and a result.
LEMMA Records ==
  /\ \A m \in Messages : /\ m.n \in 1 .. MaxMessages /\ m.n \in Nat /\ m.peer \in Peers
                         /\ m.conn \in 1 .. MaxConnections /\ m.conn \in Nat /\ m.kind \in Kinds
                         /\ ChainOf(m) \in Chains
  /\ \A j \in Jobs : j.id \in 1 .. MaxMessages /\ j.id \in Nat /\ j.chain \in Chains /\ j.msg \in Messages
                     /\ j.key \in 1 .. MaxConnections
  /\ \A r \in Results : r.id \in 1 .. MaxMessages /\ r.id \in Nat /\ r.ok \in BOOLEAN
BY DEF Messages, Jobs, Results, ChainOf, Chains

\* Opens says yes or no.
LEMMA OpensType == \A m, k : Opens(m, k) \in BOOLEAN
BY DEF Opens

\* The first element, and the others.
LEMMA Popped ==
  ASSUME NEW S, NEW q \in Seq(S), q # << >>
  PROVE  /\ Tail(q) \in Seq(S) /\ Head(q) = q[1] /\ Head(q) \in S /\ 1 \in DOMAIN q
         /\ \A i \in DOMAIN Tail(q) : i \in Nat \ {0} /\ i + 1 \in DOMAIN q /\ Tail(q)[i] = q[i + 1]
OBVIOUS

\* One element more.
LEMMA Longer ==
  ASSUME NEW S, NEW q \in Seq(S), NEW x \in S
  PROVE  /\ Append(q, x) \in Seq(S) /\ Append(q, x) # << >>
         /\ \A i \in DOMAIN q : i \in Nat /\ Append(q, x)[i] = q[i] /\ i < Len(q) + 1
         /\ \A i \in DOMAIN Append(q, x) : (i \in DOMAIN q \/ i = Len(q) + 1) /\ i \in Nat
         /\ Append(q, x)[Len(q) + 1] = x /\ Len(q) + 1 \in Nat /\ Len(q) + 1 \in DOMAIN Append(q, x)
         /\ Len(q) + 1 \notin DOMAIN q
OBVIOUS

\* Elements of a sequence.
LEMMA Element == ASSUME NEW S, NEW q \in Seq(S), NEW i \in DOMAIN q PROVE q[i] \in S /\ i \in Nat \ {0}
OBVIOUS

\* What Settle does: nothing, or the message is delivered, late or not.
LEMMA SettleIs ==
  ASSUME NEW m, NEW ok \in BOOLEAN, Settle(m, ok)
  PROVE  /\ done' = done \/ (done' = Append(done, m) /\ ok)
         /\ late' = late \/ (late' = late \cup {m} /\ link[m.peer] # m.conn /\ ok)
BY DEF Settle

\* The chains only lose first messages.
Shrinks ==
  \A c \in Chains : queue'[c] = queue[c] \/ (queue[c] # << >> /\ queue'[c] = Tail(queue[c]))

\* By how much the messages of a chain have moved up.
Up(c) == IF queue'[c] = queue[c] THEN 0 ELSE 1

\* Where the messages of a chain were before.
LEMMA Shifted ==
  ASSUME queue \in [Chains -> Seq(Messages)], Shrinks, NEW c \in Chains
  PROVE  /\ Up(c) \in {0, 1} /\ (Up(c) = 0 => queue'[c] = queue[c])
         /\ \A i \in DOMAIN queue'[c] : /\ i \in Nat \ {0} /\ i + Up(c) \in DOMAIN queue[c]
                                        /\ queue'[c][i] = queue[c][i + Up(c)]
<1>1. queue[c] \in Seq(Messages)
  OBVIOUS
<1>2. CASE queue'[c] = queue[c]
  BY <1>1, <1>2, Element DEF Up
<1>3. CASE queue'[c] # queue[c]
  <2>1. queue[c] # << >> /\ queue'[c] = Tail(queue[c])
    BY <1>3 DEF Shrinks
  <2>2. \A i \in DOMAIN queue'[c] : i \in Nat \ {0} /\ i + 1 \in DOMAIN queue[c] /\ queue'[c][i] = queue[c][i + 1]
    BY <1>1, <2>1, Popped
  <2> QED BY <1>3, <2>2 DEF Up
<1> QED BY <1>2, <1>3

\* One chain advances.
LEMMA AdvanceShrinks ==
  ASSUME queue \in [Chains -> Seq(Messages)], NEW c \in Chains, queue[c] # << >>, Advance(c)
  PROVE  /\ Shrinks /\ queue'[c] = Tail(queue[c]) /\ \A d \in Chains : d # c => queue'[d] = queue[d]
         /\ queue' \in [Chains -> Seq(Messages)]
<1>1. queue[c] \in Seq(Messages)
  OBVIOUS
<1>2. Tail(queue[c]) \in Seq(Messages)
  BY <1>1, Popped
<1>3. queue' = [queue EXCEPT ![c] = Tail(queue[c])]
  BY DEF Advance
<1> QED BY <1>2, <1>3 DEF Shrinks

\* All waiting chains advance.
LEMMA FlushShrinks ==
  ASSUME queue \in [Chains -> Seq(Messages)], waiting \subseteq Chains,
         \A c \in waiting : queue[c] # << >>, FlushPending
  PROVE  /\ Shrinks /\ queue' \in [Chains -> Seq(Messages)]
         /\ \A c \in Chains : c \notin waiting => queue'[c] = queue[c]
         /\ \A c \in waiting : queue'[c] = Tail(queue[c])
<1>1. queue' = [c \in Chains |-> IF c \in waiting THEN Tail(queue[c]) ELSE queue[c]]
  BY DEF FlushPending
<1>2. \A c \in waiting : Tail(queue[c]) \in Seq(Messages)
  BY Popped
<1> QED BY <1>1, <1>2 DEF Shrinks

\* A result finds the callback of its job, and the chain that waits for it, or nothing.
LEMMA ResultIs ==
  ASSUME TypeOK, PendInv, NEW w \in Workers, Result(w)
  PROVE  LET r == Head(output[w]) IN
         \/ UNCHANGED <<pending, queue, waiting, done, late>>
         \/ \E j \in pending :
              /\ j.id = r.id /\ pending' = {i \in pending : i.id # r.id}
              /\ Settle(j.msg, r.ok)
              /\ queue[j.chain] # << >> /\ j.msg = Head(queue[j.chain])
              /\ Advance(j.chain) /\ j.chain \in waiting /\ waiting' = waiting \ {j.chain}
<1> DEFINE r == Head(output[w])
<1> DEFINE owner == {j \in pending : j.id = r.id}
<1>1. /\ pending' = pending \ owner
      /\ IF owner = {} THEN UNCHANGED <<queue, waiting, done, late>>
         ELSE \E j \in owner : Settle(j.msg, r.ok) /\ Resolve(j.chain, j.msg)
  BY DEF Result
<1>2. CASE owner = {}
  BY <1>1, <1>2
<1>3. CASE owner # {}
  <2>1. PICK j \in owner : Settle(j.msg, r.ok) /\ Resolve(j.chain, j.msg)
    BY <1>1, <1>3
  <2>2. j \in pending /\ j.id = r.id /\ pending' = {i \in pending : i.id # r.id}
    BY <1>1
  <2>3. j.chain \in waiting /\ j.msg = queue[j.chain][1] /\ queue[j.chain] # << >> /\ j.chain \in Chains
    BY <2>2 DEF PendInv, TypeOK
  <2>4. j.msg = Head(queue[j.chain])
    <3>1. queue[j.chain] \in Seq(Messages)
      BY <2>3 DEF TypeOK
    <3> QED BY <2>3, <3>1, Popped
  <2>5. Advance(j.chain) /\ waiting' = waiting \ {j.chain}
    BY <2>1, <2>3, <2>4 DEF Resolve
  <2> QED BY <2>1, <2>2, <2>3, <2>4, <2>5
<1> QED BY <1>2, <1>3

-----------------------------------------------------------------------------
(* Types. *)

\* TypeOK, cut into the pieces that one kind of step disturbs.
FixedType  == pool \in [dir : {"rx", "tx"}, limit : Limits] /\ alive \in BOOLEAN
NodeType   ==
  /\ link \in [Peers -> 0 .. MaxConnections] /\ made \in [Peers -> 0 .. MaxConnections]
  /\ session \in [Peers -> 0 .. MaxConnections] /\ current \in [Peers -> 0 .. MaxConnections]
ChainType  == queue \in [Chains -> Seq(Messages)] /\ waiting \subseteq Chains /\ arrived \in 0 .. MaxMessages
JobType    == pending \subseteq Jobs /\ Cardinality(pending) <= pool.limit
WorkerType ==
  /\ input \in [Workers -> Seq(Jobs)] /\ output \in [Workers -> Seq(Results)]
  /\ dead \subseteq Workers /\ rr \in Workers
DoneType   == done \in Seq(Messages) /\ late \subseteq Messages

\* The pieces together, before and after a step.
LEMMA TypePieces ==
  /\ TypeOK <=> FixedType /\ NodeType /\ ChainType /\ JobType /\ WorkerType /\ DoneType
  /\ FixedType' /\ NodeType' /\ ChainType' /\ JobType' /\ WorkerType' /\ DoneType' => TypeOK'
BY DEF TypeOK, FixedType, NodeType, ChainType, JobType, WorkerType, DoneType

\* The pieces that a step leaves alone.
LEMMA TypesKept ==
  /\ FixedType /\ UNCHANGED <<pool, alive>> => FixedType'
  /\ NodeType /\ UNCHANGED nodeVars => NodeType'
  /\ ChainType /\ UNCHANGED <<queue, waiting, arrived>> => ChainType'
  /\ JobType /\ UNCHANGED <<pool, pending>> => JobType'
  /\ WorkerType /\ UNCHANGED <<workerVars, rr>> => WorkerType'
  /\ DoneType /\ UNCHANGED <<done, late>> => DoneType'
<1>1. FixedType /\ UNCHANGED <<pool, alive>> => FixedType'
  BY DEF FixedType
<1>2. NodeType /\ UNCHANGED nodeVars => NodeType'
  BY DEF NodeType, nodeVars
<1>3. ChainType /\ UNCHANGED <<queue, waiting, arrived>> => ChainType'
  BY DEF ChainType
<1>4. JobType /\ UNCHANGED <<pool, pending>> => JobType'
  BY DEF JobType
<1>5. WorkerType /\ UNCHANGED <<workerVars, rr>> => WorkerType'
  BY DEF WorkerType, workerVars
<1>6. DoneType /\ UNCHANGED <<done, late>> => DoneType'
  BY DEF DoneType
<1> QED BY <1>1, <1>2, <1>3, <1>4, <1>5, <1>6

\* A smaller set of callbacks.
LEMMA FewerJobs ==
  ASSUME FixedType, JobType, IsFiniteSet(pending), pending' \subseteq pending, pool' = pool
  PROVE  JobType' /\ IsFiniteSet(pending')
<1>1. Cardinality(pending') <= Cardinality(pending) /\ IsFiniteSet(pending')
  BY FS_Subset
<1>2. Cardinality(pending') \in Nat /\ Cardinality(pending) \in Nat
  BY <1>1, FS_CardinalityType
<1>3. pool.limit \in Nat
  BY DEF FixedType
<1>4. Cardinality(pending) <= pool.limit /\ pending \subseteq Jobs
  BY DEF JobType
<1>5. Cardinality(pending') <= pool.limit
  BY <1>1, <1>2, <1>3, <1>4
<1> QED BY <1>1, <1>4, <1>5 DEF JobType

\* Types of what is settled.
LEMMA SettleType ==
  ASSUME DoneType, NEW m \in Messages, NEW ok \in BOOLEAN, Settle(m, ok)
  PROVE  DoneType'
<1>1. done \in Seq(Messages) /\ late \subseteq Messages
  BY DEF DoneType
<1>2. Append(done, m) \in Seq(Messages)
  BY <1>1
<1>3. /\ done' = done \/ done' = Append(done, m)
      /\ late' = late \/ late' = late \cup {m}
  BY SettleIs
<1> QED BY <1>1, <1>2, <1>3 DEF DoneType

\* Types are kept by every step.
LEMMA TypeStep == TypeOK /\ PendInv /\ [Next]_vars => TypeOK'
<1> SUFFICES ASSUME TypeOK, PendInv, [Next]_vars PROVE TypeOK'
  OBVIOUS
<1>0. FixedType /\ NodeType /\ ChainType /\ JobType /\ WorkerType /\ DoneType
  BY TypePieces
<1>1. /\ queue \in [Chains -> Seq(Messages)] /\ waiting \subseteq Chains /\ arrived \in 0 .. MaxMessages
      /\ IsFiniteSet(pending) /\ \A c \in waiting : queue[c] # << >>
  BY <1>0 DEF ChainType, PendInv
<1>2. ASSUME NEW p \in Peers, Connect(p) PROVE TypeOK'
  <2>1. UNCHANGED <<pool, alive, queue, waiting, arrived, pending, workerVars, rr, done, late>>
    BY <1>2 DEF Connect
  <2>2. FixedType' /\ ChainType' /\ JobType' /\ WorkerType' /\ DoneType'
    BY <1>0, <2>1, TypesKept
  <2>3. made[p] + 1 \in 0 .. MaxConnections
    BY <1>0, <1>2 DEF Connect, NodeType
  <2>4. made' = [made EXCEPT ![p] = made[p] + 1] /\ made'[p] = made[p] + 1
    BY <1>0, <1>2 DEF Connect, NodeType
  <2>5. NodeType'
    BY <1>0, <1>2, <2>3, <2>4 DEF Connect, NodeType
  <2> QED BY <2>2, <2>5, TypePieces
<1>3. ASSUME NEW p \in Peers, Disconnect(p) PROVE TypeOK'
  <2>1. UNCHANGED <<pool, alive, queue, waiting, arrived, pending, workerVars, rr, done, late>>
    BY <1>3 DEF Disconnect
  <2>2. FixedType' /\ ChainType' /\ JobType' /\ WorkerType' /\ DoneType'
    BY <1>0, <2>1, TypesKept
  <2>3. NodeType'
    BY <1>0, <1>3 DEF Disconnect, NodeType
  <2> QED BY <2>2, <2>3, TypePieces
<1>4. ASSUME NEW p \in Peers, NEW k \in Kinds, Arrive(p, k) PROVE TypeOK'
  <2> DEFINE m == [n |-> arrived + 1, peer |-> p, conn |-> link[p], kind |-> k]
  <2> DEFINE l == IF current[p] = 0 THEN link[p] ELSE current[p]
  <2>1. /\ link[p] # 0 /\ arrived < MaxMessages /\ arrived' = arrived + 1
        /\ UNCHANGED <<pool, alive, link, made, session, waiting, pending, workerVars, rr>>
    BY <1>4 DEF Arrive
  <2>2. IF pool.dir = "tx" /\ ~alive
          THEN Settle(m, TRUE) /\ UNCHANGED <<current, queue>>
          ELSE /\ current' = [current EXCEPT ![p] = l]
               /\ queue' = [queue EXCEPT ![<<p, l>>] = Append(queue[<<p, l>>], m)]
               /\ UNCHANGED <<done, late>>
    BY <1>4, <2>1 DEF Arrive
  <2>3. /\ link[p] \in 1 .. MaxConnections /\ l \in 1 .. MaxConnections
        /\ link \in [Peers -> 0 .. MaxConnections] /\ made \in [Peers -> 0 .. MaxConnections]
        /\ session \in [Peers -> 0 .. MaxConnections] /\ current \in [Peers -> 0 .. MaxConnections]
    BY <1>0, <2>1 DEF NodeType
  <2>4. m \in Messages /\ arrived' \in 0 .. MaxMessages
    BY <1>1, <2>1, <2>3 DEF Messages
  <2>5. <<p, l>> \in Chains
    BY <2>3, ChainFacts
  <2> HIDE DEF m, l
  <2>6. FixedType' /\ JobType' /\ WorkerType'
    BY <1>0, <2>1, TypesKept
  <2>7. CASE pool.dir = "tx" /\ ~alive
    <3>1. Settle(m, TRUE) /\ UNCHANGED <<current, queue>>
      BY <2>2, <2>7
    <3>2. DoneType'
      BY <1>0, <2>4, <3>1, SettleType
    <3>3. NodeType'
      BY <1>0, <2>1, <3>1, TypesKept DEF nodeVars
    <3>4. ChainType'
      BY <1>1, <2>1, <2>4, <3>1 DEF ChainType
    <3> QED BY <2>6, <3>2, <3>3, <3>4, TypePieces
  <2>8. CASE ~(pool.dir = "tx" /\ ~alive)
    <3>1. /\ current' = [current EXCEPT ![p] = l]
          /\ queue' = [queue EXCEPT ![<<p, l>>] = Append(queue[<<p, l>>], m)]
          /\ UNCHANGED <<done, late>>
      BY <2>2, <2>8
    <3>2. DoneType'
      BY <1>0, <3>1, TypesKept
    <3>3. NodeType'
      BY <2>1, <2>3, <3>1 DEF NodeType
    <3>4. Append(queue[<<p, l>>], m) \in Seq(Messages)
      BY <1>1, <2>4, <2>5
    <3>5. ChainType'
      BY <1>1, <2>1, <2>4, <2>5, <3>1, <3>4 DEF ChainType
    <3> QED BY <2>6, <3>2, <3>3, <3>5, TypePieces
  <2> QED BY <2>7, <2>8
<1>5. ASSUME NEW c \in Chains, Keyless(c) \/ Synchronous(c) PROVE TypeOK'
  <2>1. /\ queue[c] # << >> /\ Advance(c)
        /\ UNCHANGED <<pool, alive, nodeVars, waiting, arrived, pending, workerVars, rr>>
    BY <1>5 DEF Keyless, Synchronous, Ready
  <2>2. FixedType' /\ NodeType' /\ JobType' /\ WorkerType'
    BY <1>0, <2>1, TypesKept
  <2>3. ChainType'
    BY <1>1, <2>1, AdvanceShrinks DEF ChainType
  <2>4. DoneType'
    <3>1. CASE Keyless(c)
      BY <1>0, <3>1, TypesKept DEF Keyless
    <3>2. CASE Synchronous(c)
      <4>1. Settle(Head(queue[c]), Opens(Head(queue[c]), session[c[1]]))
        BY <3>2 DEF Synchronous
      <4>2. Head(queue[c]) \in Messages
        BY <1>1, <2>1
      <4> QED BY <1>0, <4>1, <4>2, OpensType, SettleType
    <3> QED BY <1>5, <3>1, <3>2
  <2> QED BY <2>2, <2>3, <2>4, TypePieces
<1>6. ASSUME NEW c \in Chains, Submit(c) PROVE TypeOK'
  <2> DEFINE m == Head(queue[c])
  <2> DEFINE j == [id |-> m.n, chain |-> c, msg |-> m, key |-> session[c[1]]]
  <2>1. /\ queue[c] # << >> /\ session[c[1]] # 0 /\ Cardinality(pending) < pool.limit
        /\ pending' = pending \cup {j} /\ input' = [input EXCEPT ![rr] = Append(input[rr], j)]
        /\ rr' = (rr + 1) % NWorkers /\ waiting' = waiting \cup {c}
        /\ UNCHANGED <<pool, alive, nodeVars, queue, arrived, output, dead, done, late>>
    BY <1>6 DEF Submit, Ready
  <2>2. m \in Messages
    BY <1>1, <2>1
  <2> HIDE DEF m
  <2>3. session[c[1]] \in 1 .. MaxConnections
    BY <1>0, <2>1, ChainFacts DEF NodeType
  <2>4. j \in Jobs
    BY <2>2, <2>3, Records DEF Jobs
  <2> HIDE DEF j
  <2>5. FixedType' /\ NodeType' /\ DoneType'
    BY <1>0, <2>1, TypesKept
  <2>6. ChainType'
    BY <1>1, <2>1 DEF ChainType
  <2>7. JobType'
    <3>1. IsFiniteSet(pending') /\ Cardinality(pending') <= Cardinality(pending) + 1
      <4>1. IsFiniteSet(pending \cup {j}) /\ Cardinality(pending) \in Nat
        BY <1>1, FS_AddElement, FS_CardinalityType
      <4>2. Cardinality(pending \cup {j}) \in {Cardinality(pending), Cardinality(pending) + 1}
        BY <1>1, FS_AddElement
      <4> QED BY <2>1, <4>1, <4>2
    <3>2. Cardinality(pending') \in Nat /\ Cardinality(pending) \in Nat
      BY <1>1, <3>1, FS_CardinalityType
    <3>3. pool.limit \in Nat /\ pending \subseteq Jobs
      BY <1>0 DEF FixedType, JobType
    <3>4. Cardinality(pending') <= pool.limit
      BY <2>1, <3>1, <3>2, <3>3
    <3> QED BY <2>1, <2>4, <3>3, <3>4 DEF JobType
  <2>8. WorkerType'
    <3>1. /\ input \in [Workers -> Seq(Jobs)] /\ output \in [Workers -> Seq(Results)]
          /\ dead \subseteq Workers /\ rr \in Workers
      BY <1>0 DEF WorkerType
    <3>2. rr' \in Workers
      BY <2>1, <3>1 DEF Workers
    <3>3. Append(input[rr], j) \in Seq(Jobs)
      BY <2>4, <3>1
    <3> QED BY <2>1, <3>1, <3>2, <3>3 DEF WorkerType
  <2> QED BY <2>5, <2>6, <2>7, <2>8, TypePieces
<1>7. ASSUME NEW w \in Workers, Work(w) PROVE TypeOK'
  <2> DEFINE j == Head(input[w])
  <2> DEFINE r == [id |-> j.id, ok |-> Opens(j.msg, j.key)]
  <2>1. /\ input[w] # << >> /\ output' = [output EXCEPT ![w] = Append(output[w], r)]
        /\ input' = [input EXCEPT ![w] = Tail(input[w])]
        /\ UNCHANGED <<pool, alive, nodeVars, queue, waiting, arrived, pending, dead, rr, done, late>>
    BY <1>7 DEF Work
  <2>2. /\ input \in [Workers -> Seq(Jobs)] /\ output \in [Workers -> Seq(Results)]
        /\ dead \subseteq Workers /\ rr \in Workers
    BY <1>0 DEF WorkerType
  <2>3. j \in Jobs /\ Tail(input[w]) \in Seq(Jobs)
    BY <2>1, <2>2
  <2> HIDE DEF j
  <2>4. r \in Results
    BY <2>3, Records, OpensType DEF Results
  <2> HIDE DEF r
  <2>5. Append(output[w], r) \in Seq(Results)
    BY <2>2, <2>4
  <2>6. WorkerType'
    BY <2>1, <2>2, <2>3, <2>5 DEF WorkerType
  <2>7. FixedType' /\ NodeType' /\ ChainType' /\ JobType' /\ DoneType'
    BY <1>0, <2>1, TypesKept
  <2> QED BY <2>6, <2>7, TypePieces
<1>8. ASSUME NEW w \in Workers, Result(w) PROVE TypeOK'
  <2>1. /\ output[w] # << >> /\ output' = [output EXCEPT ![w] = Tail(output[w])]
        /\ UNCHANGED <<pool, alive, nodeVars, arrived, input, dead, rr>>
    BY <1>8 DEF Result
  <2>2. /\ input \in [Workers -> Seq(Jobs)] /\ output \in [Workers -> Seq(Results)]
        /\ dead \subseteq Workers /\ rr \in Workers
    BY <1>0 DEF WorkerType
  <2>3. Head(output[w]) \in Results /\ Tail(output[w]) \in Seq(Results)
    BY <2>1, <2>2
  <2>4. WorkerType'
    BY <2>1, <2>2, <2>3 DEF WorkerType
  <2>5. FixedType' /\ NodeType'
    BY <1>0, <2>1, TypesKept
  <2>6. CASE UNCHANGED <<pending, queue, waiting, done, late>>
    BY <1>0, <2>1, <2>4, <2>5, <2>6, TypesKept, TypePieces
  <2>7. ASSUME NEW j \in pending,
               pending' = {i \in pending : i.id # Head(output[w]).id},
               Settle(j.msg, Head(output[w]).ok), queue[j.chain] # << >>,
               Advance(j.chain), waiting' = waiting \ {j.chain}
        PROVE  TypeOK'
    <3>1. j.chain \in Chains /\ j.msg \in Messages /\ Head(output[w]).ok \in BOOLEAN
      BY <1>0, <2>3, Records DEF JobType
    <3>2. JobType'
      BY <1>0, <1>1, <2>1, <2>7, FewerJobs
    <3>3. DoneType'
      BY <1>0, <2>7, <3>1, SettleType
    <3>4. ChainType'
      BY <1>1, <2>1, <2>7, <3>1, AdvanceShrinks DEF ChainType
    <3> QED BY <2>4, <2>5, <3>2, <3>3, <3>4, TypePieces
  <2> QED BY <1>8, <2>6, <2>7, ResultIs
<1>9. ASSUME NEW w \in Workers, Crash(w) PROVE TypeOK'
  <2>1. /\ dead' = dead \cup {w}
        /\ UNCHANGED <<pool, alive, nodeVars, queue, waiting, arrived, pending, input, output, rr, done, late>>
    BY <1>9 DEF Crash
  <2>2. FixedType' /\ NodeType' /\ ChainType' /\ JobType' /\ DoneType'
    BY <1>0, <2>1, TypesKept
  <2>3. WorkerType'
    BY <1>0, <2>1 DEF WorkerType
  <2> QED BY <2>2, <2>3, TypePieces
<1>10. ASSUME NEW w \in Workers, Exit(w) PROVE TypeOK'
  <2>1. /\ dead' = dead \ {w} /\ input' = [input EXCEPT ![w] = << >>] /\ FlushPending
        /\ UNCHANGED <<pool, alive, nodeVars, arrived, output, rr, done, late>>
    BY <1>10 DEF Exit
  <2>2. FixedType' /\ NodeType' /\ DoneType'
    BY <1>0, <2>1, TypesKept
  <2>3. WorkerType'
    BY <1>0, <2>1 DEF WorkerType
  <2>4. pending' = {} /\ waiting' = {}
    BY <2>1 DEF FlushPending
  <2>5. ChainType'
    BY <1>1, <2>1, <2>4, FlushShrinks DEF ChainType
  <2>6. JobType'
    BY <1>0, <1>1, <2>1, <2>4, FewerJobs
  <2> QED BY <2>2, <2>3, <2>5, <2>6, TypePieces
<1>11. CASE Stop
  <2>1. /\ alive' = FALSE /\ link' = [p \in Peers |-> 0] /\ session' = link' /\ current' = link'
        /\ made' = [p \in Peers |-> MaxConnections] /\ FlushPending
        /\ input' = [w \in Workers |-> << >>] /\ output' = input' /\ dead' = {}
        /\ UNCHANGED <<pool, arrived, rr, done, late>>
    BY <1>11 DEF Stop
  <2>2. FixedType' /\ NodeType' /\ DoneType'
    <3>1. FixedType'
      BY <1>0, <2>1 DEF FixedType
    <3>2. NodeType'
      BY <2>1 DEF NodeType
    <3>3. DoneType'
      BY <1>0, <2>1, TypesKept
    <3> QED BY <3>1, <3>2, <3>3
  <2>3. WorkerType'
    <3>1. rr \in Workers
      BY <1>0 DEF WorkerType
    <3>2. << >> \in Seq(Jobs) /\ << >> \in Seq(Results)
      OBVIOUS
    <3> QED BY <2>1, <3>1, <3>2 DEF WorkerType
  <2>4. pending' = {} /\ waiting' = {}
    BY <2>1 DEF FlushPending
  <2>5. ChainType'
    BY <1>1, <2>1, <2>4, FlushShrinks DEF ChainType
  <2>6. JobType'
    BY <1>0, <1>1, <2>1, <2>4, FewerJobs
  <2> QED BY <2>2, <2>3, <2>5, <2>6, TypePieces
<1>12. CASE UNCHANGED vars
  BY <1>0, <1>12, TypesKept, TypePieces DEF vars
<1> QED BY <1>2, <1>3, <1>4, <1>5, <1>6, <1>7, <1>8, <1>9, <1>10, <1>11, <1>12 DEF Next, ChainStep

-----------------------------------------------------------------------------
(* The order of a connection's messages. *)

\* Links, sessions and the chains in the map go together.
LEMMA LinkStep == TypeOK /\ LinkInv /\ [Next]_vars => LinkInv'
<1> SUFFICES ASSUME TypeOK, LinkInv, [Next]_vars PROVE LinkInv'
  OBVIOUS
<1>0. /\ link \in [Peers -> 0 .. MaxConnections] /\ made \in [Peers -> 0 .. MaxConnections]
      /\ session \in [Peers -> 0 .. MaxConnections] /\ current \in [Peers -> 0 .. MaxConnections]
  BY DEF TypeOK
<1>1. ASSUME NEW p \in Peers, Connect(p) PROVE LinkInv'
  <2>1. /\ link[p] = 0 /\ made' = [made EXCEPT ![p] = made[p] + 1]
        /\ link' = [link EXCEPT ![p] = made'[p]] /\ session' = [session EXCEPT ![p] = made'[p]]
        /\ current' = current
    BY <1>1 DEF Connect
  <2> QED BY <1>0, <2>1 DEF LinkInv
<1>2. ASSUME NEW p \in Peers, Disconnect(p) PROVE LinkInv'
  <2>1. /\ link' = [link EXCEPT ![p] = 0] /\ session' = [session EXCEPT ![p] = 0]
        /\ current' = [current EXCEPT ![p] = 0] /\ made' = made
    BY <1>2 DEF Disconnect
  <2> QED BY <1>0, <2>1 DEF LinkInv
<1>3. ASSUME NEW p \in Peers, NEW k \in Kinds, Arrive(p, k) PROVE LinkInv'
  <2>1. /\ link' = link /\ session' = session /\ made' = made
        /\ \/ current' = current
           \/ current' = [current EXCEPT ![p] = IF current[p] = 0 THEN link[p] ELSE current[p]]
    BY <1>3 DEF Arrive
  <2> QED BY <1>0, <2>1 DEF LinkInv
<1>4. CASE Stop
  <2>1. /\ link' = [p \in Peers |-> 0] /\ session' = link' /\ current' = link'
    BY <1>4 DEF Stop
  <2> QED BY <2>1 DEF LinkInv
<1>5. CASE UNCHANGED nodeVars
  BY <1>5 DEF LinkInv, nodeVars
<1>6. ASSUME NEW c \in Chains, Keyless(c) \/ Synchronous(c) \/ Submit(c) PROVE UNCHANGED nodeVars
  BY <1>6 DEF Keyless, Synchronous, Submit
<1>7. ASSUME NEW w \in Workers, Work(w) \/ Result(w) \/ Crash(w) \/ Exit(w) PROVE UNCHANGED nodeVars
  BY <1>7 DEF Work, Result, Crash, Exit
<1>8. UNCHANGED vars => UNCHANGED nodeVars
  BY DEF vars
<1> QED BY <1>1, <1>2, <1>3, <1>4, <1>5, <1>6, <1>7, <1>8 DEF Next, ChainStep

\* Connections are only added.
LEMMA MadeGrows ==
  ASSUME TypeOK, [Next]_vars
  PROVE  \A p \in Peers : made[p] <= made'[p] /\ made[p] \in Nat /\ made'[p] \in Nat
<1>0. made \in [Peers -> 0 .. MaxConnections]
  BY DEF TypeOK
<1>1. CASE UNCHANGED made
  BY <1>0, <1>1
<1>2. ASSUME NEW p \in Peers, Connect(p)
      PROVE  \A q \in Peers : made[q] <= made'[q] /\ made[q] \in Nat /\ made'[q] \in Nat
  <2>1. made' = [made EXCEPT ![p] = made[p] + 1]
    BY <1>2 DEF Connect
  <2> QED BY <1>0, <2>1
<1>3. CASE Stop
  <2>1. made' = [p \in Peers |-> MaxConnections]
    BY <1>3 DEF Stop
  <2> QED BY <1>0, <2>1
<1>4. ASSUME NEW p \in Peers, NEW k \in Kinds, Disconnect(p) \/ Arrive(p, k) PROVE UNCHANGED made
  BY <1>4 DEF Disconnect, Arrive
<1>5. ASSUME NEW c \in Chains, Keyless(c) \/ Synchronous(c) \/ Submit(c) PROVE UNCHANGED made
  BY <1>5 DEF Keyless, Synchronous, Submit, nodeVars
<1>6. ASSUME NEW w \in Workers, Work(w) \/ Result(w) \/ Crash(w) \/ Exit(w) PROVE UNCHANGED made
  BY <1>6 DEF Work, Result, Crash, Exit, nodeVars
<1>7. UNCHANGED vars => UNCHANGED made
  BY DEF vars, nodeVars
<1>8. \E k \in Kinds : TRUE
  BY DEF Kinds
<1> QED BY <1>1, <1>2, <1>3, <1>4, <1>5, <1>6, <1>7, <1>8 DEF Next, ChainStep

\* What a step does to the chains and to what is delivered.
QueuesAlone  == UNCHANGED <<queue, arrived, done>>
OneAdvances  ==
  \E c \in Chains : /\ queue[c] # << >> /\ Advance(c) /\ arrived' = arrived
                    /\ done' = done \/ done' = Append(done, queue[c][1])
AllFlushed   == FlushPending /\ UNCHANGED <<arrived, done>>
JoinsChain   ==
  \E p \in Peers : \E m \in Messages :
    /\ link[p] # 0 /\ ~(pool.dir = "tx" /\ ~alive)
    /\ m.n = arrived + 1 /\ arrived' = arrived + 1 /\ ChainOf(m) = <<p, link[p]>>
    /\ queue' = [queue EXCEPT ![<<p, link[p]>>] = Append(queue[<<p, link[p]>>], m)] /\ done' = done
GoesAtOnce   ==
  \E p \in Peers : \E m \in Messages :
    /\ link[p] # 0 /\ pool.dir = "tx" /\ ~alive
    /\ m.n = arrived + 1 /\ arrived' = arrived + 1
    /\ queue' = queue /\ (done' = done \/ done' = Append(done, m))

\* Every step is one of these.
LEMMA ChainMoves ==
  ASSUME TypeOK, LinkInv, PendInv, [Next]_vars
  PROVE  QueuesAlone \/ OneAdvances \/ AllFlushed \/ JoinsChain \/ GoesAtOnce
<1>0. /\ link \in [Peers -> 0 .. MaxConnections] /\ current \in [Peers -> 0 .. MaxConnections]
      /\ queue \in [Chains -> Seq(Messages)] /\ arrived \in 0 .. MaxMessages
      /\ pending \subseteq Jobs
  BY DEF TypeOK
<1>1. ASSUME NEW p \in Peers, Connect(p) \/ Disconnect(p) PROVE QueuesAlone
  BY <1>1 DEF Connect, Disconnect, QueuesAlone
<1>2. ASSUME NEW c \in Chains, Submit(c) PROVE QueuesAlone
  BY <1>2 DEF Submit, QueuesAlone
<1>3. ASSUME NEW w \in Workers, Work(w) \/ Crash(w) PROVE QueuesAlone
  BY <1>3 DEF Work, Crash, QueuesAlone
<1>4. UNCHANGED vars => QueuesAlone
  BY DEF vars, QueuesAlone
<1>5. ASSUME NEW c \in Chains, Keyless(c) \/ Synchronous(c) PROVE OneAdvances
  <2>1. queue[c] # << >> /\ Advance(c) /\ arrived' = arrived
    BY <1>5 DEF Keyless, Synchronous, Ready
  <2>2. Head(queue[c]) = queue[c][1]
    BY <1>0, <2>1, Popped
  <2>3. done' = done \/ done' = Append(done, queue[c][1])
    <3>1. CASE Keyless(c)
      BY <3>1 DEF Keyless
    <3>2. CASE Synchronous(c)
      <4>1. Settle(Head(queue[c]), Opens(Head(queue[c]), session[c[1]]))
        BY <3>2 DEF Synchronous
      <4> QED BY <2>2, <4>1, OpensType, SettleIs
    <3> QED BY <1>5, <3>1, <3>2
  <2> QED BY <2>1, <2>3 DEF OneAdvances
<1>6. ASSUME NEW w \in Workers, Result(w) PROVE QueuesAlone \/ OneAdvances
  <2>1. arrived' = arrived /\ output[w] # << >>
    BY <1>6 DEF Result
  <2>2. CASE UNCHANGED <<pending, queue, waiting, done, late>>
    BY <2>1, <2>2 DEF QueuesAlone
  <2>3. ASSUME NEW j \in pending, Settle(j.msg, Head(output[w]).ok), queue[j.chain] # << >>,
               j.msg = Head(queue[j.chain]), Advance(j.chain)
        PROVE  OneAdvances
    <3>1. j.chain \in Chains
      BY <1>0, Records
    <3>2. j.msg = queue[j.chain][1]
      BY <1>0, <2>3, <3>1, Popped
    <3>3. Head(output[w]).ok \in BOOLEAN
      <4>1. output[w] \in Seq(Results)
        BY DEF TypeOK
      <4>2. Head(output[w]) \in Results
        BY <2>1, <4>1
      <4> QED BY <4>2, Records
    <3>4. done' = done \/ done' = Append(done, queue[j.chain][1])
      BY <2>3, <3>2, <3>3, SettleIs
    <3> QED BY <2>1, <2>3, <3>1, <3>4 DEF OneAdvances
  <2> QED BY <1>6, <2>2, <2>3, ResultIs
<1>7. ASSUME NEW w \in Workers, Exit(w) PROVE AllFlushed
  BY <1>7 DEF Exit, AllFlushed
<1>8. Stop => AllFlushed
  BY DEF Stop, AllFlushed
<1>9. ASSUME NEW p \in Peers, NEW k \in Kinds, Arrive(p, k) PROVE JoinsChain \/ GoesAtOnce
  <2> DEFINE m == [n |-> arrived + 1, peer |-> p, conn |-> link[p], kind |-> k]
  <2> DEFINE l == IF current[p] = 0 THEN link[p] ELSE current[p]
  <2>1. link[p] # 0 /\ arrived < MaxMessages /\ arrived' = arrived + 1
    BY <1>9 DEF Arrive
  <2>2. IF pool.dir = "tx" /\ ~alive
          THEN Settle(m, TRUE) /\ UNCHANGED <<current, queue>>
          ELSE /\ queue' = [queue EXCEPT ![<<p, l>>] = Append(queue[<<p, l>>], m)]
               /\ UNCHANGED <<done, late>>
    BY <1>9, <2>1 DEF Arrive
  <2>3. l = link[p]
    BY DEF LinkInv
  <2>4. link[p] \in 1 .. MaxConnections /\ arrived + 1 \in 1 .. MaxMessages
    BY <1>0, <2>1
  <2>5. m \in Messages /\ m.n = arrived + 1 /\ ChainOf(m) = <<p, link[p]>>
    BY <2>4 DEF Messages, ChainOf
  <2> HIDE DEF m, l
  <2>6. CASE pool.dir = "tx" /\ ~alive
    <3>1. Settle(m, TRUE) /\ queue' = queue
      BY <2>2, <2>6
    <3>2. done' = done \/ done' = Append(done, m)
      BY <3>1, SettleIs
    <3> QED BY <2>1, <2>5, <2>6, <3>1, <3>2 DEF GoesAtOnce
  <2>7. CASE ~(pool.dir = "tx" /\ ~alive)
    <3>1. queue' = [queue EXCEPT ![<<p, link[p]>>] = Append(queue[<<p, link[p]>>], m)] /\ done' = done
      BY <2>2, <2>3, <2>7
    <3> QED BY <2>1, <2>5, <2>7, <3>1 DEF JoinsChain
  <2> QED BY <2>6, <2>7
<1> QED BY <1>1, <1>2, <1>3, <1>4, <1>5, <1>6, <1>7, <1>8, <1>9 DEF Next, ChainStep

\* Three of these only take messages off the chains.
LEMMA MovesShrink ==
  ASSUME TypeOK, PendInv, QueuesAlone \/ OneAdvances \/ AllFlushed
  PROVE  Shrinks /\ arrived' = arrived
<1>0. /\ queue \in [Chains -> Seq(Messages)] /\ waiting \subseteq Chains
      /\ \A c \in waiting : queue[c] # << >>
  BY DEF TypeOK, PendInv
<1>1. CASE QueuesAlone
  BY <1>1 DEF QueuesAlone, Shrinks
<1>2. CASE OneAdvances
  BY <1>0, <1>2, AdvanceShrinks DEF OneAdvances
<1>3. CASE AllFlushed
  BY <1>0, <1>3, FlushShrinks DEF AllFlushed
<1> QED BY <1>1, <1>2, <1>3

\* A message that joins a chain, and those that were there.
LEMMA Joined ==
  ASSUME queue \in [Chains -> Seq(Messages)], NEW b \in Chains, NEW m \in Messages,
         queue' = [queue EXCEPT ![b] = Append(queue[b], m)]
  PROVE  /\ \A d \in Chains : d # b => queue'[d] = queue[d]
         /\ \A i \in DOMAIN queue[b] : i \in Nat /\ i \in DOMAIN queue'[b] /\ queue'[b][i] = queue[b][i] /\ i < Len(queue[b]) + 1
         /\ \A i \in DOMAIN queue'[b] : i \in DOMAIN queue[b] \/ (i = Len(queue[b]) + 1 /\ queue'[b][i] = m)
         /\ Len(queue[b]) + 1 \in Nat
<1>1. queue[b] \in Seq(Messages) /\ queue'[b] = Append(queue[b], m)
  OBVIOUS
<1>2. \A d \in Chains : d # b => queue'[d] = queue[d]
  OBVIOUS
<1> DEFINE q == queue[b]
<1> DEFINE r == queue'[b]
<1>3. q \in Seq(Messages) /\ r = Append(q, m)
  BY <1>1
<1> HIDE DEF q, r
<1>4. /\ \A i \in DOMAIN q : i \in Nat /\ i \in DOMAIN r /\ r[i] = q[i] /\ i < Len(q) + 1
      /\ \A i \in DOMAIN r : i \in DOMAIN q \/ (i = Len(q) + 1 /\ r[i] = m)
      /\ Len(q) + 1 \in Nat
  BY <1>3
<1> QED BY <1>2, <1>4 DEF q, r

\* The types of what is on the chains.
LEMMA OnChain ==
  ASSUME queue \in [Chains -> Seq(Messages)], NEW c \in Chains, NEW i \in DOMAIN queue[c]
  PROVE  queue[c][i] \in Messages /\ queue[c][i].n \in Nat /\ i \in Nat \ {0}
<1>1. queue[c] \in Seq(Messages)
  OBVIOUS
<1>2. queue[c][i] \in Messages /\ i \in Nat \ {0}
  BY <1>1, Element
<1> QED BY <1>2, Records

\* The chains stay in order.
LEMMA QueueStep == TypeOK /\ LinkInv /\ QueueInv /\ PendInv /\ [Next]_vars => QueueInv'
<1> SUFFICES ASSUME TypeOK, LinkInv, QueueInv, PendInv, [Next]_vars PROVE QueueInv'
  OBVIOUS
<1>0. /\ queue \in [Chains -> Seq(Messages)] /\ arrived \in Nat
      /\ link \in [Peers -> 0 .. MaxConnections]
  BY DEF TypeOK
<1>1. \A p \in Peers : made[p] <= made'[p] /\ made[p] \in Nat /\ made'[p] \in Nat
  BY MadeGrows
<1>2. ASSUME NEW c \in Chains, NEW i \in DOMAIN queue[c] PROVE c[2] <= made'[c[1]]
  <2>1. c[2] <= made[c[1]] /\ c[1] \in Peers /\ c[2] \in Nat
    BY <1>2, ChainFacts DEF QueueInv
  <2> QED BY <1>1, <2>1
<1>3. CASE QueuesAlone \/ OneAdvances \/ AllFlushed
  <2>1. Shrinks /\ arrived' = arrived
    BY <1>3, MovesShrink
  <2> SUFFICES ASSUME NEW c \in Chains, NEW i \in DOMAIN queue'[c]
               PROVE  /\ ChainOf(queue'[c][i]) = c /\ queue'[c][i].n <= arrived' /\ c[2] <= made'[c[1]]
                      /\ \A k \in DOMAIN queue'[c] : i < k => queue'[c][i].n < queue'[c][k].n
                      /\ \A d \in Chains : \A k \in DOMAIN queue'[d] :
                           queue'[d][k].n = queue'[c][i].n => d = c
    BY DEF QueueInv
  <2>2. /\ Up(c) \in {0, 1} /\ i \in Nat
        /\ i + Up(c) \in DOMAIN queue[c] /\ queue'[c][i] = queue[c][i + Up(c)]
    BY <1>0, <2>1, Shifted
  <2>3. ChainOf(queue'[c][i]) = c /\ queue'[c][i].n <= arrived'
    BY <2>1, <2>2 DEF QueueInv
  <2>4. ASSUME NEW k \in DOMAIN queue'[c], i < k PROVE queue'[c][i].n < queue'[c][k].n
    <3>1. k \in Nat /\ k + Up(c) \in DOMAIN queue[c] /\ queue'[c][k] = queue[c][k + Up(c)]
      BY <1>0, <2>1, Shifted
    <3>2. i + Up(c) < k + Up(c)
      BY <2>2, <2>4, <3>1
    <3> QED BY <2>2, <3>1, <3>2 DEF QueueInv
  <2>5. ASSUME NEW d \in Chains, NEW k \in DOMAIN queue'[d], queue'[d][k].n = queue'[c][i].n PROVE d = c
    <3>1. k + Up(d) \in DOMAIN queue[d] /\ queue'[d][k] = queue[d][k + Up(d)]
      BY <1>0, <2>1, Shifted
    <3> QED BY <2>2, <2>5, <3>1 DEF QueueInv
  <2> QED BY <1>2, <2>2, <2>3, <2>4, <2>5
<1>4. CASE JoinsChain
  <2>1. PICK p \in Peers : \E m \in Messages :
          /\ link[p] # 0
          /\ m.n = arrived + 1 /\ arrived' = arrived + 1 /\ ChainOf(m) = <<p, link[p]>>
          /\ queue' = [queue EXCEPT ![<<p, link[p]>>] = Append(queue[<<p, link[p]>>], m)]
    BY <1>4 DEF JoinsChain
  <2> DEFINE b == <<p, link[p]>>
  <2>2. PICK m \in Messages :
          /\ m.n = arrived + 1 /\ arrived' = arrived + 1 /\ ChainOf(m) = b
          /\ queue' = [queue EXCEPT ![b] = Append(queue[b], m)]
    BY <2>1
  <2>3. b \in Chains /\ b[2] <= made'[b[1]]
    <3>1. link[p] \in 1 .. MaxConnections /\ link[p] = made[p]
      BY <1>0, <2>1 DEF LinkInv
    <3>2. b \in Chains
      BY <3>1, ChainFacts
    <3>3. b[1] = p /\ b[2] = link[p]
      OBVIOUS
    <3>4. made[p] <= made'[p]
      BY <1>1
    <3> QED BY <3>1, <3>2, <3>3, <3>4
  <2> HIDE DEF b
  <2>4. /\ \A d \in Chains : d # b => queue'[d] = queue[d]
        /\ \A i \in DOMAIN queue[b] : i \in Nat /\ queue'[b][i] = queue[b][i] /\ i < Len(queue[b]) + 1
        /\ \A i \in DOMAIN queue'[b] : i \in DOMAIN queue[b] \/ (i = Len(queue[b]) + 1 /\ queue'[b][i] = m)
        /\ Len(queue[b]) + 1 \in Nat
    BY <1>0, <2>2, <2>3, Joined
  <2>5. ASSUME NEW c \in Chains, NEW i \in DOMAIN queue'[c]
        PROVE  \/ c = b /\ i = Len(queue[b]) + 1 /\ queue'[c][i] = m
               \/ i \in DOMAIN queue[c] /\ queue'[c][i] = queue[c][i] /\ queue[c][i].n \in Nat
                  /\ queue[c][i].n <= arrived
    <3>1. CASE i \in DOMAIN queue[c]
      <4>1. queue'[c][i] = queue[c][i]
        BY <2>4, <3>1
      <4>2. queue[c][i].n \in Nat
        BY <1>0, <3>1, OnChain
      <4>3. queue[c][i].n <= arrived
        BY <3>1 DEF QueueInv
      <4> QED BY <3>1, <4>1, <4>2, <4>3
    <3>2. CASE i \notin DOMAIN queue[c]
      BY <2>4, <2>5, <3>2
    <3> QED BY <3>1, <3>2
  <2> SUFFICES ASSUME NEW c \in Chains, NEW i \in DOMAIN queue'[c]
               PROVE  /\ ChainOf(queue'[c][i]) = c /\ queue'[c][i].n <= arrived' /\ c[2] <= made'[c[1]]
                      /\ \A k \in DOMAIN queue'[c] : i < k => queue'[c][i].n < queue'[c][k].n
                      /\ \A d \in Chains : \A k \in DOMAIN queue'[d] :
                           queue'[d][k].n = queue'[c][i].n => d = c
    BY DEF QueueInv
  <2>6. CASE c = b /\ i = Len(queue[b]) + 1 /\ queue'[c][i] = m
    <3>1. ASSUME NEW k \in DOMAIN queue'[c], i < k PROVE FALSE
      <4>1. k \in DOMAIN queue[b] \/ k = Len(queue[b]) + 1
        BY <2>4, <2>6
      <4> QED BY <2>4, <2>6, <3>1, <4>1
    <3>2. ASSUME NEW d \in Chains, NEW k \in DOMAIN queue'[d], queue'[d][k].n = m.n PROVE d = b
      BY <1>0, <2>2, <2>5, <3>2
    <3>3. queue'[c][i].n <= arrived'
      BY <1>0, <2>2, <2>6
    <3> QED BY <2>2, <2>3, <2>6, <3>1, <3>2, <3>3
  <2>7. CASE i \in DOMAIN queue[c] /\ queue'[c][i] = queue[c][i] /\ queue[c][i].n \in Nat
             /\ queue[c][i].n <= arrived
    <3>1. queue'[c][i].n <= arrived' /\ queue'[c][i].n < m.n
      BY <1>0, <2>2, <2>7
    <3>2. ChainOf(queue'[c][i]) = c /\ c[2] <= made'[c[1]]
      BY <1>2, <2>7 DEF QueueInv
    <3>3. ASSUME NEW k \in DOMAIN queue'[c], i < k PROVE queue'[c][i].n < queue'[c][k].n
      <4>1. CASE queue'[c][k] = m
        BY <3>1, <4>1
      <4>2. CASE k \in DOMAIN queue[c] /\ queue'[c][k] = queue[c][k]
        BY <2>7, <3>3, <4>2 DEF QueueInv
      <4> QED BY <2>5, <4>1, <4>2
    <3>4. ASSUME NEW d \in Chains, NEW k \in DOMAIN queue'[d], queue'[d][k].n = queue'[c][i].n PROVE d = c
      <4>1. CASE queue'[d][k] = m
        <5>1. queue'[c][i].n = arrived + 1
          BY <2>2, <3>4, <4>1
        <5> QED BY <1>0, <2>7, <5>1
      <4>2. CASE k \in DOMAIN queue[d] /\ queue'[d][k] = queue[d][k]
        BY <2>7, <3>4, <4>2 DEF QueueInv
      <4> QED BY <2>5, <4>1, <4>2
    <3> QED BY <3>1, <3>2, <3>3, <3>4
  <2> QED BY <2>5, <2>6, <2>7
<1>5. CASE GoesAtOnce
  <2>1. queue' = queue /\ arrived' = arrived + 1
    BY <1>5 DEF GoesAtOnce
  <2> SUFFICES ASSUME NEW c \in Chains, NEW i \in DOMAIN queue[c]
               PROVE  /\ ChainOf(queue[c][i]) = c /\ queue[c][i].n <= arrived' /\ c[2] <= made'[c[1]]
                      /\ \A k \in DOMAIN queue[c] : i < k => queue[c][i].n < queue[c][k].n
                      /\ \A d \in Chains : \A k \in DOMAIN queue[d] :
                           queue[d][k].n = queue[c][i].n => d = c
    BY <2>1 DEF QueueInv
  <2>2. queue[c][i].n \in Nat
    BY <1>0, OnChain
  <2>3. queue[c][i].n <= arrived
    BY DEF QueueInv
  <2>4. queue[c][i].n <= arrived'
    BY <1>0, <2>1, <2>2, <2>3
  <2> QED BY <1>2, <2>4 DEF QueueInv
<1> QED BY <1>3, <1>4, <1>5, ChainMoves

\* One more message is delivered, after all of its connection before.
LEMMA DeliveredInOrder ==
  ASSUME done \in Seq(Messages), InOrder, NEW m \in Messages, done' = Append(done, m),
         \A i \in DOMAIN done : ChainOf(done[i]) = ChainOf(m) => done[i].n < m.n
  PROVE  InOrder'
<1> DEFINE z == Len(done) + 1
<1>1. /\ \A i \in DOMAIN done : i \in Nat /\ done'[i] = done[i] /\ i < z
      /\ \A i \in DOMAIN done' : (i \in DOMAIN done \/ i = z) /\ i \in Nat
      /\ done'[z] = m /\ z \in Nat
  BY Longer
<1> HIDE DEF z
<1> SUFFICES ASSUME NEW i \in DOMAIN done', NEW j \in DOMAIN done', i < j,
                    done'[i].peer = done'[j].peer, done'[i].conn = done'[j].conn
             PROVE  done'[i].n < done'[j].n
  BY DEF InOrder
<1>2. i \in DOMAIN done
  BY <1>1
<1>3. CASE j = z
  <2>1. done'[i] = done[i] /\ done'[j] = m
    BY <1>1, <1>2, <1>3
  <2>2. ChainOf(done[i]) = ChainOf(m)
    BY <2>1 DEF ChainOf
  <2> QED BY <1>2, <2>1, <2>2
<1>4. CASE j \in DOMAIN done
  BY <1>1, <1>2, <1>4 DEF InOrder
<1> QED BY <1>1, <1>3, <1>4

\* What is delivered comes in order, and before what waits.
LEMMA DoneStep ==
  TypeOK /\ LinkInv /\ QueueInv /\ DoneInv /\ InOrder /\ DirectInv /\ PendInv /\ [Next]_vars
    => DoneInv' /\ InOrder'
<1> SUFFICES ASSUME TypeOK, LinkInv, QueueInv, DoneInv, InOrder, DirectInv, PendInv, [Next]_vars
             PROVE  DoneInv' /\ InOrder'
  OBVIOUS
<1>0. /\ queue \in [Chains -> Seq(Messages)] /\ arrived \in Nat /\ done \in Seq(Messages)
      /\ link \in [Peers -> 0 .. MaxConnections]
  BY DEF TypeOK
<1>1. ASSUME NEW i \in DOMAIN done PROVE done[i] \in Messages /\ done[i].n \in Nat /\ ChainOf(done[i]) \in Chains
  BY <1>0, Element, Records
<1>2. ASSUME Shrinks, arrived' = arrived, NEW i \in DOMAIN done
      PROVE  /\ done[i].n <= arrived'
             /\ \A c \in Chains : \A k \in DOMAIN queue'[c] : ChainOf(done[i]) = c => done[i].n < queue'[c][k].n
  <2>1. done[i].n <= arrived'
    BY <1>2 DEF DoneInv
  <2>2. ASSUME NEW c \in Chains, NEW k \in DOMAIN queue'[c], ChainOf(done[i]) = c
        PROVE  done[i].n < queue'[c][k].n
    <3>1. k + Up(c) \in DOMAIN queue[c] /\ queue'[c][k] = queue[c][k + Up(c)]
      BY <1>0, <1>2, Shifted
    <3> QED BY <1>2, <2>2, <3>1 DEF DoneInv
  <2> QED BY <2>1, <2>2
<1>3. CASE QueuesAlone \/ AllFlushed
  <2>1. Shrinks /\ arrived' = arrived /\ done' = done
    BY <1>3, MovesShrink DEF QueuesAlone, AllFlushed
  <2>2. DoneInv'
    BY <1>2, <2>1 DEF DoneInv
  <2> QED BY <2>1, <2>2 DEF InOrder
<1>4. CASE OneAdvances
  <2>1. Shrinks /\ arrived' = arrived
    BY <1>4, MovesShrink
  <2>2. PICK c \in Chains : /\ queue[c] # << >> /\ Advance(c)
                            /\ done' = done \/ done' = Append(done, queue[c][1])
    BY <1>4 DEF OneAdvances
  <2> DEFINE m == queue[c][1]
  <2>3. 1 \in DOMAIN queue[c] /\ queue'[c] = Tail(queue[c])
    <3>1. queue[c] \in Seq(Messages)
      BY <1>0
    <3>2. 1 \in DOMAIN queue[c]
      BY <2>2, <3>1, Popped
    <3> QED BY <1>0, <2>2, <3>2, AdvanceShrinks
  <2>4. m \in Messages /\ ChainOf(m) = c /\ m.n <= arrived
    BY <1>0, <2>3, OnChain DEF QueueInv
  <2>5. \A k \in DOMAIN queue'[c] : m.n < queue'[c][k].n
    <3> SUFFICES ASSUME NEW k \in DOMAIN queue'[c] PROVE m.n < queue'[c][k].n
      OBVIOUS
    <3>1. k \in Nat \ {0} /\ k + 1 \in DOMAIN queue[c] /\ queue'[c][k] = queue[c][k + 1]
      <4>1. queue[c] \in Seq(Messages)
        BY <1>0
      <4> QED BY <2>2, <2>3, <4>1, Popped
    <3>2. 1 < k + 1
      BY <3>1
    <3> QED BY <2>3, <3>1, <3>2 DEF QueueInv
  <2>6. \A i \in DOMAIN done : ChainOf(done[i]) = ChainOf(m) => done[i].n < m.n
    BY <2>3, <2>4 DEF DoneInv
  <2> HIDE DEF m
  <2>7. CASE done' = done
    <3>1. DoneInv'
      BY <1>2, <2>1, <2>7 DEF DoneInv
    <3> QED BY <2>7, <3>1 DEF InOrder
  <2>8. CASE done' = Append(done, m)
    <3>1. InOrder'
      BY <1>0, <2>4, <2>6, <2>8, DeliveredInOrder
    <3>2. ASSUME NEW i \in DOMAIN done' PROVE (i \in DOMAIN done /\ done'[i] = done[i]) \/ done'[i] = m
      BY <1>0, <2>4, <2>8, <3>2, Longer
    <3>3. DoneInv'
      <4> SUFFICES ASSUME NEW i \in DOMAIN done'
                   PROVE  /\ done'[i].n <= arrived'
                          /\ \A d \in Chains : \A k \in DOMAIN queue'[d] :
                               ChainOf(done'[i]) = d => done'[i].n < queue'[d][k].n
        BY DEF DoneInv
      <4>1. CASE i \in DOMAIN done /\ done'[i] = done[i]
        BY <1>2, <2>1, <4>1
      <4>2. CASE done'[i] = m
        BY <2>1, <2>4, <2>5, <4>2
      <4> QED BY <3>2, <4>1, <4>2
    <3> QED BY <3>1, <3>3
  <2> QED BY <2>2, <2>7, <2>8 DEF m
<1>5. CASE JoinsChain
  <2>1. PICK p \in Peers : \E m \in Messages :
          /\ link[p] # 0
          /\ m.n = arrived + 1 /\ arrived' = arrived + 1 /\ ChainOf(m) = <<p, link[p]>>
          /\ queue' = [queue EXCEPT ![<<p, link[p]>>] = Append(queue[<<p, link[p]>>], m)] /\ done' = done
    BY <1>5 DEF JoinsChain
  <2> DEFINE b == <<p, link[p]>>
  <2>2. PICK m \in Messages :
          /\ m.n = arrived + 1 /\ arrived' = arrived + 1 /\ ChainOf(m) = b
          /\ queue' = [queue EXCEPT ![b] = Append(queue[b], m)] /\ done' = done
    BY <2>1
  <2>3. b \in Chains
    <3>1. link[p] \in 1 .. MaxConnections
      BY <1>0, <2>1
    <3> QED BY <3>1, ChainFacts
  <2> HIDE DEF b
  <2>4. /\ \A d \in Chains : d # b => queue'[d] = queue[d]
        /\ \A i \in DOMAIN queue[b] : queue'[b][i] = queue[b][i]
        /\ \A i \in DOMAIN queue'[b] : i \in DOMAIN queue[b] \/ queue'[b][i] = m
    BY <1>0, <2>2, <2>3, Joined
  <2>5. DoneInv'
    <3> SUFFICES ASSUME NEW i \in DOMAIN done
                 PROVE  /\ done[i].n <= arrived'
                        /\ \A d \in Chains : \A k \in DOMAIN queue'[d] :
                             ChainOf(done[i]) = d => done[i].n < queue'[d][k].n
      BY <2>2 DEF DoneInv
    <3>1. done[i].n <= arrived /\ done[i].n \in Nat
      BY <1>1 DEF DoneInv
    <3>2. done[i].n <= arrived' /\ done[i].n < m.n
      BY <1>0, <2>2, <3>1
    <3>3. ASSUME NEW d \in Chains, NEW k \in DOMAIN queue'[d], ChainOf(done[i]) = d
          PROVE  done[i].n < queue'[d][k].n
      <4>1. CASE queue'[d][k] = m
        BY <3>2, <4>1
      <4>2. CASE k \in DOMAIN queue[d] /\ queue'[d][k] = queue[d][k]
        BY <3>3, <4>2 DEF DoneInv
      <4> QED BY <2>4, <4>1, <4>2
    <3> QED BY <3>2, <3>3
  <2> QED BY <2>2, <2>5 DEF InOrder
<1>6. CASE GoesAtOnce
  <2>1. PICK p \in Peers : \E m \in Messages :
          /\ link[p] # 0 /\ pool.dir = "tx" /\ ~alive
          /\ m.n = arrived + 1 /\ arrived' = arrived + 1
          /\ queue' = queue /\ (done' = done \/ done' = Append(done, m))
    BY <1>6 DEF GoesAtOnce
  <2>2. \A c \in Chains : queue[c] = << >>
    BY <2>1 DEF DirectInv
  <2>3. \A c \in Chains : DOMAIN queue'[c] = {}
    BY <2>1, <2>2
  <2>4. PICK m \in Messages :
          m.n = arrived + 1 /\ arrived' = arrived + 1 /\ (done' = done \/ done' = Append(done, m))
    BY <2>1
  <2>5. \A i \in DOMAIN done : done[i].n < m.n /\ done[i].n <= arrived'
    <3> SUFFICES ASSUME NEW i \in DOMAIN done PROVE done[i].n < m.n /\ done[i].n <= arrived'
      OBVIOUS
    <3>1. done[i].n <= arrived /\ done[i].n \in Nat
      BY <1>1 DEF DoneInv
    <3> QED BY <1>0, <2>4, <3>1
  <2>6. CASE done' = done
    <3>1. DoneInv'
      BY <2>3, <2>5, <2>6 DEF DoneInv
    <3> QED BY <2>6, <3>1 DEF InOrder
  <2>7. CASE done' = Append(done, m)
    <3>1. InOrder'
      BY <1>0, <2>5, <2>7, DeliveredInOrder
    <3>2. ASSUME NEW i \in DOMAIN done' PROVE (i \in DOMAIN done /\ done'[i] = done[i]) \/ done'[i] = m
      BY <1>0, <2>7, <3>2, Longer
    <3>3. m.n <= arrived'
      BY <1>0, <2>4
    <3>4. DoneInv'
      BY <2>3, <2>5, <3>2, <3>3 DEF DoneInv
    <3> QED BY <3>1, <3>4
  <2> QED BY <2>4, <2>6, <2>7
<1> QED BY <1>3, <1>4, <1>5, <1>6, ChainMoves

\* Without workers an exit keeps no answers on a chain.
LEMMA DirectStep ==
  TypeOK /\ LinkInv /\ DirectInv /\ PendInv /\ [Next]_vars => DirectInv'
<1> SUFFICES ASSUME TypeOK, LinkInv, DirectInv, PendInv, [Next]_vars, pool'.dir = "tx", ~alive'
             PROVE  \/ \A p \in Peers : link'[p] = 0 /\ made'[p] = MaxConnections
                    \/ \A c \in Chains : queue'[c] = << >>
  BY DEF DirectInv
<1>0. /\ queue \in [Chains -> Seq(Messages)] /\ waiting \subseteq Chains
      /\ \A c \in waiting : queue[c] # << >>
  BY DEF TypeOK, PendInv
<1>1. CASE Stop
  BY <1>1 DEF Stop
<1>2. CASE ~Stop
  <2>1. pool' = pool /\ alive' = alive
    <3>1. ASSUME NEW p \in Peers, NEW k \in Kinds, Connect(p) \/ Disconnect(p) \/ Arrive(p, k)
          PROVE  pool' = pool /\ alive' = alive
      BY <3>1 DEF Connect, Disconnect, Arrive
    <3>2. ASSUME NEW c \in Chains, Keyless(c) \/ Synchronous(c) \/ Submit(c)
          PROVE  pool' = pool /\ alive' = alive
      BY <3>2 DEF Keyless, Synchronous, Submit
    <3>3. ASSUME NEW w \in Workers, Work(w) \/ Result(w) \/ Crash(w) \/ Exit(w)
          PROVE  pool' = pool /\ alive' = alive
      BY <3>3 DEF Work, Result, Crash, Exit
    <3>4. UNCHANGED vars => pool' = pool /\ alive' = alive
      BY DEF vars
    <3>5. \E k \in Kinds : TRUE
      BY DEF Kinds
    <3> QED BY <1>2, <3>1, <3>2, <3>3, <3>4, <3>5 DEF Next, ChainStep
  <2>2. pool.dir = "tx" /\ ~alive
    BY <2>1
  <2>3. CASE \A p \in Peers : link[p] = 0 /\ made[p] = MaxConnections
    <3>1. ASSUME NEW p \in Peers, NEW k \in Kinds, Connect(p) \/ Disconnect(p) \/ Arrive(p, k)
          PROVE  FALSE
      <4>1. link[p] # 0 \/ made[p] < MaxConnections
        BY <3>1 DEF Connect, Disconnect, Arrive
      <4> QED BY <2>3, <4>1
    <3>2. UNCHANGED nodeVars
      <4>1. ASSUME NEW c \in Chains, Keyless(c) \/ Synchronous(c) \/ Submit(c) PROVE UNCHANGED nodeVars
        BY <4>1 DEF Keyless, Synchronous, Submit
      <4>2. ASSUME NEW w \in Workers, Work(w) \/ Result(w) \/ Crash(w) \/ Exit(w) PROVE UNCHANGED nodeVars
        BY <4>2 DEF Work, Result, Crash, Exit
      <4>3. UNCHANGED vars => UNCHANGED nodeVars
        BY DEF vars
      <4>4. \E k \in Kinds : TRUE
        BY DEF Kinds
      <4> QED BY <1>2, <3>1, <4>1, <4>2, <4>3, <4>4 DEF Next, ChainStep
    <3> QED BY <2>3, <3>2 DEF nodeVars
  <2>4. CASE \A c \in Chains : queue[c] = << >>
    <3>1. ~JoinsChain
      BY <2>2 DEF JoinsChain
    <3>2. CASE QueuesAlone \/ OneAdvances \/ AllFlushed
      <4>1. Shrinks
        BY <3>2, MovesShrink
      <4> QED BY <2>4, <4>1 DEF Shrinks
    <3>3. CASE GoesAtOnce
      BY <2>4, <3>3 DEF GoesAtOnce
    <3> QED BY <3>1, <3>2, <3>3, ChainMoves
  <2> QED BY <2>2, <2>3, <2>4 DEF DirectInv
<1> QED BY <1>1, <1>2

-----------------------------------------------------------------------------
(* Jobs, callbacks and results. *)

\* Steps that leave the chains, the callbacks and those who wait for them alone.
LEMMA SameJobs ==
  ASSUME PendInv, UNCHANGED <<queue, waiting, pending>>
  PROVE  PendInv'
BY DEF PendInv

\* A callback stays that of the first message of its chain.
LEMMA PendStep == TypeOK /\ LinkInv /\ PendInv /\ [Next]_vars => PendInv'
<1> SUFFICES ASSUME TypeOK, LinkInv, PendInv, [Next]_vars PROVE PendInv'
  OBVIOUS
<1>0. /\ queue \in [Chains -> Seq(Messages)] /\ waiting \subseteq Chains /\ pending \subseteq Jobs
      /\ link \in [Peers -> 0 .. MaxConnections] /\ current \in [Peers -> 0 .. MaxConnections]
  BY DEF TypeOK
<1>1. /\ IsFiniteSet(pending)
      /\ \A c \in waiting : queue[c] # << >>
      /\ \A j \in pending : /\ j.chain \in waiting /\ j.msg = queue[j.chain][1]
                            /\ j.id = j.msg.n /\ j.msg.kind = "data"
  BY DEF PendInv
<1>2. CASE UNCHANGED <<queue, waiting, pending>>
  BY <1>2, SameJobs
<1>3. ASSUME NEW p \in Peers, Connect(p) \/ Disconnect(p) PROVE UNCHANGED <<queue, waiting, pending>>
  BY <1>3 DEF Connect, Disconnect
<1>4. ASSUME NEW w \in Workers, Work(w) \/ Crash(w) PROVE UNCHANGED <<queue, waiting, pending>>
  BY <1>4 DEF Work, Crash
<1>5. UNCHANGED vars => UNCHANGED <<queue, waiting, pending>>
  BY DEF vars
<1>6. ASSUME NEW c \in Chains, Keyless(c) \/ Synchronous(c) PROVE PendInv'
  <2>1. queue[c] # << >> /\ c \notin waiting /\ Advance(c) /\ UNCHANGED <<waiting, pending>>
    BY <1>6 DEF Keyless, Synchronous, Ready
  <2>2. \A d \in waiting : queue'[d] = queue[d]
    BY <1>0, <2>1, AdvanceShrinks
  <2> QED BY <1>1, <2>1, <2>2 DEF PendInv
<1>7. ASSUME NEW c \in Chains, Submit(c) PROVE PendInv'
  <2> DEFINE m == Head(queue[c])
  <2> DEFINE j == [id |-> m.n, chain |-> c, msg |-> m, key |-> session[c[1]]]
  <2>1. /\ queue[c] # << >> /\ m.kind = "data" /\ pending' = pending \cup {j}
        /\ waiting' = waiting \cup {c} /\ queue' = queue
    BY <1>7 DEF Submit, Ready
  <2>2. m = queue[c][1]
    BY <1>0, <2>1, Popped
  <2> HIDE DEF m
  <2>3. j.id = m.n /\ j.chain = c /\ j.msg = m
    OBVIOUS
  <2> HIDE DEF j
  <2>4. IsFiniteSet(pending')
    BY <1>1, <2>1, FS_AddElement
  <2> QED BY <1>1, <2>1, <2>2, <2>3, <2>4 DEF PendInv
<1>8. ASSUME NEW w \in Workers, Result(w) PROVE PendInv'
  <2>1. ASSUME NEW j \in pending, j.id = Head(output[w]).id,
               pending' = {i \in pending : i.id # Head(output[w]).id},
               queue[j.chain] # << >>, j.msg = Head(queue[j.chain]),
               Advance(j.chain), waiting' = waiting \ {j.chain}
        PROVE  PendInv'
    <3>1. j.chain \in Chains
      BY <1>0, Records
    <3>2. \A d \in waiting' : queue'[d] = queue[d]
      BY <1>0, <2>1, <3>1, AdvanceShrinks
    <3>3. \A i \in pending' : i.chain # j.chain
      BY <1>1, <2>1
    <3>4. IsFiniteSet(pending')
      BY <1>1, <2>1, FS_Subset
    <3> QED BY <1>1, <2>1, <3>2, <3>3, <3>4 DEF PendInv
  <2> QED BY <1>2, <1>8, <2>1, ResultIs
<1>9. ASSUME FlushPending PROVE PendInv'
  <2>1. pending' = {} /\ waiting' = {}
    BY <1>9 DEF FlushPending
  <2> QED BY <2>1, FS_EmptySet DEF PendInv
<1>10. ASSUME NEW w \in Workers, Exit(w) PROVE FlushPending
  BY <1>10 DEF Exit
<1>11. Stop => FlushPending
  BY DEF Stop
<1>12. ASSUME NEW p \in Peers, NEW k \in Kinds, Arrive(p, k) PROVE PendInv'
  <2>1. UNCHANGED <<waiting, pending>> /\ arrived' = arrived + 1
    BY <1>12 DEF Arrive
  <2>2. CASE queue' = queue
    BY <1>2, <2>1, <2>2
  <2>3. CASE queue' # queue
    <3>1. ~QueuesAlone /\ ~OneAdvances /\ ~AllFlushed /\ ~GoesAtOnce
      <4>1. arrived \in Nat
        BY DEF TypeOK
      <4>2. arrived' # arrived
        BY <2>1, <4>1
      <4> QED BY <2>3, <4>2 DEF QueuesAlone, OneAdvances, AllFlushed, GoesAtOnce
    <3>2. PICK q \in Peers : \E m \in Messages :
            /\ link[q] # 0
            /\ queue' = [queue EXCEPT ![<<q, link[q]>>] = Append(queue[<<q, link[q]>>], m)]
      BY <3>1, ChainMoves DEF JoinsChain
    <3> DEFINE b == <<q, link[q]>>
    <3>3. PICK m \in Messages : queue' = [queue EXCEPT ![b] = Append(queue[b], m)]
      BY <3>2
    <3>4. b \in Chains
      <4>1. link[q] \in 1 .. MaxConnections
        BY <1>0, <3>2
      <4> QED BY <4>1, ChainFacts
    <3> HIDE DEF b
    <3>5. /\ \A d \in Chains : d # b => queue'[d] = queue[d]
          /\ \A i \in DOMAIN queue[b] : queue'[b][i] = queue[b][i] /\ i \in DOMAIN queue'[b]
      BY <1>0, <3>3, <3>4, Joined
    <3>6. \A c \in waiting : queue'[c] # << >> /\ queue'[c][1] = queue[c][1]
      <4> SUFFICES ASSUME NEW c \in waiting PROVE queue'[c] # << >> /\ queue'[c][1] = queue[c][1]
        OBVIOUS
      <4>1. queue[c] \in Seq(Messages) /\ queue[c] # << >>
        BY <1>0, <1>1
      <4>2. 1 \in DOMAIN queue[c]
        BY <4>1, Popped
      <4>3. CASE c = b
        <5>1. queue'[c][1] = queue[c][1] /\ 1 \in DOMAIN queue'[c]
          BY <3>5, <4>2, <4>3
        <5> QED BY <5>1
      <4>4. CASE c # b
        BY <1>0, <3>5, <4>1, <4>4
      <4> QED BY <4>3, <4>4
    <3> QED BY <1>1, <2>1, <3>6 DEF PendInv
  <2> QED BY <2>2, <2>3
<1> QED BY <1>2, <1>3, <1>4, <1>5, <1>6, <1>7, <1>8, <1>9, <1>10, <1>11, <1>12 DEF Next, ChainStep

\* A chain stops waiting only by losing the message it waited for.
StillWaits == \A c \in waiting : c \in waiting' \/ (queue[c] # << >> /\ queue'[c] = Tail(queue[c]))

\* A number that no message on the chains may use again stays so while the chains shrink.
LEMMA ShrinkSpent ==
  ASSUME queue \in [Chains -> Seq(Messages)], Shrinks, StillWaits, arrived' = arrived
  PROVE  Spent \subseteq Spent'
<1> SUFFICES ASSUME NEW id \in Spent, NEW c \in Chains, NEW k \in DOMAIN queue'[c], queue'[c][k].n = id
             PROVE  c \in waiting' /\ k = 1
  BY DEF Spent
<1>1. queue[c] \in Seq(Messages)
  OBVIOUS
<1>2. CASE queue[c] # << >> /\ queue'[c] = Tail(queue[c])
  <2>1. k \in Nat \ {0} /\ k + 1 \in DOMAIN queue[c] /\ queue'[c][k] = queue[c][k + 1]
    BY <1>1, <1>2, Popped
  <2>2. k + 1 = 1
    BY <2>1 DEF Spent
  <2> QED BY <2>1, <2>2
<1>3. CASE ~(queue[c] # << >> /\ queue'[c] = Tail(queue[c]))
  <2>1. queue'[c] = queue[c]
    BY <1>3 DEF Shrinks
  <2>2. c \in waiting /\ k = 1
    BY <2>1 DEF Spent
  <2> QED BY <1>3, <2>2 DEF StillWaits
<1> QED BY <1>2, <1>3

\* And while messages join them.
LEMMA JoinSpent ==
  ASSUME TypeOK, JoinsChain \/ GoesAtOnce, waiting' = waiting
  PROVE  Spent \subseteq Spent'
<1> SUFFICES ASSUME NEW id \in Spent PROVE id \in Spent'
  OBVIOUS
<1>0. /\ queue \in [Chains -> Seq(Messages)] /\ arrived \in Nat
      /\ link \in [Peers -> 0 .. MaxConnections]
  BY DEF TypeOK
<1>1. id \in 0 .. arrived /\ arrived' = arrived + 1
  BY DEF Spent, JoinsChain, GoesAtOnce
<1>2. id \in 0 .. arrived' /\ id # arrived + 1
  BY <1>0, <1>1
<1>3. CASE GoesAtOnce
  BY <1>2, <1>3 DEF GoesAtOnce, Spent
<1>4. CASE JoinsChain
  <2>1. PICK p \in Peers : \E m \in Messages :
          /\ link[p] # 0 /\ m.n = arrived + 1
          /\ queue' = [queue EXCEPT ![<<p, link[p]>>] = Append(queue[<<p, link[p]>>], m)]
    BY <1>4 DEF JoinsChain
  <2> DEFINE b == <<p, link[p]>>
  <2>2. PICK m \in Messages : m.n = arrived + 1 /\ queue' = [queue EXCEPT ![b] = Append(queue[b], m)]
    BY <2>1
  <2>3. b \in Chains
    <3>1. link[p] \in 1 .. MaxConnections
      BY <1>0, <2>1
    <3> QED BY <3>1, ChainFacts
  <2> HIDE DEF b
  <2>4. /\ \A d \in Chains : d # b => queue'[d] = queue[d]
        /\ \A i \in DOMAIN queue[b] : queue'[b][i] = queue[b][i]
        /\ \A i \in DOMAIN queue'[b] : i \in DOMAIN queue[b] \/ queue'[b][i] = m
    BY <1>0, <2>2, <2>3, Joined
  <2> SUFFICES ASSUME NEW c \in Chains, NEW k \in DOMAIN queue'[c], queue'[c][k].n = id
               PROVE  c \in waiting /\ k = 1
    BY <1>2 DEF Spent
  <2>5. queue'[c][k] # m
    BY <1>2, <2>2
  <2>6. k \in DOMAIN queue[c] /\ queue'[c][k] = queue[c][k]
    BY <2>4, <2>5
  <2> QED BY <2>6 DEF Spent
<1> QED BY <1>3, <1>4

\* A step from whose jobs and results some are gone and to which none are added.
NoNewJobs ==
  /\ pending' \subseteq pending /\ pool' = pool
  /\ \A w \in Workers : \A i \in DOMAIN input'[w] : \E k \in DOMAIN input[w] : input'[w][i] = input[w][k]
  /\ \A w \in Workers : \A i \in DOMAIN output'[w] : \E k \in DOMAIN output[w] : output'[w][i] = output[w][k]

\* Such a step keeps what is in flight apart from what may still be submitted.
LEMMA FlightKept ==
  ASSUME TypeOK, FlightInv, NoNewJobs, Spent \subseteq Spent'
  PROVE  FlightInv'
<1>0. \A m, k : Opens(m, k)' = Opens(m, k)
  BY DEF NoNewJobs, Opens
<1>1. \A j \in pending' : j \in pending
  BY DEF NoNewJobs
<1>2. ASSUME NEW w \in Workers, NEW i \in DOMAIN input'[w]
      PROVE  /\ input'[w][i].id \in Spent'
             /\ \A j \in pending' : j.id = input'[w][i].id => j = input'[w][i]
  <2>1. PICK k \in DOMAIN input[w] : input'[w][i] = input[w][k]
    BY <1>2 DEF NoNewJobs
  <2>2. input[w][k].id \in Spent /\ \A j \in pending : j.id = input[w][k].id => j = input[w][k]
    BY DEF FlightInv
  <2> QED BY <1>1, <2>1, <2>2
<1>3. ASSUME NEW w \in Workers, NEW i \in DOMAIN output'[w]
      PROVE  /\ output'[w][i].id \in Spent'
             /\ \A j \in pending' : j.id = output'[w][i].id => output'[w][i].ok = Opens(j.msg, j.key)'
  <2>1. PICK k \in DOMAIN output[w] : output'[w][i] = output[w][k]
    BY <1>3 DEF NoNewJobs
  <2>2. /\ output[w][k].id \in Spent
        /\ \A j \in pending : j.id = output[w][k].id => output[w][k].ok = Opens(j.msg, j.key)
    BY DEF FlightInv
  <2> QED BY <1>0, <1>1, <2>1, <2>2
<1> QED BY <1>2, <1>3 DEF FlightInv

\* A shorter queue of a worker holds nothing new.
LEMMA TailIsOld ==
  ASSUME NEW S, NEW q \in Seq(S), q # << >>
  PROVE  \A i \in DOMAIN Tail(q) : \E k \in DOMAIN q : Tail(q)[i] = q[k]
BY Popped

\* The numbers of jobs in flight stay apart from those of messages still to be submitted.
LEMMA FlightStep == TypeOK /\ LinkInv /\ QueueInv /\ PendInv /\ FlightInv /\ [Next]_vars => FlightInv'
<1> SUFFICES ASSUME TypeOK, LinkInv, QueueInv, PendInv, FlightInv, [Next]_vars PROVE FlightInv'
  OBVIOUS
<1>0. /\ queue \in [Chains -> Seq(Messages)] /\ waiting \subseteq Chains /\ pending \subseteq Jobs
      /\ input \in [Workers -> Seq(Jobs)] /\ output \in [Workers -> Seq(Results)] /\ rr \in Workers
      /\ arrived \in Nat
  BY DEF TypeOK
<1>1. /\ \A c \in waiting : queue[c] # << >>
      /\ \A j \in pending : j.chain \in waiting /\ j.msg = queue[j.chain][1] /\ j.id = j.msg.n
  BY DEF PendInv
<1>2. ASSUME UNCHANGED <<queue, waiting, arrived>> PROVE Spent' = Spent
  BY <1>2 DEF Spent
<1>3. ASSUME UNCHANGED <<pool, queue, waiting, arrived, pending, input, output>> PROVE FlightInv'
  BY <1>2, <1>3, FlightKept DEF NoNewJobs
<1>4. ASSUME NEW p \in Peers, Connect(p) \/ Disconnect(p) PROVE FlightInv'
  BY <1>3, <1>4 DEF Connect, Disconnect, workerVars
<1>5. ASSUME NEW w \in Workers, Crash(w) PROVE FlightInv'
  BY <1>3, <1>5 DEF Crash
<1>6. UNCHANGED vars => FlightInv'
  BY <1>3 DEF vars, workerVars
<1>7. ASSUME NEW p \in Peers, NEW k \in Kinds, Arrive(p, k) PROVE FlightInv'
  <2>1. UNCHANGED <<pool, waiting, pending, input, output>> /\ arrived' = arrived + 1
    BY <1>7 DEF Arrive, workerVars
  <2>2. ~QueuesAlone /\ ~OneAdvances /\ ~AllFlushed
    <3>1. arrived' # arrived
      BY <1>0, <2>1
    <3> QED BY <3>1 DEF QueuesAlone, OneAdvances, AllFlushed
  <2>3. Spent \subseteq Spent'
    BY <2>1, <2>2, ChainMoves, JoinSpent
  <2> QED BY <2>1, <2>3, FlightKept DEF NoNewJobs
<1>8. ASSUME NEW c \in Chains, Keyless(c) \/ Synchronous(c) PROVE FlightInv'
  <2>1. /\ queue[c] # << >> /\ c \notin waiting /\ Advance(c)
        /\ UNCHANGED <<pool, waiting, arrived, pending, input, output>>
    BY <1>8 DEF Keyless, Synchronous, Ready, workerVars
  <2>2. Shrinks
    BY <1>0, <2>1, AdvanceShrinks
  <2>3. Spent \subseteq Spent'
    BY <1>0, <2>1, <2>2, ShrinkSpent DEF StillWaits
  <2> QED BY <2>1, <2>3, FlightKept DEF NoNewJobs
<1>9. ASSUME NEW w \in Workers, Exit(w) PROVE FlightInv'
  <2>1. FlushPending /\ UNCHANGED <<pool, arrived, output>> /\ input' = [input EXCEPT ![w] = << >>]
    BY <1>9 DEF Exit
  <2>2. Spent \subseteq Spent'
    BY <1>0, <1>1, <2>1, FlushShrinks, ShrinkSpent DEF StillWaits
  <2>3. pending' = {}
    BY <2>1 DEF FlushPending
  <2>4. \A v \in Workers : \A i \in DOMAIN input'[v] : \E k \in DOMAIN input[v] : input'[v][i] = input[v][k]
    BY <1>0, <2>1
  <2> QED BY <2>1, <2>2, <2>3, <2>4, FlightKept DEF NoNewJobs
<1>10. CASE Stop
  <2>1. /\ FlushPending /\ UNCHANGED <<pool, arrived>>
        /\ \A v \in Workers : input'[v] = << >> /\ output'[v] = << >>
    BY <1>10 DEF Stop
  <2> QED BY <2>1 DEF FlightInv
<1>11. ASSUME NEW w \in Workers, Result(w) PROVE FlightInv'
  <2>1. output[w] # << >> /\ output' = [output EXCEPT ![w] = Tail(output[w])] /\ UNCHANGED <<pool, arrived, input>>
    BY <1>11 DEF Result
  <2>2. \A v \in Workers : \A i \in DOMAIN output'[v] : \E k \in DOMAIN output[v] : output'[v][i] = output[v][k]
    <3> SUFFICES ASSUME NEW v \in Workers, NEW i \in DOMAIN output'[v]
                 PROVE  \E k \in DOMAIN output[v] : output'[v][i] = output[v][k]
      OBVIOUS
    <3>1. CASE v = w
      <4>1. output'[v] = Tail(output[v]) /\ output[v] \in Seq(Results) /\ output[v] # << >>
        BY <1>0, <2>1, <3>1
      <4> QED BY <4>1, TailIsOld
    <3>2. CASE v # w
      BY <1>0, <2>1, <3>2
    <3> QED BY <3>1, <3>2
  <2>3. CASE UNCHANGED <<pending, queue, waiting, done, late>>
    BY <1>2, <2>1, <2>2, <2>3, FlightKept DEF NoNewJobs
  <2>4. ASSUME NEW j \in pending, pending' = {i \in pending : i.id # Head(output[w]).id},
               queue[j.chain] # << >>, Advance(j.chain), waiting' = waiting \ {j.chain}
        PROVE  FlightInv'
    <3>1. j.chain \in Chains
      BY <1>0, Records
    <3>2. Shrinks /\ queue'[j.chain] = Tail(queue[j.chain])
      BY <1>0, <2>4, <3>1, AdvanceShrinks
    <3>3. StillWaits
      BY <2>4, <3>2 DEF StillWaits
    <3>4. Spent \subseteq Spent'
      BY <1>0, <2>1, <3>2, <3>3, ShrinkSpent
    <3>5. pending' \subseteq pending
      BY <2>4
    <3> QED BY <2>1, <2>2, <3>4, <3>5, FlightKept DEF NoNewJobs
  <2> QED BY <1>11, <2>3, <2>4, ResultIs
<1>12. ASSUME NEW w \in Workers, Work(w) PROVE FlightInv'
  <2> DEFINE j == Head(input[w])
  <2> DEFINE r == [id |-> j.id, ok |-> Opens(j.msg, j.key)]
  <2>1. /\ input[w] # << >> /\ output' = [output EXCEPT ![w] = Append(output[w], r)]
        /\ input' = [input EXCEPT ![w] = Tail(input[w])]
        /\ UNCHANGED <<pool, queue, waiting, arrived, pending>>
    BY <1>12 DEF Work
  <2>2. j = input[w][1] /\ 1 \in DOMAIN input[w] /\ j \in Jobs
    BY <1>0, <2>1, Popped
  <2> HIDE DEF j
  <2>3. r.id = j.id /\ r.ok = Opens(j.msg, j.key) /\ r \in Results
    BY <2>2, Records, OpensType DEF Results
  <2> HIDE DEF r
  <2>4. Spent' = Spent /\ \A m, k : Opens(m, k)' = Opens(m, k)
    BY <1>2, <2>1 DEF Opens
  <2>5. j.id \in Spent /\ \A x \in pending : x.id = j.id => x = j
    BY <2>2 DEF FlightInv
  <2>6. ASSUME NEW v \in Workers, NEW i \in DOMAIN input'[v]
        PROVE  \E k \in DOMAIN input[v] : input'[v][i] = input[v][k]
    <3>1. CASE v = w
      <4>1. input'[v] = Tail(input[v]) /\ input[v] \in Seq(Jobs) /\ input[v] # << >>
        BY <1>0, <2>1, <3>1
      <4> QED BY <2>6, <4>1, TailIsOld
    <3>2. CASE v # w
      BY <1>0, <2>1, <2>6, <3>2
    <3> QED BY <3>1, <3>2
  <2>7. ASSUME NEW v \in Workers, NEW i \in DOMAIN output'[v]
        PROVE  output'[v][i] = r \/ (i \in DOMAIN output[v] /\ output'[v][i] = output[v][i])
    <3>1. CASE v = w
      <4>1. output'[v] = Append(output[v], r) /\ output[v] \in Seq(Results)
        BY <1>0, <2>1, <3>1
      <4> QED BY <2>3, <2>7, <4>1, Longer
    <3>2. CASE v # w
      BY <1>0, <2>1, <2>7, <3>2
    <3> QED BY <3>1, <3>2
  <2>8. ASSUME NEW v \in Workers, NEW i \in DOMAIN input'[v]
        PROVE  input'[v][i].id \in Spent /\ \A x \in pending : x.id = input'[v][i].id => x = input'[v][i]
    <3>1. PICK k \in DOMAIN input[v] : input'[v][i] = input[v][k]
      BY <2>6, <2>8
    <3> QED BY <3>1 DEF FlightInv
  <2>9. ASSUME NEW v \in Workers, NEW i \in DOMAIN output'[v]
        PROVE  /\ output'[v][i].id \in Spent
               /\ \A x \in pending : x.id = output'[v][i].id => output'[v][i].ok = Opens(x.msg, x.key)
    <3>1. CASE output'[v][i] = r
      BY <2>3, <2>5, <3>1
    <3>2. CASE i \in DOMAIN output[v] /\ output'[v][i] = output[v][i]
      BY <3>2 DEF FlightInv
    <3> QED BY <2>7, <2>9, <3>1, <3>2
  <2> QED BY <2>1, <2>4, <2>8, <2>9 DEF FlightInv
<1>13. ASSUME NEW c \in Chains, Submit(c) PROVE FlightInv'
  <2> DEFINE m == Head(queue[c])
  <2> DEFINE j == [id |-> m.n, chain |-> c, msg |-> m, key |-> session[c[1]]]
  <2>1. /\ queue[c] # << >> /\ c \notin waiting /\ pending' = pending \cup {j}
        /\ input' = [input EXCEPT ![rr] = Append(input[rr], j)]
        /\ waiting' = waiting \cup {c} /\ UNCHANGED <<pool, queue, arrived, output>> /\ session[c[1]] # 0
    BY <1>13 DEF Submit, Ready
  <2>2. m = queue[c][1] /\ 1 \in DOMAIN queue[c] /\ m \in Messages
    BY <1>0, <2>1, Popped
  <2> HIDE DEF m
  <2>3. j.id = m.n /\ j.chain = c /\ j.msg = m /\ j \in Jobs
    <3>1. session[c[1]] \in 1 .. MaxConnections
      <4>1. c[1] \in Peers
        BY ChainFacts
      <4> QED BY <2>1, <4>1 DEF TypeOK
    <3> QED BY <2>2, <3>1, Records DEF Jobs
  <2> HIDE DEF j
  <2>4. m.n \in 0 .. arrived
    <3>1. m.n \in Nat
      BY <2>2, Records
    <3>2. m.n <= arrived
      BY <2>2 DEF QueueInv
    <3> QED BY <1>0, <3>1, <3>2
  <2>5. \A d \in Chains : \A k \in DOMAIN queue[d] : queue[d][k].n = m.n => d = c /\ k = 1
    <3> SUFFICES ASSUME NEW d \in Chains, NEW k \in DOMAIN queue[d], queue[d][k].n = m.n PROVE d = c /\ k = 1
      OBVIOUS
    <3>1. d = c
      BY <2>2 DEF QueueInv
    <3>2. k \in Nat \ {0} /\ queue[d][k].n \in Nat
      BY <1>0, OnChain
    <3>3. 1 < k => m.n < queue[c][k].n
      BY <2>2, <3>1 DEF QueueInv
    <3> QED BY <3>1, <3>2, <3>3
  <2>6. Spent \subseteq Spent' /\ j.id \in Spent'
    <3>1. Spent \subseteq Spent'
      BY <2>1 DEF Spent
    <3>2. c \in waiting'
      BY <2>1
    <3>3. m.n \in Spent'
      BY <2>1, <2>4, <2>5, <3>2 DEF Spent
    <3> QED BY <2>3, <3>1, <3>3
  <2>7. j.id \notin Spent
    BY <2>1, <2>2, <2>3 DEF Spent
  <2>8. \A x \in pending : x.id # j.id
    <3> SUFFICES ASSUME NEW x \in pending, x.id = j.id PROVE FALSE
      OBVIOUS
    <3>1. x.chain \in waiting /\ x.chain \in Chains /\ queue[x.chain][1].n = m.n /\ queue[x.chain] # << >>
      BY <1>0, <1>1, <2>3
    <3>2. 1 \in DOMAIN queue[x.chain]
      <4>1. queue[x.chain] \in Seq(Messages)
        BY <1>0, <3>1
      <4> QED BY <3>1, <4>1, Popped
    <3> QED BY <2>1, <2>5, <3>1, <3>2
  <2>9. \A y, k : Opens(y, k)' = Opens(y, k)
    BY <2>1 DEF Opens
  <2>10. ASSUME NEW v \in Workers, NEW i \in DOMAIN input'[v]
         PROVE  input'[v][i] = j \/ (i \in DOMAIN input[v] /\ input'[v][i] = input[v][i])
    <3>1. CASE v = rr
      <4>1. input'[v] = Append(input[v], j) /\ input[v] \in Seq(Jobs)
        BY <1>0, <2>1, <3>1
      <4> QED BY <2>3, <2>10, <4>1, Longer
    <3>2. CASE v # rr
      BY <1>0, <2>1, <2>10, <3>2
    <3> QED BY <3>1, <3>2
  <2>11. ASSUME NEW v \in Workers, NEW i \in DOMAIN input'[v]
         PROVE  input'[v][i].id \in Spent' /\ \A x \in pending' : x.id = input'[v][i].id => x = input'[v][i]
    <3>1. CASE input'[v][i] = j
      BY <2>1, <2>6, <2>8, <3>1
    <3>2. CASE i \in DOMAIN input[v] /\ input'[v][i] = input[v][i]
      <4>1. input[v][i].id \in Spent /\ \A x \in pending : x.id = input[v][i].id => x = input[v][i]
        BY <3>2 DEF FlightInv
      <4> QED BY <2>1, <2>6, <2>7, <3>2, <4>1
    <3> QED BY <2>10, <2>11, <3>1, <3>2
  <2>12. ASSUME NEW v \in Workers, NEW i \in DOMAIN output[v]
         PROVE  /\ output[v][i].id \in Spent'
                /\ \A x \in pending' : x.id = output[v][i].id => output[v][i].ok = Opens(x.msg, x.key)
    <3>1. /\ output[v][i].id \in Spent
          /\ \A x \in pending : x.id = output[v][i].id => output[v][i].ok = Opens(x.msg, x.key)
      BY <2>12 DEF FlightInv
    <3> QED BY <2>1, <2>6, <2>7, <3>1
  <2> QED BY <2>1, <2>9, <2>11, <2>12 DEF FlightInv
<1> QED BY <1>4, <1>5, <1>6, <1>7, <1>8, <1>9, <1>10, <1>11, <1>12, <1>13 DEF Next, ChainStep

-----------------------------------------------------------------------------
(* What is delivered after the end of a connection. *)

\* What a late packet of data leaves behind.
LateRest(m) ==
  /\ link[m.peer] # m.conn /\ m.conn <= made[m.peer]
  /\ \A j \in pending : j.chain = ChainOf(m) => j.key # m.conn

\* Neither a new connection nor a new job brings a packet of an old connection back.
LEMMA LateKept ==
  ASSUME TypeOK, LinkInv, NEW m \in Messages, LateRest(m), [Next]_vars,
         UNCHANGED <<link, made>> \/ \A p \in Peers : link'[p] \in {0, link[p], made[p] + 1},
         \A j \in pending' : j \in pending \/ j.key = link[j.chain[1]]
  PROVE  LateRest(m)'
<1>0. m.peer \in Peers /\ m.conn \in Nat \ {0}
  BY Records
<1>1. /\ link[m.peer] # m.conn /\ m.conn <= made[m.peer]
      /\ \A j \in pending : j.chain = ChainOf(m) => j.key # m.conn
  BY DEF LateRest
<1>2. made[m.peer] <= made'[m.peer] /\ made[m.peer] \in Nat /\ made'[m.peer] \in Nat
  BY <1>0, MadeGrows
<1>3. m.conn <= made'[m.peer]
  BY <1>0, <1>1, <1>2
<1>4. link'[m.peer] \in {0, link[m.peer], made[m.peer] + 1}
  BY <1>0
<1>5. link'[m.peer] # m.conn
  BY <1>0, <1>1, <1>2, <1>4
<1>6. ASSUME NEW j \in pending', j.chain = ChainOf(m) PROVE j.key # m.conn
  <2>1. j.chain[1] = m.peer
    BY <1>6 DEF ChainOf
  <2> QED BY <1>1, <1>6, <2>1
<1> QED BY <1>3, <1>5, <1>6 DEF LateRest

\* A late packet of data is the only one of its connection.
LateOnce == \A m, l \in LateData : ChainOf(l) = ChainOf(m) => l = m

\* LateInv in these words.
LEMMA LatePieces ==
  /\ LateInv <=> (pool.dir = "rx" => LateOnce /\ \A m \in LateData : LateRest(m))
  /\ (pool'.dir = "rx" => LateOnce' /\ \A m \in LateData' : LateRest(m)') => LateInv'
BY DEF LateInv, LateRest, LateOnce

\* After the end of a connection only the packet that a worker had is delivered.
LEMMA LateStep ==
  TypeOK /\ LinkInv /\ QueueInv /\ PendInv /\ FlightInv /\ LateInv /\ [Next]_vars => LateInv'
<1> SUFFICES ASSUME TypeOK, LinkInv, QueueInv, PendInv, FlightInv, LateInv, [Next]_vars, pool'.dir = "rx"
             PROVE  LateOnce' /\ \A m \in LateData' : LateRest(m)'
  BY LatePieces
<1>0. /\ queue \in [Chains -> Seq(Messages)] /\ waiting \subseteq Chains /\ pending \subseteq Jobs
      /\ output \in [Workers -> Seq(Results)] /\ late \subseteq Messages
  BY DEF TypeOK
<1>1. LateData \subseteq Messages
  BY <1>0 DEF LateData
<1>2. pool' = pool
  <2>1. ASSUME NEW p \in Peers, NEW k \in Kinds, Connect(p) \/ Disconnect(p) \/ Arrive(p, k) PROVE pool' = pool
    BY <2>1 DEF Connect, Disconnect, Arrive
  <2>2. ASSUME NEW c \in Chains, Keyless(c) \/ Synchronous(c) \/ Submit(c) PROVE pool' = pool
    BY <2>2 DEF Keyless, Synchronous, Submit
  <2>3. ASSUME NEW w \in Workers, Work(w) \/ Result(w) \/ Crash(w) \/ Exit(w) PROVE pool' = pool
    BY <2>3 DEF Work, Result, Crash, Exit
  <2>4. Stop \/ UNCHANGED vars => pool' = pool
    BY DEF Stop, vars
  <2>5. \E k \in Kinds : TRUE
    BY DEF Kinds
  <2> QED BY <2>1, <2>2, <2>3, <2>4, <2>5 DEF Next, ChainStep
<1>3. LateOnce /\ \A m \in LateData : LateRest(m)
  BY <1>2, LatePieces
<1>4. ASSUME UNCHANGED <<link, made>> \/ \A p \in Peers : link'[p] \in {0, link[p], made[p] + 1},
             \A j \in pending' : j \in pending \/ j.key = link[j.chain[1]],
             NEW m \in LateData
      PROVE  LateRest(m)'
  BY <1>1, <1>3, <1>4, LateKept
<1>5. ASSUME UNCHANGED <<link, made>> \/ \A p \in Peers : link'[p] \in {0, link[p], made[p] + 1},
             \A j \in pending' : j \in pending \/ j.key = link[j.chain[1]],
             LateData' = LateData
      PROVE  LateOnce' /\ \A m \in LateData' : LateRest(m)'
  BY <1>3, <1>4, <1>5 DEF LateOnce
<1>6. late' = late => LateData' = LateData
  BY DEF LateData
<1>7. ASSUME NEW p \in Peers, Connect(p) \/ Disconnect(p) PROVE LateOnce' /\ \A m \in LateData' : LateRest(m)'
  <2>1. pending' = pending /\ late' = late
    BY <1>7 DEF Connect, Disconnect
  <2>2. \A q \in Peers : link'[q] \in {0, link[q], made[q] + 1}
    BY <1>7 DEF Connect, Disconnect, TypeOK
  <2> QED BY <1>5, <1>6, <2>1, <2>2
<1>8. ASSUME NEW p \in Peers, NEW k \in Kinds, Arrive(p, k) PROVE LateOnce' /\ \A m \in LateData' : LateRest(m)'
  <2>1. UNCHANGED <<link, made, pending>>
    BY <1>8 DEF Arrive
  <2>2. late' = late
    <3>1. ~(pool.dir = "tx" /\ ~alive)
      BY <1>2
    <3> QED BY <1>8, <3>1 DEF Arrive
  <2> QED BY <1>5, <1>6, <2>1, <2>2
<1>9. ASSUME NEW c \in Chains, Keyless(c) PROVE LateOnce' /\ \A m \in LateData' : LateRest(m)'
  BY <1>5, <1>6, <1>9 DEF Keyless, nodeVars
<1>10. ASSUME NEW c \in Chains, Synchronous(c) PROVE LateOnce' /\ \A m \in LateData' : LateRest(m)'
  <2> DEFINE x == Head(queue[c])
  <2>1. queue[c] # << >> /\ Settle(x, Opens(x, session[c[1]])) /\ UNCHANGED <<link, made, pending>>
    BY <1>10 DEF Synchronous, Ready, nodeVars
  <2>2. x = queue[c][1] /\ 1 \in DOMAIN queue[c]
    BY <1>0, <2>1, Popped
  <2> HIDE DEF x
  <2>3. ChainOf(x) = c
    BY <2>2 DEF QueueInv
  <2>4. x.peer = c[1] /\ c[1] \in Peers
    BY <2>3, ChainFacts DEF ChainOf
  <2>5. session[c[1]] = link[x.peer]
    BY <2>4 DEF LinkInv
  <2>6. late' = late \/ (late' = late \cup {x} /\ link[x.peer] # x.conn /\ Opens(x, session[c[1]]))
    BY <2>1, OpensType, SettleIs
  <2>7. x.kind = "data" => late' = late
    BY <1>2, <2>5, <2>6 DEF Opens
  <2>8. LateData' = LateData
    BY <2>6, <2>7 DEF LateData
  <2> QED BY <1>5, <2>1, <2>8
<1>11. ASSUME NEW c \in Chains, Submit(c) PROVE LateOnce' /\ \A m \in LateData' : LateRest(m)'
  <2> DEFINE m == Head(queue[c])
  <2> DEFINE j == [id |-> m.n, chain |-> c, msg |-> m, key |-> session[c[1]]]
  <2>1. pending' = pending \cup {j} /\ UNCHANGED <<link, made, late>>
    BY <1>11 DEF Submit, nodeVars
  <2>2. j.key = session[c[1]] /\ j.chain = c
    OBVIOUS
  <2> HIDE DEF j
  <2>3. session[c[1]] = link[c[1]]
    BY ChainFacts DEF LinkInv
  <2>4. \A i \in pending' : i \in pending \/ i.key = link[i.chain[1]]
    BY <2>1, <2>2, <2>3
  <2> QED BY <1>5, <1>6, <2>1, <2>4
<1>12. ASSUME NEW w \in Workers, Work(w) \/ Crash(w) PROVE LateOnce' /\ \A m \in LateData' : LateRest(m)'
  <2>1. UNCHANGED <<link, made, pending, late>>
    BY <1>12 DEF Work, Crash, nodeVars
  <2> QED BY <1>5, <1>6, <2>1
<1>13. ASSUME NEW w \in Workers, Exit(w) PROVE LateOnce' /\ \A m \in LateData' : LateRest(m)'
  <2>1. UNCHANGED <<link, made, late>> /\ pending' = {}
    BY <1>13 DEF Exit, FlushPending, nodeVars
  <2> QED BY <1>5, <1>6, <2>1
<1>14. CASE Stop
  <2>1. late' = late /\ pending' = {} /\ \A p \in Peers : link'[p] = 0
    BY <1>14 DEF Stop, FlushPending
  <2> QED BY <1>5, <1>6, <2>1
<1>15. CASE UNCHANGED vars
  <2>1. UNCHANGED <<link, made, pending, late>>
    BY <1>15 DEF vars, nodeVars
  <2> QED BY <1>5, <1>6, <2>1
<1>16. ASSUME NEW w \in Workers, Result(w) PROVE LateOnce' /\ \A m \in LateData' : LateRest(m)'
  <2> DEFINE r == Head(output[w])
  <2>1. output[w] # << >> /\ UNCHANGED <<link, made>>
    BY <1>16 DEF Result, nodeVars
  <2>2. CASE UNCHANGED <<pending, queue, waiting, done, late>>
    BY <1>5, <1>6, <2>1, <2>2
  <2>3. r = output[w][1] /\ 1 \in DOMAIN output[w] /\ r \in Results
    BY <1>0, <2>1, Popped
  <2>4. ASSUME NEW j \in pending, j.id = r.id, pending' = {i \in pending : i.id # r.id},
               Settle(j.msg, r.ok)
        PROVE  LateOnce' /\ \A m \in LateData' : LateRest(m)'
    <3> HIDE DEF r
    <3> DEFINE x == j.msg
    <3>1. /\ j.chain \in waiting /\ j.chain \in Chains /\ x = queue[j.chain][1] /\ x.kind = "data"
          /\ queue[j.chain] # << >> /\ x \in Messages
      BY <1>0, Records DEF PendInv
    <3>2. 1 \in DOMAIN queue[j.chain]
      <4>1. queue[j.chain] \in Seq(Messages)
        BY <1>0, <3>1
      <4> QED BY <3>1, <4>1, Popped
    <3>3. ChainOf(x) = j.chain /\ j.chain[2] <= made[j.chain[1]]
      BY <3>1, <3>2 DEF QueueInv
    <3>4. j.chain[1] = x.peer /\ j.chain[2] = x.conn
      BY <3>3 DEF ChainOf
    <3>5. r.ok = Opens(x, j.key) /\ r.ok \in BOOLEAN
      <4>1. r.ok \in BOOLEAN
        BY <2>3, Records
      <4>2. output[w][1].ok = Opens(j.msg, j.key)
        BY <2>3, <2>4 DEF FlightInv
      <4> QED BY <2>3, <4>1, <4>2
    <3>6. late' = late \/ (late' = late \cup {x} /\ link[x.peer] # x.conn /\ r.ok)
      BY <2>4, <3>5, SettleIs
    <3>7. \A i \in pending' : i \in pending /\ i.chain # j.chain
      BY <2>4 DEF PendInv
    <3>8. CASE late' = late
      BY <1>5, <1>6, <2>1, <3>7, <3>8
    <3>9. CASE late' = late \cup {x} /\ link[x.peer] # x.conn /\ r.ok
      <4>1. j.key = x.conn
        BY <1>2, <3>1, <3>5, <3>9 DEF Opens
      <4>2. LateRest(x)'
        BY <2>1, <3>3, <3>4, <3>7, <3>9 DEF LateRest
      <4>3. \A m \in LateData : LateRest(m)'
        BY <1>4, <2>1, <3>7
      <4>4. LateData' = LateData \cup {x}
        BY <3>1, <3>9 DEF LateData
      <4>5. \A m \in LateData : ChainOf(m) # ChainOf(x)
        <5> SUFFICES ASSUME NEW m \in LateData, ChainOf(m) = ChainOf(x) PROVE FALSE
          OBVIOUS
        <5>1. m.conn = x.conn
          BY DEF ChainOf
        <5>2. j.key # m.conn
          BY <1>3, <3>3 DEF LateRest
        <5> QED BY <4>1, <5>1, <5>2
      <4> HIDE DEF x
      <4>6. LateOnce'
        BY <1>3, <4>4, <4>5 DEF LateOnce
      <4>7. \A m \in LateData' : LateRest(m)'
        BY <4>2, <4>3, <4>4
      <4> QED BY <4>6, <4>7
    <3> QED BY <3>6, <3>8, <3>9
  <2> QED BY <1>16, <2>2, <2>4, ResultIs
<1> QED BY <1>7, <1>8, <1>9, <1>10, <1>11, <1>12, <1>13, <1>14, <1>15, <1>16 DEF Next, ChainStep

-----------------------------------------------------------------------------
\* Nothing has been connected, queued or delivered at first.
LEMMA PipeInit == Init => PipeInv
<1> SUFFICES ASSUME Init PROVE PipeInv
  OBVIOUS
<1>1. IsFiniteSet({}) /\ Cardinality({}) = 0
  BY FS_EmptySet
<1>2. TypeOK
  <2>1. pool.limit \in Nat
    BY DEF Init
  <2>2. Cardinality(pending) <= pool.limit
    BY <1>1, <2>1 DEF Init
  <2>3. 0 \in Workers
    BY DEF Workers
  <2> QED BY <2>2, <2>3 DEF Init, TypeOK
<1>3. LinkInv /\ PendInv
  BY <1>1 DEF Init, LinkInv, PendInv
<1>4. QueueInv /\ DoneInv /\ InOrder /\ FlightInv
  BY DEF Init, QueueInv, DoneInv, InOrder, FlightInv
<1>5. DirectInv /\ LateInv
  BY DEF Init, DirectInv, LateInv, LateData
<1> QED BY <1>2, <1>3, <1>4, <1>5 DEF PipeInv

\* The invariant is inductive.
LEMMA PipeStep == PipeInv /\ [Next]_vars => PipeInv'
BY TypeStep, LinkStep, QueueStep, DoneStep, DirectStep, PendStep, FlightStep, LateStep DEF PipeInv

\* Late packets of data of one connection are one at most.
LEMMA LateIsOne == TypeOK /\ LateInv => OneLate
<1> SUFFICES ASSUME TypeOK, LateInv, NEW c \in Chains, pool.dir = "rx"
             PROVE  Cardinality({m \in late : m.kind = "data" /\ <<m.peer, m.conn>> = c}) <= 1
  BY DEF OneLate
<1> DEFINE L == {m \in late : m.kind = "data" /\ <<m.peer, m.conn>> = c}
<1>1. \A m, l \in L : m = l
  BY DEF LateInv, LateData, ChainOf
<1> HIDE DEF L
<1>2. CASE L = {}
  BY <1>2, FS_EmptySet DEF L
<1>3. CASE L # {}
  <2>1. PICK m \in L : TRUE
    BY <1>3
  <2>2. L = {m}
    BY <1>1, <2>1
  <2>3. Cardinality(L) = 1
    BY <2>2, FS_Singleton
  <2> QED BY <2>3 DEF L
<1> QED BY <1>2, <1>3

\* Whichever workers have the packets of a connection, whenever a worker dies, is replaced, answers
\* late or has no room, and however often the peer connects again: the promise chains deliver, or
\* send, the messages of each connection in their order and at most once; the pending jobs stay
\* within the limit of the pool; and of a connection that is over at most one more packet is
\* delivered.
THEOREM DeliveredInTurn == Spec => []OrderInv
<1>1. Init => PipeInv
  BY PipeInit
<1>2. PipeInv /\ [Next]_vars => PipeInv'
  BY PipeStep
<1>3. PipeInv => OrderInv
  BY LateIsOne DEF PipeInv, OrderInv
<1> QED BY <1>1, <1>2, <1>3, PTL DEF Spec
=============================================================================

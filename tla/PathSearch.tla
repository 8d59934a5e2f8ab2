------------------------------ MODULE PathSearch ------------------------------
(***************************************************************************)
(* The search of src/core/graph.js for the path of least latency:          *)
(* findPathToNearestExitWeighted (any exit is a goal) and                  *)
(* findShortestPathWeighted (one node is), which are the same loop.  A     *)
(* step is one turn of the while loop.  The graph, its latencies, the      *)
(* goals and the nodes to be left out are inputs, chosen at the start.     *)
(***************************************************************************)
EXTENDS Integers, Sequences, FiniteSets, SequencesExt

CONSTANTS
  Nodes, From,     \* the graph's nodes, and the one the search starts from
  Latencies,       \* the latencies an edge may have; 0 stands for no metric
  DEFAULT_LATENCY,
  GoalSets,        \* the sets of goals, and
  ExcludedSets     \* of excluded nodes, to be tried

ASSUME SearchAssumption ==
  /\ IsFiniteSet(Nodes) /\ From \in Nodes
  /\ Latencies \subseteq Nat /\ DEFAULT_LATENCY \in Nat \ {0}
  /\ GoalSets \subseteq SUBSET (Nodes \ {From}) /\ ExcludedSets \subseteq SUBSET Nodes

VARIABLES
  latency,         \* pair {a, b} of neighbours -> latency
  goals, excluded,
  dist, prev,      \* node -> cost and predecessor, for those found so far
  heap,            \* entries [cost, node] in the order of their insertion
  result           \* the path and its cost, or why there is none yet

given == <<latency, goals, excluded>>
searchVars == <<given, dist, prev, heap, result>>

Searching == [path |-> << >>, cost |-> -1]
NotFound  == [path |-> << >>, cost |-> -2]

\* An edge without a positive latency counts as DEFAULT_LATENCY.
Weight(a, b) == IF latency[{a, b}] > 0 THEN latency[{a, b}] ELSE DEFAULT_LATENCY
Adjacent(a)  == {b \in Nodes : {a, b} \in DOMAIN latency}

\* heap.sort, which is stable, and shift: the first of the cheapest entries.
First(h)    == 1                                        \* mutant: not sorted
Cheapest(h) ==
  CHOOSE i \in DOMAIN h : \A j \in DOMAIN h :
    h[i].cost < h[j].cost \/ (h[i].cost = h[j].cost /\ i <= j)

\* The path that prev leads back along.
Walks == UNION {[1..k -> Nodes] : k \in 1..Cardinality(Nodes)}
LedBack(p, n) ==
  /\ Last(p) = n /\ p[1] \notin DOMAIN prev
  /\ \A j \in 2..Len(p) : p[j] \in DOMAIN prev /\ p[j - 1] = prev[p[j]]
PathTo(n) == CHOOSE p \in Walks : LedBack(p, n)

\* The neighbours that are reached more cheaply over cur than before.
Improved(cur, cost) ==
  {n \in Adjacent(cur) \ excluded :
     n \notin DOMAIN dist \/ cost + Weight(cur, n) < dist[n]}

\* An entry for cur that is not the goal: stale, or cur's neighbours are looked at.
Expand(cur, cost, rest) ==
  LET new == Improved(cur, cost)
      via(n) == cost + Weight(cur, n)
  IN IF cost > dist[cur]
     THEN heap' = rest /\ UNCHANGED <<dist, prev>>
     ELSE /\ dist' = [n \in DOMAIN dist \cup new |-> IF n \in new THEN via(n) ELSE dist[n]]
          /\ prev' = [n \in DOMAIN prev \cup new |-> IF n \in new THEN cur ELSE prev[n]]
          /\ \E order \in SetToSeqs(new) :
               heap' = rest \o [j \in DOMAIN order |-> [cost |-> via(order[j]), node |-> order[j]]]

Step ==
  /\ result = Searching /\ heap # << >>
  /\ LET i    == Cheapest(heap)
         cost == heap[i].cost
         cur  == heap[i].node
         rest == RemoveAt(heap, i)
     IN IF cur \in goals
        THEN /\ result' = [path |-> PathTo(cur), cost |-> cost]
             /\ heap' = rest /\ UNCHANGED <<dist, prev>>
        ELSE Expand(cur, cost, rest) /\ UNCHANGED result
  /\ UNCHANGED given

\* The loop is over: there is no path.
GiveUp ==
  /\ result = Searching /\ heap = << >>
  /\ result' = NotFound
  /\ UNCHANGED <<given, dist, prev, heap>>

Done == result # Searching /\ UNCHANGED searchVars

Pairs == {{a, b} : a, b \in Nodes} \ {{a} : a \in Nodes}

SearchInit ==
  /\ \E edges \in SUBSET Pairs : latency \in [edges -> Latencies]
  /\ goals \in GoalSets /\ excluded \in ExcludedSets
  /\ dist = [n \in {From} |-> 0]
  /\ prev = [n \in {} |-> From]
  /\ heap = <<[cost |-> 0, node |-> From]>>
  /\ result = Searching

SearchNext == Step \/ GiveUp \/ Done

SearchSpec == SearchInit /\ [][SearchNext]_searchVars

-----------------------------------------------------------------------------
(* Properties *)

\* The reference: every path without a repeated node from From to a goal, over
\* nodes that are not excluded, and what it costs.
Paths ==
  {p \in Walks : /\ p[1] = From /\ Last(p) \in goals /\ IsInjective(p)
                 /\ \A j \in 2..Len(p) : p[j] \notin excluded /\ {p[j - 1], p[j]} \in DOMAIN latency}
Cost(p) ==
  LET upTo[j \in 1..Len(p)] == IF j = 1 THEN 0 ELSE upTo[j - 1] + Weight(p[j - 1], p[j])
  IN upTo[Len(p)]

\* The search returns a path to a goal that none is cheaper than, with its cost,
\* and gives up only if there is none.
Optimal ==
  /\ result = NotFound => Paths = {}
  /\ result.cost >= 0 => /\ result.path \in Paths
                         /\ result.cost = Cost(result.path)
                         /\ \A p \in Paths : result.cost <= Cost(p)
=============================================================================

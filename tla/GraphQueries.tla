---------------------------- MODULE GraphQueries ----------------------------
(***************************************************************************)
(* What KawnGraph computes from a graph: who depends on a node (`affected`, *)
(* `reverseReachable`), how two nodes connect (`shortestPath`,             *)
(* `flowBetween`), and what a change set touches (`gitChangedFiles`,        *)
(* `analyzeChangeImpact`, `scoreRisks`).                                    *)
(*                                                                         *)
(* A node is a number; its order is the order of node ids.  An edge is its  *)
(* id: type, source and target.  What the scanners know of a node is in    *)
(* Info.  The algorithms walk arrays in the order of the serialized graph,  *)
(* so they are folds over sorted sequences here.                           *)
(***************************************************************************)
EXTENDS Naturals, Sequences, FiniteSets, SequencesExt

CONSTANTS
  Ids,        \* node ids a scan can emit
  Info,       \* [Ids -> what is known of the node]
  NoNode,     \* undefined, null
  MaxFlow     \* MAX_FLOW_NODES

ASSUME FlowAssumption == MaxFlow \in Nat \ {0}

ASSUME IdsAssumption == Ids \subseteq Nat /\ IsFiniteSet(Ids) /\ NoNode \notin Ids

\* The edge types, in alphabetical order.
EdgeTypes == <<"calls", "defines", "depends_on", "imports", "mentions",
               "references", "tests">>

TypeRank(t) == CHOOSE i \in DOMAIN EdgeTypes : EdgeTypes[i] = t

Edge == [type : ToSet(EdgeTypes), from : Ids, to : Ids]

ASSUME NoEdgeAssumption == NoNode \notin Edge

SortBy(S, Before(_, _)) ==
  [i \in 1..Cardinality(S) |->
     CHOOSE x \in S : Cardinality({y \in S : Before(y, x)}) = i - 1]

\* graph.json holds nodes and edges sorted by id.
Sorted(S) == SortBy(S, <)
EdgeBefore(d, e) == \/ TypeRank(d.type) < TypeRank(e.type)
                    \/ d.type = e.type /\ d.from < e.from
                    \/ d.type = e.type /\ d.from = e.from /\ d.to < e.to
SortedEdges(S) == SortBy(S, EdgeBefore)

EdgesOf(g) == ToSet(g.edges)

First(seq, Test(_)) == LET hits == {i \in DOMAIN seq : Test(seq[i])}
                       IN IF hits = {} THEN NoNode
                          ELSE seq[CHOOSE i \in hits : \A j \in hits : i <= j]

-----------------------------------------------------------------------------
(* Reverse reachability                                                    *)

DEPENDENCY_EDGES == {"calls", "imports", "references", "depends_on"}

\* incoming.get(id): who depends on id, by source and then type.
Incoming(g, id) ==
  SortBy({e \in EdgesOf(g) : e.to = id /\ e.type \in DEPENDENCY_EDGES},
         LAMBDA d, e : \/ d.from < e.from
                       \/ d.from = e.from /\ TypeRank(d.type) < TypeRank(e.type))

\* A fault: the cap is looked at only after the node has been taken.
MeetOneMore(g, maxNodes, depth, acc, dep) ==
  IF acc.truncated \/ dep.from \in acc.seen \/ dep.from \notin g.ids THEN acc
  ELSE [acc EXCEPT !.seen = @ \cup {dep.from},
                   !.out = Append(@, [id |-> dep.from, depth |-> depth, via |-> dep.type]),
                   !.next = @ \cup {dep.from},
                   !.truncated = Len(acc.out) + 1 >= maxNodes]

\* One dependent, met from a node of the frontier.
Meet(g, maxNodes, depth, acc, dep) ==
  IF acc.truncated \/ dep.from \in acc.seen THEN acc
  ELSE IF dep.from \notin g.ids THEN [acc EXCEPT !.seen = @ \cup {dep.from}]
  ELSE IF Len(acc.out) >= maxNodes THEN [acc EXCEPT !.truncated = TRUE]
  ELSE [acc EXCEPT !.seen = @ \cup {dep.from},
                   !.out = Append(@, [id |-> dep.from, depth |-> depth, via |-> dep.type]),
                   !.next = @ \cup {dep.from}]

\* The dependents of one node of the frontier, in their order.
MeetAll(g, maxNodes, depth, acc, id) ==
  LET deps == Incoming(g, id)
      met[i \in 0..Len(deps)] ==
        IF i = 0 THEN acc ELSE Meet(g, maxNodes, depth, met[i - 1], deps[i])
  IN met[Len(deps)]

\* One layer: the frontier is sorted, and what is met is the next one.
Layer(g, maxNodes, depth, acc) ==
  LET frontier == Sorted(acc.next)
      done[i \in 0..Len(frontier)] ==
        IF i = 0 THEN [acc EXCEPT !.next = {}]
        ELSE MeetAll(g, maxNodes, depth, done[i - 1], frontier[i])
  IN done[Len(frontier)]

\* Breadth first, layer by layer.
ReverseReachable(g, seeds, maxDepth, maxNodes) ==
  LET layer[d \in 0..maxDepth] ==
        IF d = 0 THEN [out |-> <<>>, seen |-> seeds, next |-> seeds, truncated |-> FALSE]
        ELSE Layer(g, maxNodes, d, layer[d - 1])
  IN [nodes |-> layer[maxDepth].out, truncated |-> layer[maxDepth].truncated]

\* A query names a node by its id, by what follows the # in its id, or by
\* its label.
Matches(n, q) == n = q \/ Info[n].label = q \/ Info[n].tail = q

Affected(g, q, maxDepth) ==
  ReverseReachable(g, {n \in g.ids : Matches(n, q)}, maxDepth, Cardinality(Ids)).nodes

-----------------------------------------------------------------------------
(* Paths                                                                   *)

ResolveOne(g, q) ==
  LET list == Sorted(g.ids)
      byId    == First(list, LAMBDA n : n = q)
      byTail  == First(list, LAMBDA n : Info[n].tail = q)
      byLabel == First(list, LAMBDA n : Info[n].label = q)
  IN IF byId # NoNode THEN byId ELSE IF byTail # NoNode THEN byTail ELSE byLabel

\* Both directions of every edge, in the order link() sees them: <<node, type>>.
Linked(e, id) == (IF e.from = id THEN <<<<e.to, e.type>>>> ELSE <<>>)
                   \o (IF e.to = id THEN <<<<e.from, e.type>>>> ELSE <<>>)

Neighbors(g, id) ==
  LET linked[i \in 0..Len(g.edges)] ==
        IF i = 0 THEN <<>> ELSE linked[i - 1] \o Linked(g.edges[i], id)
  IN linked[Len(g.edges)]

\* A neighbour that has not been met joins the queue, with the node it was met
\* from (prev).
Join(queue, current, nb) ==
  IF \E i \in DOMAIN queue : queue[i].id = nb[1] THEN queue
  ELSE Append(queue, [id |-> nb[1], prev |-> current])

\* A node has its turn: all its neighbours.
Expanded(g, queue, current) ==
  LET nbs == Neighbors(g, current)
      joined[i \in 0..Len(nbs)] == IF i = 0 THEN queue ELSE Join(joined[i - 1], current, nbs[i])
  IN joined[Len(nbs)]

\* A fault: the search always goes on from the node met last.
SearchDeep(g, from, to) ==
  LET round[k \in 0..Cardinality(Ids)] ==
        IF k = 0 THEN <<[id |-> from, prev |-> NoNode]>>
        ELSE Expanded(g, round[k - 1], Last(round[k - 1]).id)
  IN round[Cardinality(Ids)]

\* The k-th turn, unless there is nobody left or `to` has had its turn.
Turn(g, queue, k, to) ==
  IF k > Len(queue) \/ \E j \in 1..k : j <= Len(queue) /\ queue[j].id = to THEN queue
  ELSE Expanded(g, queue, queue[k].id)

Search(g, from, to) ==
  LET round[k \in 0..Cardinality(Ids)] ==
        IF k = 0 THEN <<[id |-> from, prev |-> NoNode]>> ELSE Turn(g, round[k - 1], k, to)
  IN round[Cardinality(Ids)]

\* From the cursor to the node it was met from; what is not in the graph is
\* left out of the path.
Climb(g, queue, way) ==
  IF way.cursor = NoNode THEN way
  ELSE [cursor |-> First(queue, LAMBDA q : q.id = way.cursor).prev,
        path   |-> IF way.cursor \in g.ids THEN <<way.cursor>> \o way.path ELSE way.path]

\* The nodes that lead to `to`, from prev to prev; none if `to` was not met.
Trail(g, queue, to) ==
  LET climbed[k \in 0..Len(queue)] ==
        IF k = 0 THEN [cursor |-> to, path |-> <<>>] ELSE Climb(g, queue, climbed[k - 1])
  IN IF \A i \in DOMAIN queue : queue[i].id # to THEN <<>> ELSE climbed[Len(queue)].path

PathBetween(g, from, to) ==
  IF from = NoNode \/ to = NoNode THEN <<>> ELSE Trail(g, Search(g, from, to), to)

\* The nodes from `from` to `to`, or the empty sequence when there is no way.
ShortestPath(g, fromQuery, toQuery) ==
  PathBetween(g, ResolveOne(g, fromQuery), ResolveOne(g, toQuery))

\* Math.floor(maxNodes) || MAX_FLOW_NODES, no less than 2 and no more than
\* MAX_FLOW_NODES.
FlowCap(maxNodes) == IF maxNodes = 0 \/ maxNodes > MaxFlow THEN MaxFlow
                     ELSE IF maxNodes < 2 THEN 2 ELSE maxNodes

\* The first edge from a to b in the order of the graph.
EdgeByPair(g, a, b) == First(g.edges, LAMBDA e : e.from = a /\ e.to = b)

FlowStep(g, a, b) ==
  LET forward == EdgeByPair(g, a, b)
  IN [from |-> a, to |-> b, reversed |-> forward = NoNode,
      edge |-> IF forward # NoNode THEN forward ELSE EdgeByPair(g, b, a)]

Steps(g, nodes) ==
  [i \in 1..(IF nodes = <<>> THEN 0 ELSE Len(nodes) - 1) |-> FlowStep(g, nodes[i], nodes[i + 1])]

FlowAlong(g, path, cap) ==
  LET nodes == SubSeq(path, 1, IF Len(path) < cap THEN Len(path) ELSE cap)
  IN [found |-> path # <<>>, nodes |-> nodes, steps |-> Steps(g, nodes)]

FlowBetween(g, fromQuery, toQuery, maxNodes) ==
  FlowAlong(g, ShortestPath(g, fromQuery, toQuery), FlowCap(maxNodes))
=============================================================================

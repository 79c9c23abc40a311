----------------------------- MODULE GraphFilter -----------------------------
(***************************************************************************)
(* What the two maps of the Studio draw of a graph: the filters, the       *)
(* neighbourhood of the node in focus, and the fair sample that keeps      *)
(* every layer on the 2D map when the graph is larger than the cap.  Nodes *)
(* are numbers in the order of their ids; an infinite cap is NoCap.        *)
(***************************************************************************)
EXTENDS Integers, FiniteSets, FiniteSetsExt, SequencesExt

CONSTANTS
  GraphNodes,       \* node |-> [layer, type, terms]: terms are the searches that match it
  GraphEdges,       \* records [from, to, type]
  LAYER_ORDER,      \* the layers, in column order
  Alphabet,         \* the layers, in alphabetical order
  MIN_PER_LAYER,    \* what a layer keeps of a sample
  NoCap

\* Nodes have ids of their own, every layer has a name in the alphabet, and a
\* layer that is there keeps at least one node.
ASSUME GraphAssumption ==
  /\ DOMAIN GraphNodes \subseteq Nat /\ IsFiniteSet(DOMAIN GraphNodes)
  /\ IsFiniteSet(GraphEdges)
  /\ \A n \in DOMAIN GraphNodes : GraphNodes[n].layer \in ToSet(LAYER_ORDER)
  /\ ToSet(LAYER_ORDER) \subseteq ToSet(Alphabet) /\ Alphabet \in Seq(ToSet(Alphabet))
  /\ \A i, j \in DOMAIN Alphabet : Alphabet[i] = Alphabet[j] => i = j
  /\ MIN_PER_LAYER \in Nat \ {0}
  /\ NoCap \notin Nat

NoSearch == ""
NoFocus == 0

LayerNames == ToSet(LAYER_ORDER)

\* The nodes in one step of `s`, both ways.
Adjacent(s) == UNION {{e.from, e.to} : e \in {x \in GraphEdges : x.from \in s \/ x.to \in s}}

neighborhood(start, depth) ==
  LET within[d \in 0..depth] == IF d = 0 THEN {start}
                                ELSE LET near == within[d - 1] IN near \cup Adjacent(near)
  IN  within[depth]

matchesSearch(n, needle) == needle = NoSearch \/ needle \in GraphNodes[n].terms

\* `f` holds the hidden layers and types, hideIsolated, the search, the focus
\* and its depth.  A focus shows its neighbourhood whatever the search is.
filterGraph(f) ==
  LET scope == IF f.focus = NoFocus THEN DOMAIN GraphNodes
               ELSE neighborhood(f.focus, Max({1, f.depth})) \cap DOMAIN GraphNodes
      kept == {n \in scope : /\ GraphNodes[n].layer \notin f.hiddenLayers
                             /\ GraphNodes[n].type \notin f.hiddenNodeTypes
                             /\ f.focus # NoFocus \/ matchesSearch(n, f.search)}
      edges == {e \in GraphEdges : /\ e.from \in kept /\ e.to \in kept
                                   /\ e.type \notin f.hiddenEdgeTypes}
      connected == UNION {{e.from, e.to} : e \in edges}
  IN  [nodes |-> IF f.hideIsolated THEN kept \cap connected ELSE kept, edges |-> edges]

degree(n, edges) == Cardinality({e \in edges : e.from = n})
                    + Cardinality({e \in edges : e.to = n})

-----------------------------------------------------------------------------
(* The fair sample.                                                        *)

OfLayer(nodes, l) == {n \in nodes : GraphNodes[n].layer = l}

\* The `k` nodes of a layer that have the most edges; of equals the first ids.
Foremost(nodes, edges, k) ==
  LET Before(a, b) == LET da == degree(a, edges)
                          db == degree(b, edges)
                      IN  da > db \/ (da = db /\ a < b)
  IN  {n \in nodes : Cardinality({m \in nodes : m # n /\ Before(m, n)}) < k}

\* Math.round: halves go up.
Round(a, b) == (2 * a + b) \div (2 * b)

Floor(size) == Min({MIN_PER_LAYER, size})

Share(size, cap, total) == Min({size, Max({Floor(size), Round(cap * size, total)})})

\* What the layers of `f` have together.
Sum(f) == Cardinality(UNION {{l} \X (1..f[l]) : l \in DOMAIN f})

\* The layers in order: the largest first, those of one size by the alphabet.
Earlier(l, m) == \E i, j \in DOMAIN Alphabet : i < j /\ Alphabet[i] = l /\ Alphabet[j] = m

Larger(size, l, m) == size[l] > size[m] \/ (size[l] = size[m] /\ Earlier(l, m))

BySize(size) ==
  [i \in 1..Cardinality(DOMAIN size) |->
     CHOOSE l \in DOMAIN size : Cardinality({m \in DOMAIN size : Larger(size, m, l)}) = i - 1]

\* One layer's turn in the reconciliation: it takes or gives one, if it can.
Concede(acc, l, size) ==
  IF acc.diff > 0 /\ acc.alloc[l] < size[l]
  THEN [alloc |-> [acc.alloc EXCEPT ![l] = @ + 1], diff |-> acc.diff - 1]
  ELSE IF acc.diff < 0 /\ acc.alloc[l] > Floor(size[l])
  THEN [alloc |-> [acc.alloc EXCEPT ![l] = @ - 1], diff |-> acc.diff + 1]
  ELSE acc

\* A turn for every layer.
Pass(acc, size) ==
  LET after[i \in 0..Cardinality(DOMAIN size)] ==
        IF i = 0 THEN acc ELSE Concede(after[i - 1], BySize(size)[i], size)
  IN  after[Cardinality(DOMAIN size)]

Proportional(size, cap) ==
  LET want == [l \in DOMAIN size |-> Share(size[l], cap, Sum(size))]
  IN  [alloc |-> want, diff |-> cap - Sum(want)]

\* A fault of the next: one turn for every layer, and no more.
AllocationInOneRound(size, cap) == Pass(Proportional(size, cap), size).alloc

\* Round after round, until the cap is met or every layer is at its floor or its
\* ceiling; a round that changes nothing is the last, and there is less to make
\* up for than there are nodes.
Allocation(size, cap) ==
  LET round[r \in 0..Sum(size)] == IF r = 0 THEN Proportional(size, cap)
                                   ELSE Pass(round[r - 1], size)
  IN  round[Sum(size)].alloc

fairSampleByLayer(nodes, edges, cap) ==
  IF cap = NoCap \/ Cardinality(nodes) <= cap THEN nodes
  ELSE LET present == {GraphNodes[n].layer : n \in nodes}
           alloc == Allocation([l \in present |-> Cardinality(OfLayer(nodes, l))], cap)
       IN  UNION {Foremost(OfLayer(nodes, l), edges, alloc[l]) : l \in present}

Between(nodes, edges) == {e \in edges : e.from \in nodes /\ e.to \in nodes}

\* The 2D map: the sample, and the edges it leaves both ends of.
MapShown(f, cap) ==
  LET filtered == filterGraph(f)
      sampled == fairSampleByLayer(filtered.nodes, filtered.edges, cap)
  IN  [nodes |-> sampled, edges |-> Between(sampled, filtered.edges)]

layerOrderIndex(l) == CHOOSE i \in DOMAIN LAYER_ORDER : LAYER_ORDER[i] = l

\* The 3D map: in column order up to its budget, whatever layers that leaves out.
UniverseShown(f, cap) ==
  LET filtered == filterGraph(f)
      Before(a, b) == LET la == layerOrderIndex(GraphNodes[a].layer)
                          lb == layerOrderIndex(GraphNodes[b].layer)
                      IN  la < lb \/ (la = lb /\ a < b)
      slice == {n \in filtered.nodes :
                  Cardinality({m \in filtered.nodes : m # n /\ Before(m, n)}) < cap}
  IN  [nodes |-> slice, edges |-> Between(slice, filtered.edges)]
=============================================================================

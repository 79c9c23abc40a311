------------------------------ MODULE StudioMap ------------------------------
(***************************************************************************)
(* The drawing pages of the Studio: the two maps with the sidebar's        *)
(* filters, the focus and the caps, and beside them the canvas of the      *)
(* Impact page, which lays out through the worker.                         *)
(***************************************************************************)
EXTENDS GraphFilter, LayoutWorker

CONSTANTS
  Searches,     \* what is typed into the search field
  RenderLimit,  \* the nodes a map draws at first
  Budget,       \* UNIVERSE_BUDGET
  MaxDepth,     \* the largest neighbourhood (6)
  Focusable     \* bound on the nodes the user opens in the map

ASSUME LimitsAssumption == RenderLimit \in Nat /\ Budget \in Nat

VARIABLES
  filters,      \* the persisted filters, the search and the focus
  map           \* the state of the open map: which, its cap and "Show all"

mapVars == <<filters, map>>
pagesVars == <<mapVars, layoutVars>>

NodeTypeNames == {GraphNodes[n].type : n \in DOMAIN GraphNodes}
EdgeTypeNames == {e.type : e \in GraphEdges}

NoFilters == [hiddenLayers |-> {}, hiddenNodeTypes |-> {}, hiddenEdgeTypes |-> {},
              hideIsolated |-> FALSE, search |-> NoSearch, focus |-> NoFocus, depth |-> 1]

Opened(kind) == [kind |-> kind, cap |-> 0, showAll |-> FALSE]

\* 2D: the render limit, or what "Show more" made of it; 3D: never below the budget.
EffectiveCap ==
  IF map.kind = "2d"
  THEN IF map.showAll THEN NoCap ELSE IF map.cap = 0 THEN RenderLimit ELSE map.cap
  ELSE IF map.cap = 0 THEN Max({RenderLimit, Budget}) ELSE map.cap

Shown == IF map.kind = "2d" THEN MapShown(filters, EffectiveCap)
         ELSE UniverseShown(filters, EffectiveCap)

Capped == Cardinality(Shown.nodes) < Cardinality(filterGraph(filters).nodes)

Flip(s, x) == IF x \in s THEN s \ {x} ELSE s \cup {x}

-----------------------------------------------------------------------------
ToggleLayer(l) ==
  /\ filters' = [filters EXCEPT !.hiddenLayers = Flip(@, l)]
  /\ UNCHANGED map

ToggleNodeType(t) ==
  /\ filters' = [filters EXCEPT !.hiddenNodeTypes = Flip(@, t)]
  /\ UNCHANGED map

ToggleEdgeType(t) ==
  /\ filters' = [filters EXCEPT !.hiddenEdgeTypes = Flip(@, t)]
  /\ UNCHANGED map

ToggleIsolated ==
  /\ filters' = [filters EXCEPT !.hideIsolated = ~@]
  /\ UNCHANGED map

ResetFilters ==
  /\ filters' = [NoFilters EXCEPT !.search = filters.search, !.focus = filters.focus,
                                  !.depth = filters.depth]
  /\ filters' # filters
  /\ UNCHANGED map

Search(q) ==
  /\ filters' = [filters EXCEPT !.search = q]
  /\ UNCHANGED map

\* "Open in graph", from any page; the 2D map is opened anew unless it is open.
OpenInGraph(n) ==
  /\ filters' = [filters EXCEPT !.focus = n,
                                !.depth = IF map.kind = "2d" THEN @ ELSE 1]
  /\ map' = IF map.kind = "2d" THEN map ELSE Opened("2d")

ChangeDepth(d) ==
  /\ filters.focus # NoFocus
  /\ d \in {Max({1, filters.depth - 1}), Min({MaxDepth, filters.depth + 1})}
  /\ filters' = [filters EXCEPT !.depth = d]
  /\ UNCHANGED map

\* "Show more" and "Show all", offered while something is left out.
ShowMore ==
  /\ Capped
  /\ map' = [map EXCEPT !.cap = EffectiveCap + (IF map.kind = "2d" THEN RenderLimit ELSE Budget)]
  /\ UNCHANGED filters

ShowAll ==
  /\ Capped /\ map.kind = "2d"
  /\ map' = [map EXCEPT !.showAll = TRUE]
  /\ UNCHANGED filters

ResetView ==
  /\ filters.focus # NoFocus \/ map # Opened(map.kind)
  /\ map' = Opened(map.kind)
  /\ filters' = [filters EXCEPT !.focus = NoFocus, !.depth = 1]

\* The switch between 2D and 3D: focus and search stay, the page's own state goes.
SwitchMap(kind) ==
  /\ kind # map.kind
  /\ map' = Opened(kind)
  /\ filters' = [filters EXCEPT !.depth = 1]

-----------------------------------------------------------------------------
PagesInit == filters = NoFilters /\ map = Opened("2d") /\ LayoutInit

MapNext ==
  \/ \E l \in LayerNames : ToggleLayer(l)
  \/ \E t \in NodeTypeNames : ToggleNodeType(t)
  \/ \E t \in EdgeTypeNames : ToggleEdgeType(t)
  \/ ToggleIsolated \/ ResetFilters
  \/ \E q \in Searches : Search(q)
  \/ \E n \in Focusable : OpenInGraph(n)
  \/ \E d \in 1..MaxDepth : ChangeDepth(d)
  \/ ShowMore \/ ShowAll \/ ResetView
  \/ \E kind \in {"2d", "3d"} : SwitchMap(kind)

PagesNext == \/ MapNext /\ UNCHANGED layoutVars
             \/ LayoutNext /\ UNCHANGED mapVars

PagesSpec == PagesInit /\ [][PagesNext]_pagesVars

-----------------------------------------------------------------------------
FairSample(f, cap) ==
  LET all == filterGraph(f)
      size(l) == Cardinality(OfLayer(all.nodes, l))
      floors == Sum([l \in LayerNames |-> Floor(size(l))])
      drawn == MapShown(f, cap).nodes
  IN  /\ Cardinality(drawn) = IF cap = NoCap THEN Cardinality(all.nodes)
                              ELSE Min({Cardinality(all.nodes), Max({cap, floors})})
      /\ \A n \in all.nodes :
           \E m \in drawn : /\ GraphNodes[m].layer = GraphNodes[n].layer
                            /\ n \in drawn \/ degree(m, all.edges) >= degree(n, all.edges)
      /\ \A n \in all.nodes \ drawn, m \in drawn :
           GraphNodes[m].layer = GraphNodes[n].layer =>
             degree(m, all.edges) >= degree(n, all.edges)

\* The 2D map of a graph beyond the cap draws exactly as many nodes as the cap
\* allows, unless the layers' minimum asks for more; it leaves no layer out, and
\* leaves out no node that has more edges than one it draws of the same layer
\* (fairSampleByLayer, and its reconciliation above all).
SampleIsFair == map.kind = "2d" => FairSample(filters, EffectiveCap)
=============================================================================

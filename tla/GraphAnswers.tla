---------------------------- MODULE GraphAnswers ----------------------------
(***************************************************************************)
(* The answers KawnGraph gives from a graph, and what they promise, over    *)
(* the graphs that successive scans of a growing repository leave.          *)
(***************************************************************************)
EXTENDS ContextProtocol

CONSTANTS
  Candidates,   \* the edges a scan may come to find
  Tasks,        \* sets of keywords
  Budgets,
  GitReports    \* [entries : what has changed, untracked : paths]

ASSUME CandidatesAssumption == Candidates \subseteq Edge

ASSUME TasksAssumption == (\A task \in Tasks : IsFiniteSet(task)) /\ Budgets \subseteq Int

VARIABLE graph

Init == graph = [ids |-> Ids, edges |-> <<>>]

Rescan(e) == graph' = [graph EXCEPT !.edges = SortedEdges(ToSet(@) \cup {e})]

Next == \E e \in Candidates \ EdgesOf(graph) : Rescan(e)

Spec == Init /\ [][Next]_graph

Small(S) == {T \in SUBSET S : Cardinality(T) \in {1, 2}}

\* Who depends on a seed within k edges, said without a search.
Dependents(seeds, k) ==
  LET ball[i \in 0..k] ==
        IF i = 0 THEN seeds
        ELSE LET near == ball[i - 1]
             IN near \cup {e.from : e \in {d \in EdgesOf(graph) : /\ d.type \in DEPENDENCY_EDGES
                                                                 /\ d.to \in near}}
  IN ball[k]

\* Two nodes with an edge between them, whichever way it points.
Touch(m, n) == \E e \in EdgesOf(graph) : {e.from, e.to} = {m, n}

\* What is at most k edges away when only the nodes of T are gone through.
Around(T, from, k) ==
  LET ball[i \in 0..k] ==
        IF i = 0 THEN from
        ELSE LET near == ball[i - 1]
             IN near \cup {n \in T : \E m \in near : Touch(m, n)}
  IN ball[k]

NoRepeats(seq) == \A i, j \in DOMAIN seq : seq[i] = seq[j] => i = j

(* reverseReachable (reachable.ts:39): each dependent is reported once, at   *)
(* its true distance and by an edge that is there; nothing within the depth  *)
(* is missing unless the result says it was cut off, and it says so exactly  *)
(* when there is more than the cap lets through.                            *)
ReachIsExact ==
  \A seeds \in Small(Ids), depth \in 1..3, cap \in {0, 2, Cardinality(Ids)} :
    \A r \in {ReverseReachable(graph, seeds, depth, cap)} :
    LET all == Dependents(seeds, depth) \ seeds
        found == {r.nodes[i].id : i \in DOMAIN r.nodes}
    IN /\ NoRepeats([i \in DOMAIN r.nodes |-> r.nodes[i].id])
       /\ found \subseteq all
       /\ \A i \in DOMAIN r.nodes :
            LET x == r.nodes[i]
            IN /\ x.id \in Dependents(seeds, x.depth) \ Dependents(seeds, x.depth - 1)
               /\ \E e \in EdgesOf(graph) : /\ e.from = x.id /\ e.type = x.via
                                            /\ e.to \in Dependents(seeds, x.depth - 1)
       /\ IF r.truncated THEN Len(r.nodes) = cap /\ Cardinality(all) > cap ELSE found = all

(* flowBetween (flowBetween.ts:33): a flow is found exactly when the two     *)
(* nodes are connected; it is a shortest way, or the start of one when the   *)
(* cap cuts it, and every step shows an edge of the graph between its two    *)
(* nodes and says rightly whether it was followed backwards.                *)
FlowIsShortestWalk ==
  \A a, b \in Ids, cap \in {0, 3} :
    \A f \in {FlowBetween(graph, a, b, cap)} :
    LET distance == CHOOSE k \in 0..Cardinality(Ids) :
                      b \in Around(Ids, {a}, k) /\ (k = 0 \/ b \notin Around(Ids, {a}, k - 1))
    IN /\ f.found = (b \in Around(Ids, {a}, Cardinality(Ids)))
       /\ f.found => /\ f.nodes[1] = a
                     /\ Len(f.nodes) = IF distance < FlowCap(cap) THEN distance + 1 ELSE FlowCap(cap)
                     /\ distance < FlowCap(cap) => f.nodes[Len(f.nodes)] = b
                     /\ \A i \in DOMAIN f.steps :
                          LET s == f.steps[i]
                          IN /\ s.edge \in EdgesOf(graph)
                             /\ <<s.from, s.to>> = <<f.nodes[i], f.nodes[i + 1]>>
                             /\ <<s.edge.from, s.edge.to>> = IF s.reversed THEN <<s.to, s.from>>
                                                             ELSE <<s.from, s.to>>
                     /\ \A i \in DOMAIN f.nodes : f.nodes[i] \in Around(Ids, {a}, i - 1)

-----------------------------------------------------------------------------
(* Changes                                                                 *)

\* What git prints for a changed file, and for a list of them.
Line(f) == IF f.old = NoNode THEN <<f.status, f.path>> ELSE <<f.status, f.old, f.path>>

Tokens(entries) ==
  LET printed[k \in 0..Len(entries)] == IF k = 0 THEN <<>> ELSE printed[k - 1] \o Line(entries[k])
  IN Append(printed[Len(entries)], "")

\* What git may report: each path once, and a path it had before only where it has
\* moved or been copied; and the paths it does not track.  An unmerged path (U), which
\* git may report twice, is left out.
Change == {f \in [path : Paths, status : Letters, old : Paths \cup {NoNode}] :
             f.old = NoNode <=> f.status \notin {"R", "C"}}

IsReport(report) ==
  /\ report.entries \in Seq(Change) /\ report.untracked \in Seq(Paths)
  /\ \A i, j \in DOMAIN report.entries : report.entries[i].path = report.entries[j].path => i = j

ASSUME ReportsAssumption == \A report \in GitReports : IsReport(report)

WorkingTree(report) ==
  GitChangedFiles([present |-> TRUE, inside |-> TRUE, base |-> FALSE, head |-> TRUE,
                   diff |-> Tokens(report.entries), others |-> Append(report.untracked, "")],
                  FALSE, TRUE).files

\* The nodes a change concerns: those of the file, or those it had before it
\* was renamed when the graph does not know its new name.
Concerned(f) == {n \in Ids : \/ Info[n].path = f.path
                             \/ Info[n].path = f.old /\ \A m \in Ids : Info[m].path # f.path}

(* analyzeChangeImpact (changeImpact.ts:75), from git's bytes to the list of *)
(* files to look at again: every reported path is counted once, by git's own *)
(* status, and is either mapped or named as unmapped; every file with a node *)
(* that depends on a change within the depth is listed, unless it changed    *)
(* itself or the result says that it was cut off; what is listed as related  *)
(* is outside the scope; and no foreign key within it goes without a flag.   *)
ImpactMissesNothing ==
  \A report \in GitReports, depth \in {1, 3}, cap \in {1, Cardinality(Ids)} :
    \A files \in {WorkingTree(report)} : \A r \in {AnalyzeChangeImpact(graph, files, depth, cap)} :
    LET paths == {report.entries[i].path : i \in DOMAIN report.entries} \cup ToSet(report.untracked)
        concerned == UNION {Concerned(files[i]) : i \in DOMAIN files}
        downstream == Dependents(concerned, depth) \ concerned
        scope == r.changed \cup ToSet(r.impacted)
    IN /\ NoRepeats([i \in DOMAIN files |-> files[i].path])
       /\ {files[i].path : i \in DOMAIN files} = paths
       /\ \A i \in DOMAIN report.entries : report.entries[i] \in ToSet(files)
       /\ r.changed = concerned
       /\ r.unmapped = {files[i].path : i \in {j \in DOMAIN files : Concerned(files[j]) = {}}}
       /\ ToSet(r.impacted) \subseteq downstream
       /\ ~r.truncated => r.recheck = {Info[n].path : n \in downstream} \ paths
       /\ scope \cap (r.docs \cup r.tables \cup r.tests) = {}
       /\ \A e \in EdgesOf(graph) :
            e.type = "references" /\ {Info[e.from].type, Info[e.to].type} = {"table"}
              /\ {e.from, e.to} \subseteq scope
            => \E i \in DOMAIN r.risks : r.risks[i].kind = "referential-integrity" /\ r.risks[i].node = e.from
       /\ \A i, j \in DOMAIN r.risks : r.risks[i].level = "high" /\ r.risks[j].level = "medium" => i < j

(* changeImpact.ts:54 calls relatedTests the "Tests connected to the         *)
(* changed/impacted scope".                                                 *)
RelatedTestsComplete ==
  \A report \in GitReports :
    LET r == AnalyzeChangeImpact(graph, WorkingTree(report), 3, Cardinality(Ids))
    IN \A e \in EdgesOf(graph) : Info[e.from].type = "test" /\ e.to \in r.changed
                              => e.from \in r.changed \cup r.tests

-----------------------------------------------------------------------------
(* Packs                                                                   *)

(* rankContext (rankContext.ts:196): a node whose keyword score (2 for each  *)
(* keyword it has as a whole word, 1 for each it has as part of one) is      *)
(* higher comes before one whose is lower, whatever its place in the graph   *)
(* earns or costs it; each node of the mode within reach is ranked once, at  *)
(* its true distance from the nodes that match, on ways that cross no        *)
(* visual node.                                                             *)
KeywordsDominate ==
  \A task \in Tasks, mode \in Modes, depth \in {1, 2} :
    \A r \in {rankContext(graph, task, mode, depth, 0)} :
    LET seeds == {n \in Ids : inMode(n, mode) /\ keywordScore(n, task) > 0}
        Crossed == {n \in Ids : Info[n].layer # "visual"}
    IN /\ {r[i].id : i \in DOMAIN r} = {n \in Around(Crossed, seeds, depth) : inMode(n, mode)}
       /\ NoRepeats(IdsOf(r))
       /\ \A i \in DOMAIN r : r[i].id \in Around(Crossed, seeds, r[i].depth)
                              /\ (r[i].depth > 0 => r[i].id \notin Around(Crossed, seeds, r[i].depth - 1))
       /\ \A i, j \in DOMAIN r : r[i].kw > r[j].kw => i < j

(* buildContextPack (buildContextPack.ts:77): every ranked node is in one    *)
(* section or among the excluded, and in no two; tokensUsed is what the      *)
(* sections cost, and stays within the budget unless the tables and tests    *)
(* alone exceed it; and nothing is excluded that what is left of the budget  *)
(* would still pay for.  A node of a type that has no section (a package:    *)
(* buildContextPack.ts:103) is in neither list, and nothing says so.         *)
PackAccounts ==
  \A task \in Tasks, budget \in Budgets :
    \A p \in {buildContextPack(graph, task, "auto", budget, 2)} :
    LET ranked == rankContext(graph, task, p.mode, 2, RankLimit)
        items == p.mustRead \o p.relatedDocs \o p.tables \o p.tests
    IN /\ NoRepeats(IdsOf(items) \o p.excluded)
       /\ ToSet(IdsOf(items) \o p.excluded)
            = {n \in ToSet(IdsOf(ranked)) : sectionFor(Info[n].type) # "skip"}
       /\ p.tokensUsed = Cost(items)
       /\ p.tokensUsed <= budget \/ p.mustRead \o p.relatedDocs = <<>>
       /\ \A n \in ToSet(p.excluded) : p.tokensUsed + estimateTokens(n) > budget
       /\ p.confidence \in 20..100

\* A record one field of which has come to be of another type, or is missing.
Spoilt(x) == {[x EXCEPT ![f] = Malformed] : f \in DOMAIN x}

\* A pack one field of which has, at whatever depth.
Damaged(p) ==
  LET worse(item) == Spoilt(item) \cup {[item EXCEPT !.evidence = e] : e \in Spoilt(item.evidence)}
      able == p.capabilities
  IN Spoilt(p)
     \cup {[p EXCEPT !.budget = b] : b \in Spoilt(p.budget)}
     \cup {[p EXCEPT !.capabilities = c] :
             c \in Spoilt(able) \cup {[able EXCEPT !.flags = f] : f \in Spoilt(able.flags)}}
     \cup (UNION {{[p EXCEPT !.sections[s] = x] : x \in Spoilt(p.sections[s])} : s \in DOMAIN p.sections})
     \cup (UNION {UNION {{[p EXCEPT !.sections[s].items[i] = x] : x \in worse(p.sections[s].items[i])}
                         : i \in DOMAIN p.sections[s].items} : s \in DOMAIN p.sections})
     \cup (UNION {{[p EXCEPT !.risks[i] = r] : r \in Spoilt(p.risks[i])} : i \in DOMAIN p.risks})
     \cup {[p EXCEPT !.excluded = e] : e \in Spoilt(p.excluded)}

\* Where a node is to be found, and where what connects it.
PlacesOf(n, withGraph) ==
  ({<<"node", m>> : m \in {k \in {n} : Info[k].path # NoPath}}
   \cup {Place[e] : e \in {d \in EdgesOf(graph) : withGraph /\ n \in {d.from, d.to}}}) \ {NoPath}

ItemsOf(u) == UNION {ToSet(u.sections[s].items) : s \in DOMAIN u.sections}

TrustedPack(u, withGraph, max, versions, needs) ==
  LET items == ItemsOf(u)
      grounded == \A x \in items : PlacesOf(x.id, withGraph) # {}
  IN /\ \A v \in versions : validateUniversalPack([u EXCEPT !.protocolVersion = v])
                              <=> grounded /\ v[1] = CONTEXT_PROTOCOL_VERSION[1]
     /\ \A d \in Damaged(u) : ~validateUniversalPack(d)
     /\ \A wanted \in needs, v \in versions : negotiate(u.capabilities, wanted, v) =>
          /\ wanted.nodeKinds # NoNode => {x.kind : x \in items} \subseteq wanted.nodeKinds
          /\ wanted.layers # NoNode => {x.layer : x \in items} \subseteq wanted.layers
     /\ \A x \in items :
          LET places == PlacesOf(x.id, withGraph)
          IN /\ ToSet(x.evidence) \subseteq places /\ NoRepeats(x.evidence)
             /\ Len(x.evidence) <= 1 + max
             /\ Len(x.evidence) = 1 + max \/ places \subseteq ToSet(x.evidence)

\* What consumers ask for: a document reader has no use for tables.
Needs == [require : {{}, Flags}, nodeKinds : {NoNode, NodeKinds, NodeKinds \ {"table"}},
          layers : {NoNode, Layers, Layers \ {"data"}}]

(* toUniversalPack (fromContextPack.ts:43), validateUniversalPack            *)
(* (validate.ts:42) and negotiate (negotiate.ts:49): what kawn produces,     *)
(* with the graph at hand or without, is accepted by readers of its major    *)
(* version exactly when there is evidence for each item, which a node        *)
(* without a file has only by its edges; with any one field of another type, *)
(* at whatever depth, it is refused; a consumer that agreed on kinds and     *)
(* layers meets no others; and an item's evidence is all there is of its own *)
(* and its edges' places, each once, unless there is more than was asked for.*)
PacksAreTrusted ==
  \A task \in Tasks, withGraph \in BOOLEAN, max \in {0, 2} :
    \A u \in {toUniversalPack(buildContextPack(graph, task, "auto", 100, 2), graph, withGraph, max)} :
      TrustedPack(u, withGraph, max, {1, 2} \X {0, 3}, Needs)

(* capabilities.ts:21 advertises layeredSections: "layers are kept in        *)
(* separate, role-tagged sections".                                         *)
LayersKeptApart ==
  \A task \in Tasks :
    LET u == toUniversalPack(buildContextPack(graph, task, "all", 1000, 2), graph, TRUE, 2)
    IN \A s, t \in DOMAIN u.sections : s # t =>
         {x.layer : x \in ToSet(u.sections[s].items)} \cap {x.layer : x \in ToSet(u.sections[t].items)} = {}

(* rankContext.ts:6 says of the keyword match: "task words hit a node's      *)
(* label / path / identifier parts".  A task that is a node's own name finds *)
(* the node.                                                                *)
NamedNodeIsFound ==
  \A n \in Ids, k \in UNION Tasks :
    k \in Info[n].named => n \in ToSet(IdsOf(rankContext(graph, {k}, "all", 2, 0)))
=============================================================================

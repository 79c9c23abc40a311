------------------------- MODULE GraphAnswers_proofs -------------------------
(***************************************************************************)
(* What KawnGraph answers is right for every graph over any nodes.  Six    *)
(* proofs, one after the other: reverseReachable reports the dependents    *)
(* (ReachExact), flowBetween a shortest walk (ShortestWalk), rankContext   *)
(* what matches before what does not (KeywordsFirst), buildContextPack     *)
(* accounts for every ranked node and token (PackKeepsAccounts),           *)
(* analyzeChangeImpact misses nothing of what git says (ImpactComplete),   *)
(* and what crosses to an agent is accepted (PacksTrusted).  Each is an    *)
(* induction over the rounds of a loop of the source: module Loops has the *)
(* induction, and that the recursive function which is the loop exists and *)
(* has the type of its rounds.                                             *)
(***************************************************************************)
EXTENDS GraphAnswers, Loops

-----------------------------------------------------------------------------
(* Sorted lists                                                            *)

LEMMA NumbersInOrder ==
  ASSUME NEW S, IsFiniteSet(S), NEW T, NEW s \in [1..Cardinality(S) -> T],
         \A i \in 1..Cardinality(S) :
           s[i] = CHOOSE x \in S : Cardinality({y \in S : y < x}) = i - 1,
         \A x \in S : ~ (x < x),
         \A x, y, z \in S : x < y /\ y < z => x < z,
         \A x, y \in S : x # y => x < y \/ y < x
  PROVE  Lists(s, S) /\ \A i, j \in 1..Len(s) : i < j => s[i] < s[j]
<1> DEFINE below == [x \in S |-> {y \in S : y < x}]
<1>1. below \in [S -> SUBSET S] /\ \A x, y \in S : y \in below[x] <=> y < x
  OBVIOUS
<1>2. \A x \in S : below[x] = {y \in S : y < x}
  OBVIOUS
<1> HIDE DEF below
<1>3. StrictOrder(S, below)
  BY <1>1 DEF StrictOrder
<1>4. \A i \in 1..Cardinality(S) : \E x \in S : Cardinality(below[x]) = i - 1
  BY <1>3, Places
<1>5. \A i \in 1..Cardinality(S) : s[i] \in S /\ Cardinality({y \in S : y < s[i]}) = i - 1
  <2> TAKE i \in 1..Cardinality(S)
  <2> DEFINE P(x) == Cardinality({y \in S : y < x}) = i - 1
  <2>1. \E x \in S : P(x)
    BY <1>2, <1>4, Zenon
  <2>2. s[i] = CHOOSE x \in S : P(x)
    OBVIOUS
  <2> HIDE DEF P
  <2>3. s[i] \in S /\ P(s[i])
    BY <2>1, <2>2, Zenon
  <2>4. QED BY <2>3 DEF P
<1>6. s \in [1..Cardinality(S) -> S]
  BY <1>5
<1>7. \A i \in 1..Cardinality(S) : Cardinality(below[s[i]]) = i - 1
  BY <1>2, <1>5
<1>8. Lists(s, S) /\ \A i, j \in 1..Len(s) : i < j => s[i] \in below[s[j]]
  BY <1>3, <1>6, <1>7, Listed, Zenon
<1>9. \A i \in 1..Len(s) : s[i] \in S
  BY <1>8 DEF Lists
<1>10. QED BY <1>1, <1>8, <1>9

LEMMA SortedLists ==
  ASSUME NEW S, IsFiniteSet(S), S \subseteq Nat
  PROVE  Lists(Sorted(S), S) /\ \A i, j \in 1..Len(Sorted(S)) : i < j => Sorted(S)[i] < Sorted(S)[j]
<1>1. /\ \A x \in S : ~ (x < x)
      /\ \A x, y, z \in S : x < y /\ y < z => x < z
      /\ \A x, y \in S : x # y => x < y \/ y < x
  OBVIOUS
<1>2. Sorted(S) = [i \in 1..Cardinality(S) |-> CHOOSE x \in S : Cardinality({y \in S : y < x}) = i - 1]
  BY DEF Sorted, SortBy
<1> DEFINE s == Sorted(S)
           T == {s[i] : i \in 1..Cardinality(S)}
<1>3. \A i \in 1..Cardinality(S) : s[i] = CHOOSE x \in S : Cardinality({y \in S : y < x}) = i - 1
  BY <1>2, Zenon
<1>4. s \in [1..Cardinality(S) -> T]
  BY <1>2
<1> HIDE DEF s, T
<1>5. Lists(s, S) /\ \A i, j \in 1..Len(s) : i < j => s[i] < s[j]
  BY <1>1, <1>3, <1>4, NumbersInOrder, Zenon
<1>6. QED BY <1>5 DEF s

LEMMA TypesRanked ==
  /\ \A t \in ToSet(EdgeTypes) : TypeRank(t) \in Nat
  /\ \A t, u \in ToSet(EdgeTypes) : TypeRank(t) = TypeRank(u) => t = u
<1>1. \A t \in ToSet(EdgeTypes) : \E i \in DOMAIN EdgeTypes : EdgeTypes[i] = t
  BY DEF ToSet
<1>2. DOMAIN EdgeTypes \subseteq Nat
  BY DEF EdgeTypes
<1>3. \A t \in ToSet(EdgeTypes) : TypeRank(t) \in DOMAIN EdgeTypes /\ EdgeTypes[TypeRank(t)] = t
  BY <1>1, Zenon DEF TypeRank
<1>4. QED BY <1>2, <1>3

LEMMA EdgeFields ==
  \A e \in Edge : /\ e.type \in ToSet(EdgeTypes) /\ TypeRank(e.type) \in Nat
                  /\ e.from \in Ids /\ e.from \in Nat /\ e.to \in Ids /\ e.to \in Nat
                  /\ e = [type |-> e.type, from |-> e.from, to |-> e.to]
<1> DEFINE T == ToSet(EdgeTypes)
<1>1. Edge = [type : T, from : Ids, to : Ids]
  BY DEF Edge
<1>2. \A t \in T : TypeRank(t) \in Nat
  BY TypesRanked
<1> HIDE DEF T
<1>3. \A e \in Edge : e.type \in T /\ e.from \in Ids /\ e.to \in Ids
                      /\ e = [type |-> e.type, from |-> e.from, to |-> e.to]
  BY <1>1
<1>4. QED BY <1>2, <1>3, IdsAssumption DEF T

LEMMA EdgesInOrder ==
  ASSUME NEW S, IsFiniteSet(S), NEW T, NEW s \in [1..Cardinality(S) -> T],
         \A i \in 1..Cardinality(S) :
           s[i] = CHOOSE x \in S : Cardinality({y \in S : EdgeBefore(y, x)}) = i - 1,
         \A x \in S : ~ (EdgeBefore(x, x)),
         \A x, y, z \in S : EdgeBefore(x, y) /\ EdgeBefore(y, z) => EdgeBefore(x, z),
         \A x, y \in S : x # y => EdgeBefore(x, y) \/ EdgeBefore(y, x)
  PROVE  Lists(s, S) /\ \A i, j \in 1..Len(s) : i < j => EdgeBefore(s[i], s[j])
<1> DEFINE below == [x \in S |-> {y \in S : EdgeBefore(y, x)}]
<1>1. below \in [S -> SUBSET S] /\ \A x, y \in S : y \in below[x] <=> EdgeBefore(y, x)
  OBVIOUS
<1>2. \A x \in S : below[x] = {y \in S : EdgeBefore(y, x)}
  OBVIOUS
<1> HIDE DEF below
<1>3. StrictOrder(S, below)
  BY <1>1 DEF StrictOrder
<1>4. \A i \in 1..Cardinality(S) : \E x \in S : Cardinality(below[x]) = i - 1
  BY <1>3, Places
<1>5. \A i \in 1..Cardinality(S) : s[i] \in S /\ Cardinality({y \in S : EdgeBefore(y, s[i])}) = i - 1
  <2> TAKE i \in 1..Cardinality(S)
  <2> DEFINE P(x) == Cardinality({y \in S : EdgeBefore(y, x)}) = i - 1
  <2>1. \E x \in S : P(x)
    BY <1>2, <1>4, Zenon
  <2>2. s[i] = CHOOSE x \in S : P(x)
    OBVIOUS
  <2> HIDE DEF P
  <2>3. s[i] \in S /\ P(s[i])
    BY <2>1, <2>2, Zenon
  <2>4. QED BY <2>3 DEF P
<1>6. s \in [1..Cardinality(S) -> S]
  BY <1>5
<1>7. \A i \in 1..Cardinality(S) : Cardinality(below[s[i]]) = i - 1
  BY <1>2, <1>5
<1>8. Lists(s, S) /\ \A i, j \in 1..Len(s) : i < j => s[i] \in below[s[j]]
  BY <1>3, <1>6, <1>7, Listed, Zenon
<1>9. \A i \in 1..Len(s) : s[i] \in S
  BY <1>8 DEF Lists
<1>10. QED BY <1>1, <1>8, <1>9

LEMMA SortedEdgeLists ==
  ASSUME NEW S, IsFiniteSet(S), S \subseteq Edge
  PROVE  Lists(SortedEdges(S), S)
<1>1. /\ \A x \in S : ~ EdgeBefore(x, x)
      /\ \A x, y, z \in S : EdgeBefore(x, y) /\ EdgeBefore(y, z) => EdgeBefore(x, z)
      /\ \A x, y \in S : x # y => EdgeBefore(x, y) \/ EdgeBefore(y, x)
  <2>1. \A x, y \in S : x.type = y.type /\ x.from = y.from /\ x.to = y.to => x = y
    BY EdgeFields
  <2>2. \A x \in S : TypeRank(x.type) \in Nat /\ x.from \in Nat /\ x.to \in Nat
    BY EdgeFields
  <2>3. \A x, y \in S : TypeRank(x.type) = TypeRank(y.type) => x.type = y.type
    BY EdgeFields, TypesRanked
  <2>4. QED BY <2>1, <2>2, <2>3 DEF EdgeBefore
<1>2. SortedEdges(S) = [i \in 1..Cardinality(S) |->
                          CHOOSE x \in S : Cardinality({y \in S : EdgeBefore(y, x)}) = i - 1]
  BY DEF SortedEdges, SortBy
<1> DEFINE s == SortedEdges(S)
           T == {s[i] : i \in 1..Cardinality(S)}
<1>3. \A i \in 1..Cardinality(S) : s[i] = CHOOSE x \in S : Cardinality({y \in S : EdgeBefore(y, x)}) = i - 1
  BY <1>2, Zenon
<1>4. s \in [1..Cardinality(S) -> T]
  BY <1>2
<1> HIDE DEF s, T
<1>5. Lists(s, S) /\ \A i, j \in 1..Len(s) : i < j => EdgeBefore(s[i], s[j])
  BY <1>1, <1>3, <1>4, EdgesInOrder, Zenon
<1>6. QED BY <1>5 DEF s

Dependencies(g, id) == {e \in EdgesOf(g) : e.to = id /\ e.type \in DEPENDENCY_EDGES}

DependsBefore(d, e) == \/ d.from < e.from
                       \/ d.from = e.from /\ TypeRank(d.type) < TypeRank(e.type)

LEMMA DependentsInOrder ==
  ASSUME NEW S, IsFiniteSet(S), NEW T, NEW s \in [1..Cardinality(S) -> T],
         \A i \in 1..Cardinality(S) :
           s[i] = CHOOSE x \in S : Cardinality({y \in S : DependsBefore(y, x)}) = i - 1,
         \A x \in S : ~ (DependsBefore(x, x)),
         \A x, y, z \in S : DependsBefore(x, y) /\ DependsBefore(y, z) => DependsBefore(x, z),
         \A x, y \in S : x # y => DependsBefore(x, y) \/ DependsBefore(y, x)
  PROVE  Lists(s, S) /\ \A i, j \in 1..Len(s) : i < j => DependsBefore(s[i], s[j])
<1> DEFINE below == [x \in S |-> {y \in S : DependsBefore(y, x)}]
<1>1. below \in [S -> SUBSET S] /\ \A x, y \in S : y \in below[x] <=> DependsBefore(y, x)
  OBVIOUS
<1>2. \A x \in S : below[x] = {y \in S : DependsBefore(y, x)}
  OBVIOUS
<1> HIDE DEF below
<1>3. StrictOrder(S, below)
  BY <1>1 DEF StrictOrder
<1>4. \A i \in 1..Cardinality(S) : \E x \in S : Cardinality(below[x]) = i - 1
  BY <1>3, Places
<1>5. \A i \in 1..Cardinality(S) : s[i] \in S /\ Cardinality({y \in S : DependsBefore(y, s[i])}) = i - 1
  <2> TAKE i \in 1..Cardinality(S)
  <2> DEFINE P(x) == Cardinality({y \in S : DependsBefore(y, x)}) = i - 1
  <2>1. \E x \in S : P(x)
    BY <1>2, <1>4, Zenon
  <2>2. s[i] = CHOOSE x \in S : P(x)
    OBVIOUS
  <2> HIDE DEF P
  <2>3. s[i] \in S /\ P(s[i])
    BY <2>1, <2>2, Zenon
  <2>4. QED BY <2>3 DEF P
<1>6. s \in [1..Cardinality(S) -> S]
  BY <1>5
<1>7. \A i \in 1..Cardinality(S) : Cardinality(below[s[i]]) = i - 1
  BY <1>2, <1>5
<1>8. Lists(s, S) /\ \A i, j \in 1..Len(s) : i < j => s[i] \in below[s[j]]
  BY <1>3, <1>6, <1>7, Listed, Zenon
<1>9. \A i \in 1..Len(s) : s[i] \in S
  BY <1>8 DEF Lists
<1>10. QED BY <1>1, <1>8, <1>9

LEMMA IncomingLists ==
  ASSUME NEW g, IsFiniteSet(EdgesOf(g)), EdgesOf(g) \subseteq Edge, NEW id
  PROVE  Lists(Incoming(g, id), Dependencies(g, id))
<1> DEFINE S == Dependencies(g, id)
<1>1. S \subseteq Edge /\ IsFiniteSet(S) /\ \A e \in S : e.to = id
  <2>1. S \in SUBSET EdgesOf(g) /\ \A e \in S : e.to = id
    BY DEF Dependencies
  <2> HIDE DEF S
  <2>2. QED BY <2>1, FS_Subset
<1> HIDE DEF S
<1>2. /\ \A x \in S : ~ DependsBefore(x, x)
      /\ \A x, y, z \in S : DependsBefore(x, y) /\ DependsBefore(y, z) => DependsBefore(x, z)
      /\ \A x, y \in S : x # y => DependsBefore(x, y) \/ DependsBefore(y, x)
  <2>1. \A x, y \in S : x.type = y.type /\ x.from = y.from => x = y
    BY <1>1, EdgeFields
  <2>2. \A x \in S : TypeRank(x.type) \in Nat /\ x.from \in Nat
    BY <1>1, EdgeFields
  <2>3. \A x, y \in S : TypeRank(x.type) = TypeRank(y.type) => x.type = y.type
    BY <1>1, EdgeFields, TypesRanked
  <2>4. QED BY <2>1, <2>2, <2>3 DEF DependsBefore
<1>3. Incoming(g, id) = [i \in 1..Cardinality(S) |->
                           CHOOSE x \in S : Cardinality({y \in S : DependsBefore(y, x)}) = i - 1]
  BY DEF S, Dependencies, Incoming, SortBy, DependsBefore
<1> DEFINE s == Incoming(g, id)
           T == {s[i] : i \in 1..Cardinality(S)}
<1>4. \A i \in 1..Cardinality(S) : s[i] = CHOOSE x \in S : Cardinality({y \in S : DependsBefore(y, x)}) = i - 1
  BY <1>3, Zenon
<1>5. s \in [1..Cardinality(S) -> T]
  BY <1>3
<1> HIDE DEF s, T
<1>6. Lists(s, S)
  BY <1>1, <1>2, <1>4, <1>5, DependentsInOrder, Zenon
<1>7. QED BY <1>6 DEF s, S

-----------------------------------------------------------------------------
(* The graph                                                               *)

GraphTyped == graph \in [ids : {Ids}, edges : Seq(Edge)]

LEMMA GraphSets ==
  ASSUME GraphTyped
  PROVE  /\ graph.ids = Ids /\ graph.edges \in Seq(Edge)
         /\ IsFiniteSet(EdgesOf(graph)) /\ EdgesOf(graph) \subseteq Edge
<1>1. graph.ids = Ids /\ graph.edges \in Seq(Edge)
  BY DEF GraphTyped
<1>2. QED BY <1>1, SeqRange DEF EdgesOf, ToSet

\* The graph of every scan is well-formed.
LEMMA GraphsTyped == Spec => []GraphTyped
<1>1. Init => GraphTyped
  BY DEF Init, GraphTyped
<1>2. GraphTyped /\ [Next]_graph => GraphTyped'
  <2> SUFFICES ASSUME GraphTyped, [Next]_graph PROVE GraphTyped'
    OBVIOUS
  <2>1. CASE UNCHANGED graph
    BY <2>1 DEF GraphTyped
  <2>2. ASSUME NEW e \in Candidates \ EdgesOf(graph), Rescan(e) PROVE GraphTyped'
    <3> DEFINE S == ToSet(graph.edges) \cup {e}
    <3>1. IsFiniteSet(EdgesOf(graph)) /\ EdgesOf(graph) \subseteq Edge
      BY GraphSets
    <3>2. IsFiniteSet(S) /\ S \subseteq Edge
      <4>1. e \in Edge
        BY <2>2, CandidatesAssumption
      <4>2. QED BY <3>1, <4>1, FS_AddElement DEF EdgesOf
    <3> HIDE DEF S
    <3>3. SortedEdges(S) \in Seq(S)
      BY <3>2, SortedEdgeLists DEF Lists
    <3>4. SortedEdges(S) \in Seq(Edge)
      BY <3>2, <3>3
    <3>5. graph' = [graph EXCEPT !.edges = SortedEdges(S)]
      BY <2>2 DEF Rescan, S
    <3>6. QED BY <3>4, <3>5 DEF GraphTyped
  <2>3. QED BY <2>1, <2>2 DEF Next
<1>3. QED BY <1>1, <1>2, PTL DEF Spec

-----------------------------------------------------------------------------
(* Who depends on a seed                                                   *)

DependEdges == {d \in EdgesOf(graph) : d.type \in DEPENDENCY_EDGES}

Nearer(near) == near \cup {e.from : e \in {d \in EdgesOf(graph) : /\ d.type \in DEPENDENCY_EDGES
                                                                  /\ d.to \in near}}

Ball(f, seeds, k) == f = [i \in 0..k |-> IF i = 0 THEN seeds ELSE Nearer(f[i - 1])]

LEMMA BallExists ==
  ASSUME NEW seeds, NEW k \in Nat
  PROVE  \E f : Ball(f, seeds, k)
<1> DEFINE State == SUBSET (seeds \cup {e.from : e \in EdgesOf(graph)})
           step == [i \in 1..k |-> [s \in State |-> Nearer(s)]]
<1>1. \A s \in State : Nearer(s) \in State
  BY DEF Nearer
<1>2. seeds \in State
  OBVIOUS
<1>3. step \in [1..k -> [State -> State]] /\ \A i \in 1..k : \A s \in State : step[i][s] = Nearer(s)
  BY <1>1
<1> HIDE DEF State, step
<1>4. PICK f : History(f, k, State, seeds, step)
  BY <1>2, <1>3, LoopExists
<1>5. \A i \in 1..k : i - 1 \in 0..k /\ f[i] = Nearer(f[i - 1])
  BY <1>3, <1>4 DEF History
<1>6. f = [i \in 0..k |-> IF i = 0 THEN seeds ELSE Nearer(f[i - 1])]
  BY <1>4, <1>5 DEF History
<1>7. QED BY <1>6 DEF Ball

LEMMA BallsAgree ==
  ASSUME NEW seeds, NEW k \in Nat, NEW f, Ball(f, seeds, k), NEW g, Ball(g, seeds, k + 1)
  PROVE  \A i \in 0..k : f[i] = g[i]
<1> DEFINE S == {i \in 0..k : f[i] = g[i]}
<1>1. 0 \in S
  BY DEF Ball
<1>2. ASSUME NEW i \in 0..(k - 1), i \in S PROVE i + 1 \in S
  <2>1. i + 1 \in 0..k /\ i + 1 \in 0..(k + 1) /\ i + 1 # 0 /\ (i + 1) - 1 = i
    OBVIOUS
  <2>2. f[i + 1] = Nearer(f[i]) /\ g[i + 1] = Nearer(g[i])
    BY <2>1 DEF Ball
  <2>3. QED BY <1>2, <2>1, <2>2
<1> HIDE DEF S
<1>3. \A i \in 0..(k - 1) : i \in S => i + 1 \in S
  BY <1>2
<1>4. \A i \in 0..k : i \in S
  BY <1>1, <1>3, Induction
<1>5. QED BY <1>4 DEF S

LEMMA DependentsStep ==
  ASSUME NEW seeds, NEW k \in Nat
  PROVE  Dependents(seeds, 0) = seeds /\ Dependents(seeds, k + 1) = Nearer(Dependents(seeds, k))
<1> DEFINE ball(n) == CHOOSE f : Ball(f, seeds, n)
<1>1. \A n \in Nat : Ball(ball(n), seeds, n)
  BY BallExists
<1>2. \A n : Dependents(seeds, n) = ball(n)[n]
  BY DEF Dependents, Ball, Nearer
<1> HIDE DEF ball
<1>3. ball(0)[0] = seeds
  BY <1>1 DEF Ball
<1>4. ball(k + 1)[k + 1] = Nearer(ball(k + 1)[k])
  <2>1. k + 1 \in Nat /\ k + 1 \in 0..(k + 1) /\ k + 1 # 0 /\ (k + 1) - 1 = k
    OBVIOUS
  <2>2. QED BY <1>1, <2>1 DEF Ball
<1>5. ball(k)[k] = ball(k + 1)[k]
  <2>1. k + 1 \in Nat /\ k \in 0..k
    OBVIOUS
  <2>2. QED BY <1>1, <2>1, BallsAgree
<1>6. QED BY <1>2, <1>3, <1>4, <1>5

-----------------------------------------------------------------------------
(* The walk                                                                *)

Reached == [id : Ids, depth : Nat, via : ToSet(EdgeTypes)]
Walked == [out : Seq(Reached), seen : SUBSET Ids, next : SUBSET Ids, truncated : BOOLEAN]

LEMMA MeetTyped ==
  ASSUME NEW g, g.ids = Ids, NEW maxNodes \in Nat, NEW depth \in Nat, NEW acc \in Walked, NEW dep \in Edge
  PROVE  Meet(g, maxNodes, depth, acc, dep) \in Walked
<1>1. /\ acc = [out |-> acc.out, seen |-> acc.seen, next |-> acc.next, truncated |-> acc.truncated]
      /\ acc.out \in Seq(Reached) /\ acc.seen \in SUBSET Ids /\ acc.next \in SUBSET Ids
      /\ acc.truncated \in BOOLEAN
  BY DEF Walked
<1>2. [id |-> dep.from, depth |-> depth, via |-> dep.type] \in Reached
  <2>1. dep.from \in Ids /\ dep.type \in ToSet(EdgeTypes)
    BY EdgeFields
  <2>2. QED BY <2>1 DEF Reached
<1>3. dep.from \in Ids
  BY EdgeFields
<1>4. Append(acc.out, [id |-> dep.from, depth |-> depth, via |-> dep.type]) \in Seq(Reached)
  BY <1>1, <1>2
<1>5. QED BY <1>1, <1>3, <1>4 DEF Meet, Walked

MeetAllRun(met, maxNodes, depth, acc, id) ==
  /\ met \in [0..Len(Incoming(graph, id)) -> Walked] /\ met[0] = acc
  /\ \A i \in 1..Len(Incoming(graph, id)) :
       met[i] = Meet(graph, maxNodes, depth, met[i - 1], Incoming(graph, id)[i])
  /\ MeetAll(graph, maxNodes, depth, acc, id) = met[Len(Incoming(graph, id))]

LEMMA MeetAllLoop ==
  ASSUME GraphTyped, NEW maxNodes \in Nat, NEW depth \in Nat, NEW acc \in Walked, NEW id
  PROVE  \E met : MeetAllRun(met, maxNodes, depth, acc, id)
<1> DEFINE deps == Incoming(graph, id)
           n == Len(deps)
           step == [i \in 1..n |-> [a \in Walked |-> Meet(graph, maxNodes, depth, a, deps[i])]]
           Run(f) == f = [i \in 0..n |-> IF i = 0 THEN acc ELSE Meet(graph, maxNodes, depth, f[i - 1], deps[i])]
<1>1. n \in Nat /\ \A i \in 1..n : deps[i] \in Edge
  <2>1. Lists(deps, Dependencies(graph, id))
    BY GraphSets, IncomingLists
  <2>2. Dependencies(graph, id) \subseteq Edge
    BY GraphSets DEF Dependencies
  <2> HIDE DEF deps
  <2>3. QED BY <2>1, <2>2 DEF Lists
<1>2. MeetAll(graph, maxNodes, depth, acc, id) = (CHOOSE f : Run(f))[n]
  BY DEF MeetAll
<1> HIDE DEF deps, n
<1>3. /\ step \in [1..n -> [Walked -> Walked]]
      /\ \A i \in 1..n : \A a \in Walked : step[i][a] = Meet(graph, maxNodes, depth, a, deps[i])
  BY <1>1, MeetTyped, GraphSets
<1> HIDE DEF step
<1>4. PICK f : History(f, n, Walked, acc, step)
  BY <1>1, <1>3, LoopExists
<1>5. \A i \in 1..n : i - 1 \in 0..n /\ f[i] = Meet(graph, maxNodes, depth, f[i - 1], deps[i])
  BY <1>1, <1>3, <1>4 DEF History
<1>6. Run(f)
  BY <1>1, <1>4, <1>5 DEF History
<1> DEFINE met == CHOOSE h : Run(h)
<1>7. Run(met)
  BY <1>6, Zenon
<1>8. \A h : Run(h) => h[0] = acc /\ \A i \in 1..n : h[i] = Meet(graph, maxNodes, depth, h[i - 1], deps[i])
  BY <1>1
<1>9. \A h : Run(h) => DOMAIN h = 0..n /\ h = [i \in 0..n |-> h[i]]
  OBVIOUS
<1> HIDE DEF Run, met
<1>10. \A i \in 0..n : met[i] \in Walked
  <2> DEFINE S == {i \in 0..n : met[i] \in Walked}
  <2>1. 0 \in S
    BY <1>1, <1>7, <1>8
  <2>2. ASSUME NEW i \in 0..(n - 1), i \in S PROVE i + 1 \in S
    <3>1. i + 1 \in 1..n /\ (i + 1) - 1 = i /\ i + 1 \in 0..n
      BY <1>1
    <3>2. met[i + 1] = Meet(graph, maxNodes, depth, met[i], deps[i + 1])
      BY <3>1, <1>7, <1>8
    <3>3. met[i + 1] \in Walked
      BY <2>2, <3>1, <3>2, <1>1, MeetTyped, GraphSets
    <3>4. QED BY <3>1, <3>3
  <2> HIDE DEF S
  <2>3. \A i \in 0..(n - 1) : i \in S => i + 1 \in S
    BY <2>2
  <2>4. \A i \in 0..n : i \in S
    BY <1>1, <2>1, <2>3, Induction
  <2>5. QED BY <2>4 DEF S
<1>11. met \in [0..n -> Walked]
  BY <1>7, <1>9, <1>10
<1>12. QED BY <1>2, <1>7, <1>8, <1>11 DEF MeetAllRun, deps, n, met

LEMMA MeetAllTyped ==
  ASSUME GraphTyped, NEW maxNodes \in Nat, NEW depth \in Nat, NEW acc \in Walked, NEW id
  PROVE  MeetAll(graph, maxNodes, depth, acc, id) \in Walked
<1>1. Len(Incoming(graph, id)) \in Nat
  BY GraphSets, IncomingLists DEF Lists
<1>2. PICK met : MeetAllRun(met, maxNodes, depth, acc, id)
  BY MeetAllLoop
<1> DEFINE n == Len(Incoming(graph, id))
<1> HIDE DEF n
<1>3. n \in 0..n
  BY <1>1 DEF n
<1>4. met[n] \in Walked
  BY <1>2, <1>3 DEF MeetAllRun, n
<1>5. QED BY <1>2, <1>4 DEF MeetAllRun, n

LEMMA FrontierLists ==
  ASSUME NEW acc \in Walked
  PROVE  Lists(Sorted(acc.next), acc.next)
<1>1. acc.next \in SUBSET Ids
  BY DEF Walked
<1>2. IsFiniteSet(acc.next) /\ acc.next \subseteq Nat
  BY <1>1, IdsAssumption, FS_Subset
<1>3. QED BY <1>2, SortedLists

LayerRun(done, maxNodes, depth, acc) ==
  /\ done \in [0..Len(Sorted(acc.next)) -> Walked] /\ done[0] = [acc EXCEPT !.next = {}]
  /\ \A i \in 1..Len(Sorted(acc.next)) :
       done[i] = MeetAll(graph, maxNodes, depth, done[i - 1], Sorted(acc.next)[i])
  /\ Layer(graph, maxNodes, depth, acc) = done[Len(Sorted(acc.next))]

LEMMA LayerLoop ==
  ASSUME GraphTyped, NEW maxNodes \in Nat, NEW depth \in Nat, NEW acc \in Walked
  PROVE  \E done : LayerRun(done, maxNodes, depth, acc)
<1> DEFINE frontier == Sorted(acc.next)
           n == Len(frontier)
           start == [acc EXCEPT !.next = {}]
           step == [i \in 1..n |-> [a \in Walked |-> MeetAll(graph, maxNodes, depth, a, frontier[i])]]
           Run(f) == f = [i \in 0..n |-> IF i = 0 THEN start
                                          ELSE MeetAll(graph, maxNodes, depth, f[i - 1], frontier[i])]
<1>1. n \in Nat
  BY FrontierLists DEF Lists
<1>2. Layer(graph, maxNodes, depth, acc) = (CHOOSE f : Run(f))[n]
  BY DEF Layer
<1>3. start \in Walked
  BY DEF Walked
<1> HIDE DEF frontier, n, start
<1>4. /\ step \in [1..n -> [Walked -> Walked]]
      /\ \A i \in 1..n : \A a \in Walked : step[i][a] = MeetAll(graph, maxNodes, depth, a, frontier[i])
  BY MeetAllTyped
<1> HIDE DEF step
<1>5. PICK f : History(f, n, Walked, start, step)
  BY <1>1, <1>3, <1>4, LoopExists
<1>6. \A i \in 1..n : i - 1 \in 0..n /\ f[i] = MeetAll(graph, maxNodes, depth, f[i - 1], frontier[i])
  BY <1>1, <1>4, <1>5 DEF History
<1>7. Run(f)
  BY <1>1, <1>5, <1>6 DEF History
<1> DEFINE done == CHOOSE h : Run(h)
<1>8. Run(done)
  BY <1>7, Zenon
<1>9. \A h : Run(h) =>
        /\ h[0] = start /\ DOMAIN h = 0..n /\ h = [i \in 0..n |-> h[i]]
        /\ \A i \in 1..n : h[i] = MeetAll(graph, maxNodes, depth, h[i - 1], frontier[i])
  BY <1>1
<1> HIDE DEF Run, done
<1>10. \A i \in 0..n : done[i] \in Walked
  <2> DEFINE S == {i \in 0..n : done[i] \in Walked}
  <2>1. 0 \in S
    BY <1>1, <1>3, <1>8, <1>9
  <2>2. ASSUME NEW i \in 0..(n - 1), i \in S PROVE i + 1 \in S
    <3>1. i + 1 \in 1..n /\ (i + 1) - 1 = i /\ i + 1 \in 0..n
      BY <1>1
    <3>2. done[i + 1] = MeetAll(graph, maxNodes, depth, done[i], frontier[i + 1])
      BY <3>1, <1>8, <1>9
    <3>3. done[i + 1] \in Walked
      BY <2>2, <3>2, MeetAllTyped
    <3>4. QED BY <3>1, <3>3
  <2> HIDE DEF S
  <2>3. \A i \in 0..(n - 1) : i \in S => i + 1 \in S
    BY <2>2
  <2>4. \A i \in 0..n : i \in S
    BY <1>1, <2>1, <2>3, Induction
  <2>5. QED BY <2>4 DEF S
<1>11. done \in [0..n -> Walked]
  BY <1>8, <1>9, <1>10
<1>12. QED BY <1>2, <1>8, <1>9, <1>11 DEF LayerRun, frontier, n, start, done

LEMMA LayerTyped ==
  ASSUME GraphTyped, NEW maxNodes \in Nat, NEW depth \in Nat, NEW acc \in Walked
  PROVE  Layer(graph, maxNodes, depth, acc) \in Walked
<1> DEFINE n == Len(Sorted(acc.next))
<1>1. n \in Nat
  BY FrontierLists DEF Lists
<1>2. PICK done : LayerRun(done, maxNodes, depth, acc)
  BY LayerLoop
<1> HIDE DEF n
<1>3. n \in 0..n
  BY <1>1
<1>4. done \in [0..n -> Walked] /\ Layer(graph, maxNodes, depth, acc) = done[n]
  BY <1>2 DEF LayerRun, n
<1>5. QED BY <1>3, <1>4

Start(seeds) == [out |-> <<>>, seen |-> seeds, next |-> seeds, truncated |-> FALSE]

ReachRun(layer, seeds, maxDepth, maxNodes) ==
  /\ layer \in [0..maxDepth -> Walked] /\ layer[0] = Start(seeds)
  /\ \A d \in 1..maxDepth : layer[d] = Layer(graph, maxNodes, d, layer[d - 1])
  /\ ReverseReachable(graph, seeds, maxDepth, maxNodes)
       = [nodes |-> layer[maxDepth].out, truncated |-> layer[maxDepth].truncated]

LEMMA ReachLoop ==
  ASSUME GraphTyped, NEW seeds \in SUBSET Ids, NEW maxDepth \in Nat, NEW maxNodes \in Nat
  PROVE  \E layer : ReachRun(layer, seeds, maxDepth, maxNodes)
<1> DEFINE start == Start(seeds)
           step == [d \in 1..maxDepth |-> [a \in Walked |-> Layer(graph, maxNodes, d, a)]]
           Run(f) == f = [d \in 0..maxDepth |-> IF d = 0 THEN start ELSE Layer(graph, maxNodes, d, f[d - 1])]
           layer == CHOOSE h : Run(h)
<1>1. ReverseReachable(graph, seeds, maxDepth, maxNodes)
        = [nodes |-> layer[maxDepth].out, truncated |-> layer[maxDepth].truncated]
  BY DEF ReverseReachable, Start
<1>2. start \in Walked
  BY DEF Walked, Start
<1> HIDE DEF start, layer
<1>3. /\ step \in [1..maxDepth -> [Walked -> Walked]]
      /\ \A d \in 1..maxDepth : \A a \in Walked : step[d][a] = Layer(graph, maxNodes, d, a)
  BY LayerTyped
<1> HIDE DEF step
<1>4. PICK f : History(f, maxDepth, Walked, start, step)
  BY <1>2, <1>3, LoopExists
<1>5. \A d \in 1..maxDepth : d - 1 \in 0..maxDepth /\ f[d] = Layer(graph, maxNodes, d, f[d - 1])
  BY <1>3, <1>4 DEF History
<1>6. Run(f)
  BY <1>4, <1>5 DEF History
<1>7. Run(layer)
  BY <1>6, Zenon DEF layer
<1>8. \A h : Run(h) =>
        /\ h[0] = start /\ DOMAIN h = 0..maxDepth /\ h = [d \in 0..maxDepth |-> h[d]]
        /\ \A d \in 1..maxDepth : h[d] = Layer(graph, maxNodes, d, h[d - 1])
  OBVIOUS
<1> HIDE DEF Run
<1>9. \A d \in 0..maxDepth : layer[d] \in Walked
  <2> DEFINE S == {d \in 0..maxDepth : layer[d] \in Walked}
  <2>1. 0 \in S
    BY <1>2, <1>7, <1>8
  <2>2. ASSUME NEW d \in 0..(maxDepth - 1), d \in S PROVE d + 1 \in S
    <3>1. d + 1 \in 1..maxDepth /\ (d + 1) - 1 = d /\ d + 1 \in 0..maxDepth /\ d + 1 \in Nat
      OBVIOUS
    <3>2. layer[d + 1] = Layer(graph, maxNodes, d + 1, layer[d])
      BY <3>1, <1>7, <1>8
    <3>3. layer[d + 1] \in Walked
      BY <2>2, <3>1, <3>2, LayerTyped
    <3>4. QED BY <3>1, <3>3
  <2> HIDE DEF S
  <2>3. \A d \in 0..(maxDepth - 1) : d \in S => d + 1 \in S
    BY <2>2
  <2>4. \A d \in 0..maxDepth : d \in S
    BY <2>1, <2>3, Induction
  <2>5. QED BY <2>4 DEF S
<1>10. layer \in [0..maxDepth -> Walked]
  BY <1>7, <1>8, <1>9
<1>11. QED BY <1>1, <1>7, <1>8, <1>10 DEF ReachRun, start

-----------------------------------------------------------------------------
(* What the walk has found                                                 *)

LEMMA DependentsFacts ==
  ASSUME GraphTyped, NEW seeds \in SUBSET Ids, NEW k \in Nat
  PROVE  /\ seeds \subseteq Dependents(seeds, k) /\ Dependents(seeds, k) \subseteq Ids
         /\ Dependents(seeds, k) \subseteq Dependents(seeds, k + 1)
<1>1. \A n \in Nat : Dependents(seeds, n + 1) = Nearer(Dependents(seeds, n))
  BY DependentsStep
<1>2. \A S \in SUBSET Ids : S \subseteq Nearer(S) /\ Nearer(S) \subseteq Ids
  BY GraphSets, EdgeFields DEF Nearer
<1> DEFINE T == {i \in 0..k : seeds \subseteq Dependents(seeds, i) /\ Dependents(seeds, i) \subseteq Ids}
<1>3. 0 \in T
  BY DependentsStep
<1>4. \A i \in 0..(k - 1) : i \in T => i + 1 \in T
  <2> SUFFICES ASSUME NEW i \in 0..(k - 1), i \in T PROVE i + 1 \in T
    OBVIOUS
  <2>1. Dependents(seeds, i + 1) = Nearer(Dependents(seeds, i)) /\ i + 1 \in 0..k
    BY <1>1
  <2>2. QED BY <2>1, <1>2
<1> HIDE DEF T
<1>5. k \in 0..k /\ \A i \in 0..k : i \in T
  BY <1>3, <1>4, Induction
<1>6. seeds \subseteq Dependents(seeds, k) /\ Dependents(seeds, k) \subseteq Ids
  BY <1>5 DEF T
<1>7. QED BY <1>1, <1>2, <1>6

\* One line of the answer.
Rightly(x, seeds) ==
  /\ x.depth \in Nat /\ x.depth > 0
  /\ x.id \in Dependents(seeds, x.depth) \ Dependents(seeds, x.depth - 1)
  /\ \E e \in EdgesOf(graph) : /\ e.from = x.id /\ e.type = x.via
                               /\ e.to \in Dependents(seeds, x.depth - 1)

Honest(acc, seeds, d, cap) ==
  /\ acc \in Walked
  /\ \A i, j \in 1..Len(acc.out) : acc.out[i].id = acc.out[j].id => i = j
  /\ \A i \in 1..Len(acc.out) : Rightly(acc.out[i], seeds)
  /\ {acc.out[i].id : i \in 1..Len(acc.out)} = acc.seen \ seeds
  /\ seeds \subseteq acc.seen /\ acc.seen \subseteq Dependents(seeds, d)
  /\ Len(acc.out) <= cap
  /\ acc.truncated => Len(acc.out) = cap /\ acc.seen # Dependents(seeds, d)

\* Inside layer d: what has been met since the layer before is next.
Within(acc, seeds, d, cap) ==
  /\ Honest(acc, seeds, d, cap)
  /\ ~ acc.truncated => /\ acc.seen = Dependents(seeds, d - 1) \cup acc.next
                        /\ acc.next \cap Dependents(seeds, d - 1) = {}

LEMMA MeetKeeps ==
  ASSUME GraphTyped, NEW seeds \in SUBSET Ids, NEW cap \in Nat, NEW d \in Nat, d > 0,
         NEW acc, Within(acc, seeds, d, cap),
         NEW dep \in DependEdges, dep.to \in Dependents(seeds, d - 1)
  PROVE  LET new == Meet(graph, cap, d, acc, dep)
         IN /\ Within(new, seeds, d, cap)
            /\ acc.truncated => new.truncated
            /\ acc.seen \subseteq new.seen
            /\ ~ new.truncated => dep.from \in new.seen
<1> DEFINE new == Meet(graph, cap, d, acc, dep)
           n == Len(acc.out)
           x == [id |-> dep.from, depth |-> d, via |-> dep.type]
           near == Dependents(seeds, d - 1)
           far  == Dependents(seeds, d)
<1>1. /\ acc \in Walked /\ acc.out \in Seq(Reached) /\ n \in Nat
      /\ acc = [out |-> acc.out, seen |-> acc.seen, next |-> acc.next, truncated |-> acc.truncated]
      /\ acc.truncated \in BOOLEAN
  BY DEF Within, Honest, Walked
<1>2. dep \in Edge /\ dep \in EdgesOf(graph) /\ dep.from \in Ids /\ dep.from \in graph.ids
  BY GraphSets, EdgeFields DEF DependEdges
<1>3. far = Nearer(near)
  <2>1. d - 1 \in Nat /\ (d - 1) + 1 = d
    OBVIOUS
  <2>2. QED BY <2>1, DependentsStep
<1>4. dep.from \in far
  BY <1>3 DEF Nearer, DependEdges
<1> HIDE DEF near, far
<1>5. CASE acc.truncated \/ dep.from \in acc.seen
  <2>1. new = acc
    BY <1>5 DEF Meet
  <2>2. QED BY <1>5, <2>1
<1>6. CASE ~ acc.truncated /\ dep.from \notin acc.seen /\ n >= cap
  <2>1. new = [out |-> acc.out, seen |-> acc.seen, next |-> acc.next, truncated |-> TRUE]
    BY <1>1, <1>2, <1>6 DEF Meet
  <2>2. acc.seen # far
    BY <1>4, <1>6
  <2>3. new \in Walked
    BY <1>1, <2>1 DEF Walked
  <2>4. n = cap
    BY <1>1, <1>6 DEF Within, Honest
  <2>5. /\ new.out = acc.out /\ new.seen = acc.seen /\ new.truncated = TRUE
    BY <2>1
  <2> HIDE DEF new
  <2>6. Honest(new, seeds, d, cap)
    BY <2>2, <2>3, <2>4, <2>5 DEF Within, Honest, far
  <2>7. QED BY <2>5, <2>6 DEF Within, new
<1>7. CASE ~ acc.truncated /\ dep.from \notin acc.seen /\ n < cap
  <2>1. /\ new.out = Append(acc.out, x) /\ new.seen = acc.seen \cup {dep.from}
        /\ new.next = acc.next \cup {dep.from} /\ new.truncated = FALSE
    BY <1>1, <1>2, <1>7 DEF Meet
  <2>2. new \in Walked
    BY <1>1, <1>2, GraphSets, MeetTyped
  <2>3. /\ Len(new.out) = n + 1 /\ n + 1 \in Nat /\ \A i \in 1..n : new.out[i] = acc.out[i]
        /\ new.out[n + 1] = x
    BY <1>1, <2>1
  <2>4. x.id = dep.from /\ x.depth = d /\ x.via = dep.type
    OBVIOUS
  <2> HIDE DEF new, x, n
  <2>5. \A i \in 1..n : acc.out[i].id \in acc.seen
    BY DEF Within, Honest, n
  <2>6. \A i, j \in 1..Len(new.out) : new.out[i].id = new.out[j].id => i = j
    <3>1. \A i, j \in 1..n : acc.out[i].id = acc.out[j].id => i = j
      BY DEF Within, Honest, n
    <3>2. \A i \in 1..n : new.out[i].id # new.out[n + 1].id
      BY <2>3, <2>4, <2>5, <1>7
    <3>3. \A i \in 1..Len(new.out) : i \in 1..n \/ i = n + 1
      BY <2>3, <1>1 DEF n
    <3>4. QED BY <3>1, <3>2, <3>3, <2>3
  <2>7. \A i \in 1..Len(new.out) : Rightly(new.out[i], seeds)
    <3>1. \A i \in 1..n : Rightly(acc.out[i], seeds)
      BY DEF Within, Honest, n
    <3>2. dep.from \notin near
      BY <1>7 DEF Within, near
    <3>3. Rightly(x, seeds)
      BY <3>2, <2>4, <1>2, <1>4 DEF Rightly, near, far
    <3>4. \A i \in 1..Len(new.out) : i \in 1..n \/ i = n + 1
      BY <2>3, <1>1 DEF n
    <3>5. QED BY <3>1, <3>3, <3>4, <2>3
  <2>8. {new.out[i].id : i \in 1..Len(new.out)} = new.seen \ seeds
    <3>1. {acc.out[i].id : i \in 1..n} = acc.seen \ seeds /\ seeds \subseteq acc.seen
      BY DEF Within, Honest, n
    <3>2. {new.out[i].id : i \in 1..(n + 1)} = {acc.out[i].id : i \in 1..n} \cup {dep.from}
      <4>1. \A i : i \in 1..(n + 1) <=> i \in 1..n \/ i = n + 1
        BY <2>3, <1>1 DEF n
      <4>2. \A i \in 1..n : new.out[i].id = acc.out[i].id
        BY <2>3
      <4>3. QED BY <4>1, <4>2, <2>3, <2>4
    <3>3. dep.from \notin seeds
      BY <3>1, <1>7
    <3>4. QED BY <3>1, <3>2, <3>3, <2>1, <2>3
  <2>9. seeds \subseteq new.seen /\ new.seen \subseteq far
    BY <2>1, <1>4 DEF Within, Honest, far
  <2>10. Len(new.out) <= cap
    BY <2>3, <1>7, <1>1 DEF n
  <2>11. Honest(new, seeds, d, cap)
    BY <2>1, <2>2, <2>6, <2>7, <2>8, <2>9, <2>10 DEF Honest, far
  <2>12. new.seen = near \cup new.next /\ new.next \cap near = {}
    <3>1. acc.seen = near \cup acc.next /\ acc.next \cap near = {}
      BY <1>7 DEF Within, near
    <3>2. QED BY <3>1, <2>1, <1>7
  <2>13. QED BY <2>1, <2>11, <2>12, <1>7 DEF Within, near, new
<1>8. QED BY <1>1, <1>5, <1>6, <1>7 DEF Within, Honest

LEMMA MeetAllKeeps ==
  ASSUME GraphTyped, NEW seeds \in SUBSET Ids, NEW cap \in Nat, NEW d \in Nat, d > 0,
         NEW acc, Within(acc, seeds, d, cap), NEW id \in Dependents(seeds, d - 1)
  PROVE  LET new == MeetAll(graph, cap, d, acc, id)
         IN /\ Within(new, seeds, d, cap)
            /\ acc.truncated => new.truncated
            /\ acc.seen \subseteq new.seen
            /\ ~ new.truncated => \A e \in DependEdges : e.to = id => e.from \in new.seen
<1> DEFINE deps == Incoming(graph, id)
           n == Len(deps)
<1>1. Lists(deps, Dependencies(graph, id))
  BY GraphSets, IncomingLists
<1>2. Dependencies(graph, id) = {e \in DependEdges : e.to = id}
  BY DEF Dependencies, DependEdges
<1>3. /\ n \in Nat /\ \A i \in 1..n : deps[i] \in DependEdges /\ deps[i].to = id
      /\ \A e \in DependEdges : e.to = id => \E i \in 1..n : deps[i] = e
  <2> DEFINE D == Dependencies(graph, id)
  <2> HIDE DEF deps, D
  <2>1. /\ deps \in Seq(D) /\ Len(deps) \in Nat
        /\ \A e \in D : \E i \in 1..Len(deps) : deps[i] = e
    BY <1>1 DEF Lists, D
  <2>2. \A i \in 1..Len(deps) : deps[i] \in D
    BY <2>1
  <2>3. \A e : e \in D <=> e \in DependEdges /\ e.to = id
    BY <1>2 DEF D
  <2>4. QED BY <2>1, <2>2, <2>3
<1>4. acc \in Walked
  BY DEF Within, Honest
<1>5. PICK met : MeetAllRun(met, cap, d, acc, id)
  BY <1>4, MeetAllLoop
<1>6. /\ met[0] = acc /\ MeetAll(graph, cap, d, acc, id) = met[n]
      /\ \A i \in 1..n : met[i] = Meet(graph, cap, d, met[i - 1], deps[i])
  BY <1>5 DEF MeetAllRun
<1> HIDE DEF deps, n
<1> DEFINE Kept(i) == /\ Within(met[i], seeds, d, cap)
                      /\ acc.truncated => met[i].truncated
                      /\ acc.seen \subseteq met[i].seen
                      /\ ~ met[i].truncated => \A j \in 1..i : deps[j].from \in met[i].seen
           S == {i \in 0..n : Kept(i)}
<1>7. 0 \in S
  BY <1>3, <1>6
<1>8. ASSUME NEW i \in 0..(n - 1), i \in S PROVE i + 1 \in S
  <2>1. i + 1 \in 1..n /\ (i + 1) - 1 = i /\ i + 1 \in 0..n /\ i \in Nat
    BY <1>3
  <2>2. Kept(i)
    BY <1>8
  <2>3. met[i + 1] = Meet(graph, cap, d, met[i], deps[i + 1])
    BY <1>6, <2>1
  <2>4. deps[i + 1] \in DependEdges /\ deps[i + 1].to \in Dependents(seeds, d - 1)
    BY <1>3, <2>1
  <2>5. /\ Within(met[i + 1], seeds, d, cap)
        /\ met[i].truncated => met[i + 1].truncated
        /\ met[i].seen \subseteq met[i + 1].seen
        /\ ~ met[i + 1].truncated => deps[i + 1].from \in met[i + 1].seen
    BY <2>2, <2>3, <2>4, MeetKeeps
  <2>6. \A j \in 1..(i + 1) : j \in 1..i \/ j = i + 1
    BY <2>1
  <2>7. Kept(i + 1)
    BY <2>2, <2>5, <2>6
  <2>8. QED BY <2>1, <2>7
<1> HIDE DEF S
<1>9. \A i \in 0..(n - 1) : i \in S => i + 1 \in S
  BY <1>8
<1>10. \A i \in 0..n : i \in S
  BY <1>3, <1>7, <1>9, Induction
<1>11. Kept(n)
  <2>1. n \in 0..n
    BY <1>3
  <2>2. n \in S
    BY <1>10, <2>1
  <2>3. QED BY <2>2 DEF S
<1>12. QED BY <1>3, <1>6, <1>11

LEMMA MeetAllIdle ==
  ASSUME GraphTyped, NEW cap \in Nat, NEW d \in Nat, NEW acc \in Walked, acc.truncated, NEW id
  PROVE  MeetAll(graph, cap, d, acc, id) = acc
<1> DEFINE deps == Incoming(graph, id)
           n == Len(deps)
<1>1. n \in Nat
  BY GraphSets, IncomingLists DEF Lists
<1>2. PICK met : MeetAllRun(met, cap, d, acc, id)
  BY MeetAllLoop
<1>3. /\ met[0] = acc /\ MeetAll(graph, cap, d, acc, id) = met[n]
      /\ \A i \in 1..n : met[i] = Meet(graph, cap, d, met[i - 1], deps[i])
  BY <1>2 DEF MeetAllRun
<1> HIDE DEF deps, n
<1> DEFINE S == {i \in 0..n : met[i] = acc}
<1>4. 0 \in S
  BY <1>1, <1>3
<1>5. ASSUME NEW i \in 0..(n - 1), i \in S PROVE i + 1 \in S
  <2>1. i + 1 \in 1..n /\ (i + 1) - 1 = i /\ i + 1 \in 0..n
    BY <1>1
  <2>2. met[i + 1] = Meet(graph, cap, d, acc, deps[i + 1])
    BY <1>3, <1>5, <2>1
  <2>3. Meet(graph, cap, d, acc, deps[i + 1]) = acc
    BY DEF Meet
  <2>4. QED BY <2>1, <2>2, <2>3
<1> HIDE DEF S
<1>6. \A i \in 0..(n - 1) : i \in S => i + 1 \in S
  BY <1>5
<1>7. \A i \in 0..n : i \in S
  BY <1>1, <1>4, <1>6, Induction
<1>8. n \in S
  BY <1>1, <1>7
<1>9. QED BY <1>3, <1>8 DEF S

\* After layer d: everything within d edges has been met, and next is the
\* part whose dependents have not been looked at.
Layered(acc, seeds, d, cap) ==
  /\ Honest(acc, seeds, d, cap)
  /\ ~ acc.truncated =>
       /\ acc.seen = Dependents(seeds, d) /\ acc.next \subseteq acc.seen
       /\ \A e \in DependEdges : e.to \in acc.seen \ acc.next => e.from \in acc.seen

LEMMA LayerKeeps ==
  ASSUME GraphTyped, NEW seeds \in SUBSET Ids, NEW cap \in Nat, NEW d \in Nat, d > 0,
         NEW acc, Layered(acc, seeds, d - 1, cap)
  PROVE  Layered(Layer(graph, cap, d, acc), seeds, d, cap)
<1> DEFINE frontier == Sorted(acc.next)
           n == Len(frontier)
           near == Dependents(seeds, d - 1)
           far  == Dependents(seeds, d)
           start == [acc EXCEPT !.next = {}]
<1>1. acc \in Walked
  BY DEF Layered, Honest
<1>2. /\ n \in Nat /\ \A i \in 1..n : frontier[i] \in acc.next
      /\ \A id \in acc.next : \E i \in 1..n : frontier[i] = id
  <2>1. Lists(frontier, acc.next)
    BY <1>1, FrontierLists
  <2> HIDE DEF frontier
  <2>2. QED BY <2>1 DEF Lists
<1>3. PICK done : LayerRun(done, cap, d, acc)
  BY <1>1, LayerLoop
<1>4. /\ done[0] = start /\ Layer(graph, cap, d, acc) = done[n]
      /\ \A i \in 1..n : done[i] = MeetAll(graph, cap, d, done[i - 1], frontier[i])
  BY <1>3 DEF LayerRun
<1>5. d - 1 \in Nat /\ (d - 1) + 1 = d
  OBVIOUS
<1>6. near \subseteq far /\ far = Nearer(near)
  BY <1>5, DependentsFacts, DependentsStep
<1>7. /\ start.out = acc.out /\ start.seen = acc.seen /\ start.next = {}
      /\ start.truncated = acc.truncated /\ start \in Walked
  BY <1>1 DEF Walked
<1> HIDE DEF frontier, n, start, near, far
<1>8. Within(start, seeds, d, cap)
  <2>1. acc.truncated => acc.seen # far
    <3>1. acc.truncated => acc.seen \subseteq near /\ acc.seen # near
      BY DEF Layered, Honest, near
    <3>2. QED BY <3>1, <1>6
  <2>2. acc.seen \subseteq far
    BY <1>6 DEF Layered, Honest, near
  <2>3. Honest(start, seeds, d, cap)
    BY <1>7, <2>1, <2>2 DEF Layered, Honest, far
  <2>4. QED BY <1>7, <2>3 DEF Layered, Within, near
<1> DEFINE Kept(i) == /\ Within(done[i], seeds, d, cap)
                      /\ acc.truncated => done[i].truncated
                      /\ acc.seen \subseteq done[i].seen
                      /\ ~ done[i].truncated =>
                           \A j \in 1..i : \A e \in DependEdges : e.to = frontier[j] => e.from \in done[i].seen
           S == {i \in 0..n : acc.truncated \/ Kept(i)}
<1>9. CASE ~ acc.truncated
  <2>1. acc.seen = near /\ acc.next \subseteq near
        /\ \A e \in DependEdges : e.to \in near \ acc.next => e.from \in near
    BY <1>9 DEF Layered, near
  <2>2. 0 \in S
    BY <1>2, <1>4, <1>7, <1>8
  <2>3. ASSUME NEW i \in 0..(n - 1), i \in S PROVE i + 1 \in S
    <3>1. i + 1 \in 1..n /\ (i + 1) - 1 = i /\ i + 1 \in 0..n /\ i \in Nat
      BY <1>2
    <3>2. Kept(i)
      BY <2>3, <1>9
    <3>3. done[i + 1] = MeetAll(graph, cap, d, done[i], frontier[i + 1])
      BY <1>4, <3>1
    <3>4. frontier[i + 1] \in Dependents(seeds, d - 1)
      BY <1>2, <2>1, <3>1 DEF near
    <3>5. /\ Within(done[i + 1], seeds, d, cap)
          /\ done[i].truncated => done[i + 1].truncated
          /\ done[i].seen \subseteq done[i + 1].seen
          /\ ~ done[i + 1].truncated =>
               \A e \in DependEdges : e.to = frontier[i + 1] => e.from \in done[i + 1].seen
      BY <3>2, <3>3, <3>4, MeetAllKeeps
    <3>6. \A j \in 1..(i + 1) : j \in 1..i \/ j = i + 1
      BY <3>1
    <3>7. Kept(i + 1)
      BY <3>2, <3>5, <3>6
    <3>8. QED BY <3>1, <3>7
  <2> HIDE DEF S
  <2>4. \A i \in 0..(n - 1) : i \in S => i + 1 \in S
    BY <2>3
  <2>5. \A i \in 0..n : i \in S
    BY <1>2, <2>2, <2>4, Induction
  <2>6. Kept(n)
    <3>1. n \in 0..n
      BY <1>2
    <3>2. n \in S
      BY <2>5, <3>1
    <3>3. QED BY <3>2, <1>9 DEF S
  <2> DEFINE new == done[n]
  <2>7. Honest(new, seeds, d, cap)
    BY <2>6 DEF Within
  <2>8. ASSUME ~ new.truncated PROVE new.seen = far
    <3>1. new.seen \subseteq far
      BY <2>7 DEF Honest, far
    <3>2. near \subseteq new.seen
      BY <2>1, <2>6
    <3>3. ASSUME NEW e \in DependEdges, e.to \in near PROVE e.from \in new.seen
      <4>1. CASE e.to \in acc.next
        BY <4>1, <1>2, <2>6, <2>8
      <4>2. CASE e.to \notin acc.next
        BY <4>2, <2>1, <3>2, <3>3
      <4>3. QED BY <4>1, <4>2
    <3>4. far \subseteq new.seen
      BY <1>6, <3>2, <3>3 DEF Nearer, DependEdges
    <3>5. QED BY <3>1, <3>4
  <2>9. ASSUME ~ new.truncated
        PROVE  /\ new.next \subseteq new.seen
               /\ \A e \in DependEdges : e.to \in new.seen \ new.next => e.from \in new.seen
    <3>1. new.seen = near \cup new.next
      BY <2>6, <2>9 DEF Within, near
    <3>2. \A e \in DependEdges : e.to \in near => e.from \in far
      BY <1>6 DEF Nearer, DependEdges
    <3>3. QED BY <2>8, <2>9, <3>1, <3>2
  <2>10. QED BY <1>4, <2>7, <2>8, <2>9 DEF Layered, far
<1>10. CASE acc.truncated
  <2> DEFINE Still(i) == Within(done[i], seeds, d, cap) /\ done[i].truncated
             Z == {i \in 0..n : Still(i)}
  <2>1. 0 \in Z
    <3>1. Within(done[0], seeds, d, cap) /\ done[0].truncated
      BY <1>4, <1>7, <1>8, <1>10
    <3>2. 0 \in 0..n
      BY <1>2
    <3>3. QED BY <3>1, <3>2
  <2>2. ASSUME NEW i \in 0..(n - 1), i \in Z PROVE i + 1 \in Z
    <3>1. i + 1 \in 1..n /\ (i + 1) - 1 = i /\ i + 1 \in 0..n /\ i \in Nat
      BY <1>2
    <3>2. done[i + 1] = MeetAll(graph, cap, d, done[i], frontier[i + 1])
      BY <1>4, <3>1
    <3>3. MeetAll(graph, cap, d, done[i], frontier[i + 1]) = done[i]
      BY <2>2, MeetAllIdle DEF Within, Honest
    <3>4. QED BY <2>2, <3>1, <3>2, <3>3
  <2> HIDE DEF Z
  <2>3. \A i \in 0..(n - 1) : i \in Z => i + 1 \in Z
    BY <2>2
  <2>4. \A i \in 0..n : i \in Z
    BY <1>2, <2>1, <2>3, Induction
  <2>5. n \in Z
    BY <1>2, <2>4
  <2>6. QED BY <1>4, <2>5 DEF Z, Layered, Within
<1>11. QED BY <1>9, <1>10

\* The walk as a whole.
LEMMA ReachLayered ==
  ASSUME GraphTyped, NEW seeds \in SUBSET Ids, NEW depth \in Nat, NEW cap \in Nat,
         NEW layer, ReachRun(layer, seeds, depth, cap)
  PROVE  Layered(layer[depth], seeds, depth, cap)
<1>1. /\ layer[0] = Start(seeds) /\ Start(seeds) \in Walked
      /\ \A d \in 1..depth : layer[d] = Layer(graph, cap, d, layer[d - 1])
  BY DEF ReachRun, Walked, Start
<1> DEFINE S == {d \in 0..depth : Layered(layer[d], seeds, d, cap)}
<1>2. Layered(Start(seeds), seeds, 0, cap)
  <2>1. Dependents(seeds, 0) = seeds
    BY DependentsStep
  <2>2. /\ Start(seeds).out = <<>> /\ Start(seeds).seen = seeds /\ Start(seeds).next = seeds
        /\ Start(seeds).truncated = FALSE
    BY DEF Start
  <2>3. Len(<<>>) = 0 /\ 1..0 = {}
    OBVIOUS
  <2>4. Honest(Start(seeds), seeds, 0, cap)
    BY <1>1, <2>1, <2>2, <2>3 DEF Honest
  <2>5. QED BY <2>1, <2>2, <2>4 DEF Layered
<1>3. 0 \in S
  <2>1. 0 \in 0..depth
    OBVIOUS
  <2>2. QED BY <1>1, <1>2, <2>1
<1>4. ASSUME NEW d \in 0..(depth - 1), d \in S PROVE d + 1 \in S
  <2>1. d + 1 \in 1..depth /\ d + 1 \in 0..depth /\ (d + 1) - 1 = d /\ d + 1 \in Nat /\ d + 1 > 0
    OBVIOUS
  <2>2. layer[d + 1] = Layer(graph, cap, d + 1, layer[d])
    BY <1>1, <2>1
  <2>3. Layered(layer[d], seeds, (d + 1) - 1, cap)
    BY <1>4, <2>1
  <2>4. Layered(layer[d + 1], seeds, d + 1, cap)
    BY <2>1, <2>2, <2>3, LayerKeeps
  <2>5. QED BY <2>1, <2>4
<1> HIDE DEF S
<1>5. \A d \in 0..(depth - 1) : d \in S => d + 1 \in S
  BY <1>4
<1>6. \A d \in 0..depth : d \in S
  BY <1>3, <1>5, Induction
<1>7. depth \in S
  BY <1>6
<1>8. QED BY <1>7 DEF S

-----------------------------------------------------------------------------
(* The answer                                                              *)

\* What ReachIsExact says of one answer.
ExactAnswer(r, seeds, depth, cap) ==
  LET all == Dependents(seeds, depth) \ seeds
      found == {r.nodes[i].id : i \in DOMAIN r.nodes}
  IN /\ NoRepeats([i \in DOMAIN r.nodes |-> r.nodes[i].id])
     /\ found \subseteq all
     /\ \A i \in DOMAIN r.nodes :
          LET x == r.nodes[i]
          IN /\ x.id \in Dependents(seeds, x.depth) \ Dependents(seeds, x.depth - 1)
             /\ \E e \in EdgesOf(graph) : /\ e.from = x.id /\ e.type = x.via
                                          /\ e.to \in Dependents(seeds, x.depth - 1)
     /\ IF r.truncated THEN Len(r.nodes) = cap /\ Cardinality(all) > cap ELSE found = all

LEMMA OneAnswer ==
  ASSUME GraphTyped, NEW seeds \in SUBSET Ids, NEW depth \in Nat, NEW cap \in Nat
  PROVE  ExactAnswer(ReverseReachable(graph, seeds, depth, cap), seeds, depth, cap)
<1>1. PICK layer : ReachRun(layer, seeds, depth, cap)
  BY ReachLoop
<1> DEFINE acc == layer[depth]
           r == ReverseReachable(graph, seeds, depth, cap)
           all == Dependents(seeds, depth) \ seeds
           n == Len(acc.out)
<1>2. r = [nodes |-> acc.out, truncated |-> acc.truncated]
  BY <1>1 DEF ReachRun
<1>3. Layered(acc, seeds, depth, cap)
  BY <1>1, ReachLayered
<1>4. acc.out \in Seq(Reached) /\ DOMAIN acc.out = 1..n /\ n \in Nat
  BY <1>3 DEF Layered, Honest, Walked
<1>5. r.nodes = acc.out /\ r.truncated = acc.truncated
  BY <1>2
<1>6. all \subseteq Ids /\ IsFiniteSet(all)
  <2>1. all \subseteq Ids
    BY DependentsFacts
  <2>2. QED BY <2>1, IdsAssumption, FS_Subset
<1> HIDE DEF acc, r, n, all
<1> DEFINE names == [i \in 1..n |-> acc.out[i].id]
           found == {acc.out[i].id : i \in 1..n}
<1>7. /\ found = acc.seen \ seeds /\ acc.seen \subseteq Dependents(seeds, depth)
      /\ seeds \subseteq acc.seen
      /\ \A i, j \in 1..n : acc.out[i].id = acc.out[j].id => i = j
      /\ \A i \in 1..n : Rightly(acc.out[i], seeds)
  BY <1>3 DEF Layered, Honest, n
<1>8. NoRepeats(names)
  BY <1>7 DEF NoRepeats
<1>9. found \subseteq all
  BY <1>7 DEF all
<1> DEFINE said == IF acc.truncated THEN n = cap /\ Cardinality(all) > cap ELSE found = all
<1>10. ASSUME said PROVE ExactAnswer(r, seeds, depth, cap)
  <2>1. DOMAIN r.nodes = 1..n /\ [i \in DOMAIN r.nodes |-> r.nodes[i].id] = names
        /\ {r.nodes[i].id : i \in DOMAIN r.nodes} = found
        /\ Len(r.nodes) = n
    BY <1>4, <1>5 DEF n
  <2>2. \A i \in 1..n :
          LET x == acc.out[i]
          IN /\ x.id \in Dependents(seeds, x.depth) \ Dependents(seeds, x.depth - 1)
             /\ \E e \in EdgesOf(graph) : /\ e.from = x.id /\ e.type = x.via
                                          /\ e.to \in Dependents(seeds, x.depth - 1)
    BY <1>7 DEF Rightly
  <2>3. said
    BY <1>10
  <2> HIDE DEF names, found
  <2>4. IF r.truncated THEN Len(r.nodes) = cap /\ Cardinality(all) > cap ELSE found = all
    BY <2>1, <2>3, <1>5
  <2>5. QED BY <1>5, <1>8, <1>9, <2>1, <2>2, <2>4 DEF ExactAnswer, all
<1> HIDE DEF said
<1>11. CASE acc.truncated
  <2>1. n = cap /\ acc.seen # Dependents(seeds, depth)
    BY <1>3, <1>11 DEF Layered, Honest, n
  <2>2. PICK w \in all : w \notin found
    BY <2>1, <1>7 DEF all
  <2>3. names \in [1..n -> all]
    BY <1>9
  <2>4. \A i, j \in 1..n : names[i] = names[j] => i = j
    BY <1>7
  <2>5. \A i \in 1..n : names[i] # w
    BY <2>2
  <2> HIDE DEF names
  <2>6. Cardinality(all) > n
    BY <1>4, <1>6, <2>3, <2>4, <2>5, PartIsSmaller
  <2>7. said
    BY <1>11, <2>1, <2>6 DEF said
  <2>8. QED BY <2>7, <1>10 DEF r
<1>12. CASE ~ acc.truncated
  <2>1. found = all
    BY <1>3, <1>7, <1>12 DEF Layered, all
  <2>2. said
    BY <1>12, <2>1 DEF said
  <2>3. QED BY <2>2, <1>10 DEF r
<1>13. QED BY <1>11, <1>12

\* Whatever edges the scans have found, and for any seeds, depth and cap,
\* reverseReachable reports each dependent once, at its true distance and by an
\* edge of the graph; it misses none within the depth unless it says so, and it
\* says so exactly when there are more than the cap lets through
\* (reachable.ts:39).
THEOREM ReachExactForAll ==
  Spec => [](\A seeds \in SUBSET Ids, depth \in Nat, cap \in Nat :
               ExactAnswer(ReverseReachable(graph, seeds, depth, cap), seeds, depth, cap))
<1>1. GraphTyped => \A seeds \in SUBSET Ids, depth \in Nat, cap \in Nat :
                      ExactAnswer(ReverseReachable(graph, seeds, depth, cap), seeds, depth, cap)
  BY OneAnswer
<1>2. QED BY <1>1, GraphsTyped, PTL

\* The property of the run, which asks it of one or two seeds.
THEOREM ReachExact == Spec => []ReachIsExact
<1>1. GraphTyped => ReachIsExact
  <2> SUFFICES ASSUME GraphTyped, NEW seeds \in Small(Ids), NEW depth \in 1..3,
                      NEW cap \in {0, 2, Cardinality(Ids)},
                      NEW r \in {ReverseReachable(graph, seeds, depth, cap)}
               PROVE  ExactAnswer(r, seeds, depth, cap)
    BY Zenon DEF ReachIsExact, ExactAnswer
  <2>1. seeds \in SUBSET Ids /\ depth \in Nat
    BY DEF Small
  <2>2. cap \in Nat
    BY IdsAssumption, FS_CardinalityType
  <2>3. QED BY <2>1, <2>2, OneAnswer
<1>2. QED BY <1>1, GraphsTyped, PTL

-----------------------------------------------------------------------------
(* How far apart nodes are                                                 *)

Wider(T, near) == near \cup {n \in T : \E m \in near : Touch(m, n)}

Wave(f, T, from, k) == f = [i \in 0..k |-> IF i = 0 THEN from ELSE Wider(T, f[i - 1])]

LEMMA WaveExists ==
  ASSUME NEW T, NEW from, NEW k \in Nat
  PROVE  \E f : Wave(f, T, from, k)
<1> DEFINE State == SUBSET (from \cup T)
           step == [i \in 1..k |-> [s \in State |-> Wider(T, s)]]
<1>1. \A s \in State : Wider(T, s) \in State
  BY DEF Wider
<1>2. from \in State
  OBVIOUS
<1>3. step \in [1..k -> [State -> State]] /\ \A i \in 1..k : \A s \in State : step[i][s] = Wider(T, s)
  BY <1>1
<1> HIDE DEF State, step
<1>4. PICK f : History(f, k, State, from, step)
  BY <1>2, <1>3, LoopExists
<1>5. \A i \in 1..k : i - 1 \in 0..k /\ f[i] = Wider(T, f[i - 1])
  BY <1>3, <1>4 DEF History
<1>6. f = [i \in 0..k |-> IF i = 0 THEN from ELSE Wider(T, f[i - 1])]
  BY <1>4, <1>5 DEF History
<1>7. QED BY <1>6 DEF Wave

LEMMA WavesAgree ==
  ASSUME NEW T, NEW from, NEW k \in Nat, NEW f, Wave(f, T, from, k), NEW g, Wave(g, T, from, k + 1)
  PROVE  \A i \in 0..k : f[i] = g[i]
<1> DEFINE S == {i \in 0..k : f[i] = g[i]}
<1>1. 0 \in S
  BY DEF Wave
<1>2. ASSUME NEW i \in 0..(k - 1), i \in S PROVE i + 1 \in S
  <2>1. i + 1 \in 0..k /\ i + 1 \in 0..(k + 1) /\ i + 1 # 0 /\ (i + 1) - 1 = i
    OBVIOUS
  <2>2. f[i + 1] = Wider(T, f[i]) /\ g[i + 1] = Wider(T, g[i])
    BY <2>1 DEF Wave
  <2>3. QED BY <1>2, <2>1, <2>2
<1> HIDE DEF S
<1>3. \A i \in 0..(k - 1) : i \in S => i + 1 \in S
  BY <1>2
<1>4. \A i \in 0..k : i \in S
  BY <1>1, <1>3, Induction
<1>5. QED BY <1>4 DEF S

LEMMA AroundStep ==
  ASSUME NEW T, NEW from, NEW k \in Nat
  PROVE  Around(T, from, 0) = from /\ Around(T, from, k + 1) = Wider(T, Around(T, from, k))
<1> DEFINE ball(n) == CHOOSE f : Wave(f, T, from, n)
<1>1. \A n \in Nat : Wave(ball(n), T, from, n)
  BY WaveExists
<1>2. \A n : Around(T, from, n) = ball(n)[n]
  BY DEF Around, Wave, Wider
<1> HIDE DEF ball
<1>3. ball(0)[0] = from
  BY <1>1 DEF Wave
<1>4. ball(k + 1)[k + 1] = Wider(T, ball(k + 1)[k])
  <2>1. k + 1 \in Nat /\ k + 1 \in 0..(k + 1) /\ k + 1 # 0 /\ (k + 1) - 1 = k
    OBVIOUS
  <2>2. QED BY <1>1, <2>1 DEF Wave
<1>5. ball(k)[k] = ball(k + 1)[k]
  <2>1. k + 1 \in Nat /\ k \in 0..k
    OBVIOUS
  <2>2. QED BY <1>1, <2>1, WavesAgree
<1>6. QED BY <1>2, <1>3, <1>4, <1>5

LEMMA AroundGrows ==
  ASSUME NEW T, NEW from, NEW k \in Nat
  PROVE  \A i \in 0..k : Around(T, from, i) \subseteq Around(T, from, k)
<1> DEFINE S == {d \in 0..k : \A i \in 0..d : Around(T, from, i) \subseteq Around(T, from, d)}
<1>1. 0 \in S
  OBVIOUS
<1>2. ASSUME NEW d \in 0..(k - 1), d \in S PROVE d + 1 \in S
  <2>1. Around(T, from, d) \subseteq Around(T, from, d + 1)
    BY AroundStep DEF Wider
  <2>2. \A i \in 0..(d + 1) : i \in 0..d \/ i = d + 1
    OBVIOUS
  <2>3. QED BY <1>2, <2>1, <2>2
<1> HIDE DEF S
<1>3. \A d \in 0..(k - 1) : d \in S => d + 1 \in S
  BY <1>2
<1>4. \A d \in 0..k : d \in S
  BY <1>1, <1>3, Induction
<1>5. k \in S
  BY <1>4
<1>6. QED BY <1>5 DEF S

\* What is within d edges of a, one step further on, is within d + 1.
Near(a, d) == Around(Ids, {a}, d)

Reachable(a, n) == \E d \in Nat : n \in Near(a, d)

Distance(a, n) == CHOOSE d \in Nat : n \in Near(a, d) /\ \A i \in Nat : n \in Near(a, i) => d <= i

LEMMA Distances ==
  ASSUME NEW a \in Ids, NEW n, Reachable(a, n)
  PROVE  /\ n \in Ids
         /\ Distance(a, n) \in Nat
         /\ \A d \in Nat : n \in Near(a, d) <=> Distance(a, n) <= d
         /\ Distance(a, n) = 0 <=> n = a
<1> DEFINE D == {d \in Nat : n \in Near(a, d)}
<1>1. D \subseteq Nat /\ D # {}
  BY DEF Reachable
<1>2. \E d \in Nat : n \in Near(a, d) /\ \A i \in Nat : n \in Near(a, i) => d <= i
  <2>1. \E m \in D : \A i \in D : m <= i
    <3> HIDE DEF D
    <3>1. QED BY <1>1, Least
  <2>2. QED BY <2>1
<1>3. /\ Distance(a, n) \in Nat /\ n \in Near(a, Distance(a, n))
      /\ \A i \in Nat : n \in Near(a, i) => Distance(a, n) <= i
  BY <1>2, Zenon DEF Distance
<1>4. \A d \in Nat : Distance(a, n) <= d => n \in Near(a, d)
  <2> SUFFICES ASSUME NEW d \in Nat, Distance(a, n) <= d PROVE n \in Near(a, d)
    OBVIOUS
  <2>1. Distance(a, n) \in 0..d
    BY <1>3
  <2>2. QED BY <1>3, <2>1, AroundGrows DEF Near
<1>5. Near(a, 0) = {a}
  BY AroundStep DEF Near
<1>6. n \in Ids
  <2> DEFINE S == {d \in 0..Distance(a, n) : Near(a, d) \subseteq Ids}
  <2>1. 0 \in S
    BY <1>3, <1>5
  <2>2. \A d \in 0..(Distance(a, n) - 1) : d \in S => d + 1 \in S
    <3> SUFFICES ASSUME NEW d \in 0..(Distance(a, n) - 1), d \in S PROVE d + 1 \in S
      OBVIOUS
    <3>1. d \in Nat /\ d + 1 \in 0..Distance(a, n)
      BY <1>3
    <3>2. Near(a, d + 1) = Wider(Ids, Near(a, d))
      BY <3>1, AroundStep DEF Near
    <3>3. QED BY <3>1, <3>2 DEF Wider
  <2> HIDE DEF S
  <2>3. \A d \in 0..Distance(a, n) : d \in S
    BY <1>3, <2>1, <2>2, Induction
  <2>4. Distance(a, n) \in S
    BY <1>3, <2>3
  <2>5. QED BY <1>3, <2>4 DEF S
<1>7. Distance(a, n) = 0 <=> n = a
  BY <1>3, <1>4, <1>5
<1>8. QED BY <1>3, <1>4, <1>6, <1>7

LEMMA TouchFacts ==
  ASSUME GraphTyped, NEW m, NEW n, Touch(m, n)
  PROVE  m \in Ids /\ n \in Ids /\ Touch(n, m)
<1>1. PICK e \in EdgesOf(graph) : {e.from, e.to} = {m, n}
  BY DEF Touch
<1>2. e.from \in Ids /\ e.to \in Ids
  BY <1>1, GraphSets, EdgeFields
<1>3. QED BY <1>1, <1>2 DEF Touch

LEMMA TouchReaches ==
  ASSUME GraphTyped, NEW a \in Ids, NEW m, Reachable(a, m), NEW n, Touch(m, n)
  PROVE  Reachable(a, n) /\ Distance(a, n) <= Distance(a, m) + 1
<1>1. Distance(a, m) \in Nat /\ m \in Near(a, Distance(a, m))
  BY Distances
<1>2. n \in Near(a, Distance(a, m) + 1)
  <2>1. n \in Wider(Ids, Near(a, Distance(a, m)))
    BY <1>1, TouchFacts DEF Wider
  <2>2. QED BY <1>1, <2>1, AroundStep DEF Near
<1>3. Distance(a, m) + 1 \in Nat
  BY <1>1
<1>4. Reachable(a, n)
  BY <1>2, <1>3 DEF Reachable
<1>5. n \in Near(a, Distance(a, m) + 1) <=> Distance(a, n) <= Distance(a, m) + 1
  BY <1>3, <1>4, Distances
<1>6. QED BY <1>2, <1>4, <1>5

\* Somebody is one edge nearer.
LEMMA Predecessor ==
  ASSUME NEW a \in Ids, NEW n, Reachable(a, n), NEW d \in Nat, Distance(a, n) <= d + 1
  PROVE  n \in Near(a, d) \/ \E m \in Near(a, d) : Touch(m, n)
<1>1. d + 1 \in Nat
  OBVIOUS
<1>2. n \in Near(a, d + 1)
  BY <1>1, Distances
<1>3. Near(a, d + 1) = Wider(Ids, Near(a, d))
  BY AroundStep DEF Near
<1>4. QED BY <1>2, <1>3 DEF Wider

-----------------------------------------------------------------------------
(* The neighbours of a node                                                *)

Link == Ids \X ToSet(EdgeTypes)

\* The edge is between the two nodes.
Ties(e, m, n) == {e.from, e.to} = {m, n}

LEMMA LinkedTyped ==
  ASSUME NEW e \in Edge, NEW id
  PROVE  /\ Linked(e, id) \in Seq(Link)
         /\ \A i \in 1..Len(Linked(e, id)) : Ties(e, id, Linked(e, id)[i][1])
         /\ \A n : Ties(e, id, n) => \E i \in 1..Len(Linked(e, id)) : Linked(e, id)[i][1] = n
<1> DEFINE there == IF e.from = id THEN <<<<e.to, e.type>>>> ELSE <<>>
           back  == IF e.to = id THEN <<<<e.from, e.type>>>> ELSE <<>>
<1>1. <<e.to, e.type>> \in Link /\ <<e.from, e.type>> \in Link
  BY EdgeFields DEF Link
<1>2. there \in Seq(Link) /\ back \in Seq(Link)
  BY <1>1
<1>3. /\ e.from = id => Len(there) = 1 /\ there[1][1] = e.to
      /\ e.from # id => Len(there) = 0
      /\ e.to = id => Len(back) = 1 /\ back[1][1] = e.from
      /\ e.to # id => Len(back) = 0
  OBVIOUS
<1>4. Linked(e, id) = there \o back
  BY DEF Linked
<1> HIDE DEF there, back
<1> DEFINE s == Linked(e, id)
<1>5. /\ s \in Seq(Link) /\ Len(s) = Len(there) + Len(back)
      /\ \A i \in 1..Len(s) : s[i] = IF i <= Len(there) THEN there[i] ELSE back[i - Len(there)]
  BY <1>2, <1>4
<1> HIDE DEF s
<1>6. ASSUME NEW i \in 1..Len(s) PROVE Ties(e, id, s[i][1])
  <2>1. CASE e.from = id /\ i = 1
    BY <2>1, <1>3, <1>5 DEF Ties
  <2>2. CASE e.from = id /\ i # 1
    <3>0. Len(there) = 1 /\ Len(back) \in Nat
      BY <2>2, <1>2, <1>3
    <3>1. i - Len(there) \in 1..Len(back) /\ s[i] = back[i - Len(there)]
      BY <2>2, <3>0, <1>5
    <3>2. e.to = id /\ i - Len(there) = 1 /\ s[i][1] = e.from
      BY <3>0, <3>1, <1>3
    <3>3. QED BY <3>2, <2>2 DEF Ties
  <2>3. CASE e.from # id
    <3>0. Len(there) = 0 /\ Len(back) \in Nat
      BY <2>3, <1>2, <1>3
    <3>1. i - Len(there) = i /\ i \in 1..Len(back) /\ s[i] = back[i]
      BY <2>3, <3>0, <1>5
    <3>2. e.to = id /\ i = 1 /\ s[i][1] = e.from
      BY <3>1, <1>3
    <3>3. QED BY <3>2 DEF Ties
  <2>4. QED BY <2>1, <2>2, <2>3
<1>7. ASSUME NEW n, Ties(e, id, n) PROVE \E i \in 1..Len(s) : s[i][1] = n
  <2>1. CASE e.from = id /\ e.to = n
    <3>1. 1 \in 1..Len(s) /\ s[1] = there[1]
      BY <2>1, <1>2, <1>3, <1>5
    <3>2. QED BY <3>1, <2>1, <1>3
  <2>2. CASE e.to = id /\ e.from = n /\ e.from # id
    <3>1. 1 \in 1..Len(s) /\ s[1] = back[1]
      BY <2>2, <1>2, <1>3, <1>5
    <3>2. QED BY <3>1, <2>2, <1>3
  <2>3. QED BY <1>7, <2>1, <2>2 DEF Ties
<1>8. QED BY <1>5, <1>6, <1>7 DEF s

NeighborsRun(linked, id) ==
  /\ linked[0] = <<>> /\ Neighbors(graph, id) = linked[Len(graph.edges)]
  /\ \A i \in 0..Len(graph.edges) : linked[i] \in Seq(Link)
  /\ \A i \in 1..Len(graph.edges) : linked[i] = linked[i - 1] \o Linked(graph.edges[i], id)

LEMMA NeighborsLoop ==
  ASSUME GraphTyped, NEW id
  PROVE  \E linked : NeighborsRun(linked, id)
<1> DEFINE es == graph.edges
           n == Len(es)
           State == Seq(Link)
           More(s, i) == s \o Linked(es[i], id)
           step == [i \in 1..n |-> [s \in State |-> More(s, i)]]
           Run(f) == f = [i \in 0..n |-> IF i = 0 THEN <<>> ELSE More(f[i - 1], i)]
           linked == CHOOSE f : Run(f)
<1>1. n \in Nat /\ \A i \in 1..n : \A s \in State : More(s, i) \in State
  BY GraphSets, LinkedTyped
<1>2. Neighbors(graph, id) = linked[n] /\ <<>> \in State
  BY DEF Neighbors
<1> HIDE DEF es, n, More, State
<1>3. /\ step \in [1..n -> [State -> State]]
      /\ \A i \in 1..n : \A s \in State : step[i][s] = More(s, i)
  BY <1>1
<1> HIDE DEF step
<1>4. PICK f : History(f, n, State, <<>>, step)
  BY <1>1, <1>2, <1>3, LoopExists
<1>5. \A i \in 1..n : i - 1 \in 0..n /\ f[i] = More(f[i - 1], i)
  BY <1>1, <1>3, <1>4 DEF History
<1>6. Run(f)
  BY <1>1, <1>4, <1>5 DEF History
<1>7. Run(linked)
  BY <1>6, Zenon
<1>8. \A h : Run(h) => h[0] = <<>> /\ \A i \in 1..n : h[i] = More(h[i - 1], i)
  BY <1>1
<1> HIDE DEF Run, linked
<1>9. /\ linked[0] = <<>>
      /\ \A i \in 1..n : linked[i - 1] \in State => linked[i] = step[i][linked[i - 1]]
  BY <1>3, <1>7, <1>8
<1>10. \A i \in 0..n : linked[i] \in State
  <2>1. Follows(linked, n, State, <<>>, step)
    BY <1>9 DEF Follows
  <2>2. QED BY <2>1, <1>1, <1>2, <1>3, LoopStays
<1>11. \A i \in 1..n : linked[i] = More(linked[i - 1], i)
  BY <1>7, <1>8
<1>12. QED BY <1>2, <1>9, <1>10, <1>11 DEF NeighborsRun, State, More, n, es

LEMMA LinkedOf ==
  \A id : \A e \in Edge :
    /\ Linked(e, id) \in Seq(Link)
    /\ \A i \in 1..Len(Linked(e, id)) : Ties(e, id, Linked(e, id)[i][1])
    /\ \A n : Ties(e, id, n) => \E i \in 1..Len(Linked(e, id)) : Linked(e, id)[i][1] = n
<1> SUFFICES ASSUME NEW id, NEW e \in Edge
             PROVE  /\ Linked(e, id) \in Seq(Link)
                    /\ \A i \in 1..Len(Linked(e, id)) : Ties(e, id, Linked(e, id)[i][1])
                    /\ \A n : Ties(e, id, n) => \E i \in 1..Len(Linked(e, id)) : Linked(e, id)[i][1] = n
  OBVIOUS
<1> QED BY LinkedTyped

\* The neighbours are exactly the nodes an edge away.
LEMMA NeighborsAre ==
  ASSUME GraphTyped, NEW id
  PROVE  /\ Neighbors(graph, id) \in Seq(Link)
         /\ \A i \in 1..Len(Neighbors(graph, id)) : Touch(id, Neighbors(graph, id)[i][1])
         /\ \A n : Touch(id, n) => \E i \in 1..Len(Neighbors(graph, id)) : Neighbors(graph, id)[i][1] = n
<1> DEFINE es == graph.edges
           n == Len(es)
<1>1. n \in Nat /\ (\A i \in 1..n : es[i] \in Edge) /\ EdgesOf(graph) = {es[i] : i \in 1..n}
  BY GraphSets DEF EdgesOf, ToSet
<1>2. PICK linked : NeighborsRun(linked, id)
  BY NeighborsLoop
<1>3. /\ linked[0] = <<>> /\ Neighbors(graph, id) = linked[n]
      /\ \A i \in 0..n : linked[i] \in Seq(Link)
      /\ \A i \in 1..n : linked[i] = linked[i - 1] \o Linked(es[i], id)
  BY <1>2 DEF NeighborsRun
<1> HIDE DEF es, n
<1> DEFINE Held(k, m) == \E i \in 1..Len(linked[k]) : linked[k][i][1] = m
           Joins(k, m) == \E j \in 1..k : Ties(es[j], id, m)
           Right(k) == \A m : Held(k, m) <=> Joins(k, m)
           S == {k \in 0..n : Right(k)}
<1>4. 0 \in S
  <2>1. Len(linked[0]) = 0 /\ 1..0 = {}
    BY <1>3
  <2>2. QED BY <2>1, <1>1
<1>5. ASSUME NEW k \in 0..(n - 1), k \in S PROVE k + 1 \in S
  <2>1. k + 1 \in 1..n /\ k + 1 \in 0..n /\ (k + 1) - 1 = k /\ k \in Nat /\ k \in 0..n
    BY <1>1
  <2> DEFINE old == linked[k]
             new == linked[k + 1]
             more == Linked(es[k + 1], id)
  <2>2. old \in Seq(Link) /\ new = old \o more /\ new \in Seq(Link)
    BY <2>1, <1>3
  <2>3. es[k + 1] \in Edge
    BY <2>1, <1>1
  <2>4. /\ more \in Seq(Link)
        /\ \A m : (\E i \in 1..Len(more) : more[i][1] = m) <=> Ties(es[k + 1], id, m)
    <3>1. /\ more \in Seq(Link)
          /\ \A i \in 1..Len(more) : Ties(es[k + 1], id, more[i][1])
          /\ \A m : Ties(es[k + 1], id, m) => \E i \in 1..Len(more) : more[i][1] = m
      BY <2>3, LinkedOf, Zenon
    <3> HIDE DEF more
    <3>2. QED BY <3>1
  <2> HIDE DEF old, new, more
  <2>5. \A m : (\E i \in 1..Len(new) : new[i][1] = m)
                 <=> (\E i \in 1..Len(old) : old[i][1] = m) \/ (\E i \in 1..Len(more) : more[i][1] = m)
    <3>1. /\ Len(new) = Len(old) + Len(more) /\ Len(old) \in Nat /\ Len(more) \in Nat
          /\ \A i \in 1..Len(old) : new[i] = old[i]
          /\ \A i \in 1..Len(more) : new[Len(old) + i] = more[i]
      BY <2>2, <2>4
    <3>2. \A i \in 1..Len(new) : i \in 1..Len(old) \/ (i - Len(old) \in 1..Len(more) /\ Len(old) + (i - Len(old)) = i)
      BY <3>1
    <3>3. (\A i \in 1..Len(old) : i \in 1..Len(new)) /\ \A i \in 1..Len(more) : Len(old) + i \in 1..Len(new)
      BY <3>1
    <3>4. ASSUME NEW m, NEW i \in 1..Len(new), new[i][1] = m
          PROVE  (\E j \in 1..Len(old) : old[j][1] = m) \/ (\E j \in 1..Len(more) : more[j][1] = m)
      <4>1. CASE i \in 1..Len(old)
        BY <4>1, <3>1, <3>4
      <4>2. CASE i - Len(old) \in 1..Len(more) /\ Len(old) + (i - Len(old)) = i
        <5>1. more[i - Len(old)][1] = m
          BY <4>2, <3>1, <3>4
        <5>2. QED BY <4>2, <5>1
      <4>3. QED BY <3>2, <4>1, <4>2
    <3>5. ASSUME NEW m, NEW i \in 1..Len(old), old[i][1] = m PROVE \E j \in 1..Len(new) : new[j][1] = m
      BY <3>1, <3>3, <3>5
    <3>6. ASSUME NEW m, NEW i \in 1..Len(more), more[i][1] = m PROVE \E j \in 1..Len(new) : new[j][1] = m
      BY <3>1, <3>3, <3>6
    <3>7. QED BY <3>4, <3>5, <3>6
  <2>6. \A m : Joins(k + 1, m) <=> Joins(k, m) \/ Ties(es[k + 1], id, m)
    <3>1. \A j \in 1..(k + 1) : j \in 1..k \/ j = k + 1
      BY <2>1
    <3>2. (\A j \in 1..k : j \in 1..(k + 1)) /\ k + 1 \in 1..(k + 1)
      BY <2>1
    <3>3. QED BY <3>1, <3>2
  <2>7. \A m : (\E i \in 1..Len(old) : old[i][1] = m) <=> Joins(k, m)
    BY <1>5 DEF old
  <2> HIDE DEF Joins
  <2>8. Right(k + 1)
    BY <2>4, <2>5, <2>6, <2>7 DEF new
  <2>9. QED BY <2>1, <2>8
<1> HIDE DEF S
<1>6. \A k \in 0..(n - 1) : k \in S => k + 1 \in S
  BY <1>5
<1>7. \A k \in 0..n : k \in S
  BY <1>1, <1>4, <1>6, Induction
<1>8. Right(n)
  <2>1. n \in S
    BY <1>1, <1>7
  <2>2. QED BY <2>1 DEF S
<1>9. \A m : Joins(n, m) <=> Touch(id, m)
  BY <1>1 DEF Touch, Ties
<1> HIDE DEF Joins
<1>10. n \in 0..n
  BY <1>1
<1>11. QED BY <1>3, <1>8, <1>9, <1>10

-----------------------------------------------------------------------------
(* The search of shortestPath                                              *)

Waiting == [id : Ids, prev : Ids \cup {NoNode}]

Met(queue) == {queue[i].id : i \in 1..Len(queue)}

LEMMA WaitingTyped ==
  ASSUME NEW queue \in Seq(Waiting)
  PROVE  /\ Len(queue) \in Nat /\ DOMAIN queue = 1..Len(queue)
         /\ \A i \in 1..Len(queue) : /\ queue[i] \in Waiting /\ queue[i].id \in Ids
                                     /\ queue[i].prev \in Ids \cup {NoNode}
<1>1. \A w \in Waiting : w.id \in Ids /\ w.prev \in Ids \cup {NoNode}
  BY DEF Waiting
<1> DEFINE W == Waiting
<1>2. queue \in Seq(W)
  OBVIOUS
<1> HIDE DEF W
<1>3. Len(queue) \in Nat /\ DOMAIN queue = 1..Len(queue) /\ \A i \in 1..Len(queue) : queue[i] \in W
  BY <1>2
<1>4. QED BY <1>1, <1>3 DEF W

LEMMA JoinTyped ==
  ASSUME NEW queue \in Seq(Waiting), NEW current \in Ids, NEW nb \in Link
  PROVE  Join(queue, current, nb) \in Seq(Waiting)
<1>1. [id |-> nb[1], prev |-> current] \in Waiting
  BY DEF Waiting, Link
<1>2. QED BY <1>1 DEF Join

ExpandedRun(joined, queue, current) ==
  /\ joined[0] = queue /\ Expanded(graph, queue, current) = joined[Len(Neighbors(graph, current))]
  /\ \A i \in 0..Len(Neighbors(graph, current)) : joined[i] \in Seq(Waiting)
  /\ \A i \in 1..Len(Neighbors(graph, current)) :
       joined[i] = Join(joined[i - 1], current, Neighbors(graph, current)[i])

LEMMA ExpandedLoop ==
  ASSUME GraphTyped, NEW queue \in Seq(Waiting), NEW current \in Ids
  PROVE  \E joined : ExpandedRun(joined, queue, current)
<1> DEFINE nbs == Neighbors(graph, current)
           n == Len(nbs)
           State == Seq(Waiting)
           More(q, i) == Join(q, current, nbs[i])
           step == [i \in 1..n |-> [q \in State |-> More(q, i)]]
           Run(f) == f = [i \in 0..n |-> IF i = 0 THEN queue ELSE More(f[i - 1], i)]
           joined == CHOOSE f : Run(f)
<1>1. n \in Nat /\ \A i \in 1..n : \A q \in State : More(q, i) \in State
  <2>1. nbs \in Seq(Link)
    BY NeighborsAre
  <2>2. n \in Nat /\ \A i \in 1..n : nbs[i] \in Link
    BY <2>1
  <2>3. QED BY <2>2, JoinTyped
<1>2. Expanded(graph, queue, current) = joined[n] /\ queue \in State
  BY DEF Expanded
<1> HIDE DEF nbs, n, More, State
<1>3. /\ step \in [1..n -> [State -> State]]
      /\ \A i \in 1..n : \A s \in State : step[i][s] = More(s, i)
  BY <1>1
<1> HIDE DEF step
<1>4. PICK f : History(f, n, State, queue, step)
  BY <1>1, <1>2, <1>3, LoopExists
<1>5. \A i \in 1..n : i - 1 \in 0..n /\ f[i] = More(f[i - 1], i)
  BY <1>1, <1>3, <1>4 DEF History
<1>6. Run(f)
  BY <1>1, <1>4, <1>5 DEF History
<1>7. Run(joined)
  BY <1>6, Zenon
<1>8. \A h : Run(h) => h[0] = queue /\ \A i \in 1..n : h[i] = More(h[i - 1], i)
  BY <1>1
<1> HIDE DEF Run, joined
<1>9. Follows(joined, n, State, queue, step)
  BY <1>3, <1>7, <1>8 DEF Follows
<1>10. \A i \in 0..n : joined[i] \in State
  BY <1>1, <1>2, <1>3, <1>9, LoopStays
<1>11. joined[0] = queue /\ \A i \in 1..n : joined[i] = More(joined[i - 1], i)
  BY <1>7, <1>8
<1>12. QED BY <1>2, <1>10, <1>11 DEF ExpandedRun, State, More, n, nbs

\* A node before its turn: its place in the queue.
LEMMA ExpandedTyped ==
  ASSUME GraphTyped, NEW queue \in Seq(Waiting), NEW current \in Ids
  PROVE  Expanded(graph, queue, current) \in Seq(Waiting)
<1>1. PICK joined : ExpandedRun(joined, queue, current)
  BY ExpandedLoop
<1> DEFINE n == Len(Neighbors(graph, current))
<1>2. n \in 0..n
  <2>1. Neighbors(graph, current) \in Seq(Link)
    BY NeighborsAre
  <2>2. QED BY <2>1
<1> HIDE DEF n
<1>3. QED BY <1>1, <1>2 DEF ExpandedRun, n

LEMMA TurnTyped ==
  ASSUME GraphTyped, NEW queue \in Seq(Waiting), NEW k \in Nat, k > 0, NEW to
  PROVE  Turn(graph, queue, k, to) \in Seq(Waiting)
<1>1. CASE k > Len(queue) \/ \E j \in 1..k : j <= Len(queue) /\ queue[j].id = to
  BY <1>1 DEF Turn
<1>2. CASE ~ (k > Len(queue) \/ \E j \in 1..k : j <= Len(queue) /\ queue[j].id = to)
  <2>1. k \in 1..Len(queue)
    BY <1>2
  <2>2. queue[k].id \in Ids
    BY <2>1, WaitingTyped
  <2>3. Turn(graph, queue, k, to) = Expanded(graph, queue, queue[k].id)
    BY <1>2, Zenon DEF Turn
  <2>4. QED BY <2>2, <2>3, ExpandedTyped
<1>3. QED BY <1>1, <1>2

Rounds == Cardinality(Ids)

First1(from) == <<[id |-> from, prev |-> NoNode]>>

SearchRun(round, from, to) ==
  /\ round[0] = First1(from) /\ Search(graph, from, to) = round[Rounds]
  /\ \A k \in 0..Rounds : round[k] \in Seq(Waiting)
  /\ \A k \in 1..Rounds : round[k] = Turn(graph, round[k - 1], k, to)

LEMMA SearchLoop ==
  ASSUME GraphTyped, NEW from \in Ids, NEW to
  PROVE  \E round : SearchRun(round, from, to)
<1> DEFINE n == Rounds
           State == Seq(Waiting)
           z == First1(from)
           More(q, i) == Turn(graph, q, i, to)
           step == [i \in 1..n |-> [q \in State |-> More(q, i)]]
           Run(f) == f = [i \in 0..n |-> IF i = 0 THEN z ELSE More(f[i - 1], i)]
           round == CHOOSE f : Run(f)
<1>1. n \in Nat /\ \A i \in 1..n : \A q \in State : More(q, i) \in State
  <2>1. n \in Nat
    BY IdsAssumption, FS_CardinalityType DEF Rounds
  <2>2. \A i \in 1..n : i \in Nat /\ i > 0
    BY <2>1
  <2>3. QED BY <2>1, <2>2, TurnTyped
<1>2. Search(graph, from, to) = round[n] /\ z \in State
  <2>1. [id |-> from, prev |-> NoNode] \in Waiting
    BY DEF Waiting
  <2>2. QED BY <2>1 DEF Search, Rounds, First1
<1> HIDE DEF n, More, State, z
<1>3. /\ step \in [1..n -> [State -> State]]
      /\ \A i \in 1..n : \A s \in State : step[i][s] = More(s, i)
  BY <1>1
<1> HIDE DEF step
<1>4. PICK f : History(f, n, State, z, step)
  BY <1>1, <1>2, <1>3, LoopExists
<1>5. \A i \in 1..n : i - 1 \in 0..n /\ f[i] = More(f[i - 1], i)
  BY <1>1, <1>3, <1>4 DEF History
<1>6. Run(f)
  BY <1>1, <1>4, <1>5 DEF History
<1>7. Run(round)
  BY <1>6, Zenon
<1>8. \A h : Run(h) => h[0] = z /\ \A i \in 1..n : h[i] = More(h[i - 1], i)
  BY <1>1
<1> HIDE DEF Run, round
<1>9. Follows(round, n, State, z, step)
  BY <1>3, <1>7, <1>8 DEF Follows
<1>10. \A i \in 0..n : round[i] \in State
  BY <1>1, <1>2, <1>3, <1>9, LoopStays
<1>11. round[0] = z /\ \A i \in 1..n : round[i] = More(round[i - 1], i)
  BY <1>7, <1>8
<1>12. QED BY <1>2, <1>10, <1>11 DEF SearchRun, State, More, n, z

\* What the queue always is: everyone in it was met once, from somebody in
\* front of it who is one edge nearer, and the nearer is in front.
Honestly(q, a) ==
  /\ q \in Seq(Waiting) /\ Len(q) >= 1
  /\ q[1].id = a /\ q[1].prev = NoNode
  /\ \A i, j \in 1..Len(q) : q[i].id = q[j].id => i = j
  /\ \A i \in 1..Len(q) : Reachable(a, q[i].id)
  /\ \A i, j \in 1..Len(q) : i <= j => Distance(a, q[i].id) <= Distance(a, q[j].id)
  /\ \A i \in 2..Len(q) : \E j \in 1..Len(q) :
       /\ j < i /\ q[i].prev = q[j].id /\ Touch(q[j].id, q[i].id)
       /\ Distance(a, q[i].id) = Distance(a, q[j].id) + 1

\* While the k-th has its turn: all that is as near as it has been met, and
\* nothing more than one edge further.
Turning(q, a, k) ==
  /\ k \in 1..Len(q)
  /\ Near(a, Distance(a, q[k].id)) \subseteq Met(q)
  /\ \A i \in 1..Len(q) : Distance(a, q[i].id) <= Distance(a, q[k].id) + 1

LEMMA JoinKeeps ==
  ASSUME GraphTyped, NEW a \in Ids, NEW q, NEW k, Honestly(q, a), Turning(q, a, k),
         NEW nb \in Link, Touch(q[k].id, nb[1]), NEW p, p = Join(q, q[k].id, nb)
  PROVE  /\ Honestly(p, a) /\ Turning(p, a, k) /\ p[k] = q[k]
         /\ Len(p) >= Len(q) /\ (\A i \in 1..Len(q) : p[i] = q[i])
         /\ nb[1] \in Met(p)
<1> DEFINE n == Len(q)
           new == [id |-> nb[1], prev |-> q[k].id]
<1>1. /\ q \in Seq(Waiting) /\ n \in Nat /\ n >= 1 /\ k \in 1..n /\ DOMAIN q = 1..n
      /\ \A i \in 1..n : q[i] \in Waiting /\ q[i].id \in Ids
  <2>1. q \in Seq(Waiting) /\ n >= 1 /\ k \in 1..n
    BY DEF Honestly, Turning
  <2> HIDE DEF n
  <2>2. QED BY <2>1, WaitingTyped DEF n
<1>2. CASE \E i \in DOMAIN q : q[i].id = nb[1]
  <2>1. p = q
    BY <1>2 DEF Join
  <2>2. nb[1] \in Met(q)
    BY <1>1, <1>2 DEF Met
  <2>3. QED BY <2>1, <2>2, <1>1
<1>3. CASE ~ \E i \in DOMAIN q : q[i].id = nb[1]
  <2>1. p = Append(q, new)
    BY <1>3 DEF Join
  <2>2. new \in Waiting /\ new.id = nb[1] /\ new.prev = q[k].id
    BY <1>1 DEF Waiting, Link
  <2>3. /\ p \in Seq(Waiting) /\ Len(p) = n + 1 /\ p[n + 1] = new
        /\ \A i \in 1..n : p[i] = q[i]
    BY <1>1, <2>1, <2>2
  <2> DEFINE dk == Distance(a, q[k].id)
             dn == Distance(a, nb[1])
  <2>4. Reachable(a, q[k].id) /\ dk \in Nat
    BY <1>1, Distances DEF Honestly
  <2>5. Reachable(a, nb[1]) /\ dn \in Nat /\ dn <= dk + 1
    BY <2>4, TouchReaches, Distances
  <2>6. nb[1] \notin Met(q)
    BY <1>1, <1>3 DEF Met
  <2>7. dn = dk + 1
    <3>1. ~ (dn <= dk)
      <4>1. nb[1] \notin Near(a, dk)
        BY <2>6 DEF Turning
      <4>2. QED BY <4>1, <2>4, <2>5, Distances
    <3>2. QED BY <3>1, <2>4, <2>5
  <2> HIDE DEF new
  <2>8. \A i \in 1..n : /\ Reachable(a, q[i].id) /\ Distance(a, q[i].id) \in Nat
                        /\ Distance(a, q[i].id) <= dk + 1
    BY <1>1, Distances DEF Honestly, Turning
  <2> HIDE DEF dk, dn, n
  <2>9. \A i \in 1..Len(p) : (i \in 1..n /\ p[i] = q[i]) \/ (i = n + 1 /\ p[i] = new)
    BY <1>1, <2>3
  <2>10. Honestly(p, a)
    <3>1. Len(p) >= 1 /\ p[1].id = a /\ p[1].prev = NoNode
      BY <1>1, <2>3 DEF Honestly, n
    <3>2. \A i \in 1..n : q[i].id # new.id
      BY <1>1, <1>3, <2>2
    <3>3. \A i, j \in 1..Len(p) : p[i].id = p[j].id => i = j
      BY <2>9, <3>2 DEF Honestly, n
    <3>4. \A i \in 1..Len(p) : Reachable(a, p[i].id)
      BY <2>9, <2>5, <2>2, <2>8
    <3>5. \A i, j \in 1..Len(p) : i <= j => Distance(a, p[i].id) <= Distance(a, p[j].id)
      <4>1. \A i, j \in 1..n : i <= j => Distance(a, q[i].id) <= Distance(a, q[j].id)
        BY DEF Honestly, n
      <4>2. Distance(a, new.id) = dk + 1 /\ dk \in Nat
        BY <2>2, <2>4, <2>7 DEF dn, dk
      <4>3. QED BY <4>1, <4>2, <2>8, <2>9, <1>1
    <3>6. \A i \in 2..Len(p) : \E j \in 1..Len(p) :
            /\ j < i /\ p[i].prev = p[j].id /\ Touch(p[j].id, p[i].id)
            /\ Distance(a, p[i].id) = Distance(a, p[j].id) + 1
      <4>1. ASSUME NEW i \in 2..Len(p)
            PROVE  \E j \in 1..Len(p) : /\ j < i /\ p[i].prev = p[j].id /\ Touch(p[j].id, p[i].id)
                                        /\ Distance(a, p[i].id) = Distance(a, p[j].id) + 1
        <5>1. CASE i \in 1..n
          <6>1. PICK j \in 1..n : /\ j < i /\ q[i].prev = q[j].id /\ Touch(q[j].id, q[i].id)
                                  /\ Distance(a, q[i].id) = Distance(a, q[j].id) + 1
            BY <5>1, <4>1 DEF Honestly, n
          <6>2. j \in 1..Len(p) /\ p[j] = q[j] /\ p[i] = q[i]
            BY <1>1, <2>3, <5>1
          <6>3. QED BY <6>1, <6>2
        <5>2. CASE i = n + 1
          <6>1. k \in 1..Len(p) /\ p[k] = q[k] /\ k < i /\ p[i] = new
            BY <1>1, <2>3, <5>2
          <6>2. p[i].prev = p[k].id /\ Touch(p[k].id, p[i].id) /\ Distance(a, p[i].id) = Distance(a, p[k].id) + 1
            BY <6>1, <2>2, <2>7 DEF dn, dk
          <6>3. QED BY <6>1, <6>2
        <5>3. QED BY <5>1, <5>2, <2>9, <1>1, <2>3
      <4>2. QED BY <4>1
    <3>7. QED BY <2>3, <3>1, <3>3, <3>4, <3>5, <3>6 DEF Honestly
  <2>11. Met(q) \subseteq Met(p) /\ nb[1] \in Met(p)
    <3>1. \A i \in 1..n : i \in 1..Len(p) /\ p[i].id = q[i].id
      BY <1>1, <2>3
    <3>2. n + 1 \in 1..Len(p) /\ p[n + 1].id = nb[1]
      BY <1>1, <2>3, <2>2
    <3>3. QED BY <3>1, <3>2 DEF Met, n
  <2>12. Turning(p, a, k)
    <3>1. k \in 1..Len(p) /\ p[k] = q[k]
      BY <1>1, <2>3
    <3>2. Near(a, dk) \subseteq Met(p)
      BY <2>11 DEF Turning, dk
    <3>3. \A i \in 1..Len(p) : Distance(a, p[i].id) <= dk + 1
      <4>1. Distance(a, new.id) = dk + 1 /\ dk \in Nat
        BY <2>2, <2>4, <2>7 DEF dn, dk
      <4>2. QED BY <4>1, <2>8, <2>9
    <3>4. QED BY <3>1, <3>2, <3>3 DEF Turning, dk
  <2>13. QED BY <1>1, <2>3, <2>10, <2>11, <2>12 DEF n
<1>4. QED BY <1>2, <1>3

\* After the turn of the k-th, the queue is p.
Turned(q, p, a, k) ==
  /\ Honestly(p, a) /\ Turning(p, a, k) /\ p[k] = q[k]
  /\ Len(p) >= Len(q) /\ \A i \in 1..Len(q) : p[i] = q[i]
  /\ \A n : Touch(q[k].id, n) => n \in Met(p)

LEMMA ExpandedKeeps ==
  ASSUME GraphTyped, NEW a \in Ids, NEW q, NEW k, Honestly(q, a), Turning(q, a, k)
  PROVE  Turned(q, Expanded(graph, q, q[k].id), a, k)
<1> DEFINE p == Expanded(graph, q, q[k].id)
           c == q[k].id
           nbs == Neighbors(graph, c)
           n == Len(nbs)
<1>1. q \in Seq(Waiting) /\ k \in 1..Len(q) /\ c \in Ids /\ Len(q) \in Nat
  BY WaitingTyped DEF Honestly, Turning
<1>2. PICK joined : ExpandedRun(joined, q, c)
  BY <1>1, ExpandedLoop
<1>3. /\ joined[0] = q /\ p = joined[n] /\ \A i \in 1..n : joined[i] = Join(joined[i - 1], c, nbs[i])
      /\ \A i \in 0..n : joined[i] \in Seq(Waiting)
  BY <1>2 DEF ExpandedRun
<1>4. n \in Nat /\ \A i \in 1..n : nbs[i] \in Link /\ Touch(c, nbs[i][1])
  <2>1. nbs \in Seq(Link) /\ \A i \in 1..n : Touch(c, nbs[i][1])
    BY NeighborsAre
  <2> HIDE DEF nbs
  <2>2. QED BY <2>1
<1>5. \A m : Touch(c, m) => \E i \in 1..n : nbs[i][1] = m
  BY NeighborsAre, Zenon
<1> HIDE DEF nbs, n
<1> DEFINE Keeps(i) == /\ Honestly(joined[i], a) /\ Turning(joined[i], a, k) /\ joined[i][k] = q[k]
                       /\ Len(joined[i]) >= Len(q) /\ \A j \in 1..Len(q) : joined[i][j] = q[j]
                       /\ \A j \in 1..i : nbs[j][1] \in Met(joined[i])
           S == {i \in 0..n : Keeps(i)}
<1>6. 0 \in S
  <2>1. 0 \in 0..n /\ Len(q) >= Len(q)
    BY <1>1, <1>4
  <2>2. QED BY <2>1, <1>3
<1>7. ASSUME NEW i \in 0..(n - 1), i \in S PROVE i + 1 \in S
  <2>1. i + 1 \in 1..n /\ i + 1 \in 0..n /\ (i + 1) - 1 = i /\ i \in Nat /\ i \in 0..n
    BY <1>4
  <2> DEFINE old == joined[i]
             new == joined[i + 1]
  <2>2. new = Join(old, c, nbs[i + 1])
    BY <2>1, <1>3
  <2>3. nbs[i + 1] \in Link /\ Touch(c, nbs[i + 1][1])
    BY <2>1, <1>4
  <2>4. Keeps(i)
    BY <1>7
  <2>5. Len(old) \in Nat /\ Len(new) \in Nat /\ old \in Seq(Waiting)
    BY <2>1, <1>3, WaitingTyped
  <2> HIDE DEF old, new
  <2>6. Honestly(old, a) /\ Turning(old, a, k) /\ old[k] = q[k] /\ Len(old) >= Len(q)
        /\ (\A j \in 1..Len(q) : old[j] = q[j]) /\ \A j \in 1..i : nbs[j][1] \in Met(old)
    BY <2>4 DEF old
  <2>7. new = Join(old, old[k].id, nbs[i + 1]) /\ Touch(old[k].id, nbs[i + 1][1])
    BY <2>2, <2>3, <2>6
  <2>8. /\ Honestly(new, a) /\ Turning(new, a, k) /\ new[k] = old[k]
        /\ Len(new) >= Len(old) /\ (\A j \in 1..Len(old) : new[j] = old[j])
        /\ nbs[i + 1][1] \in Met(new)
    BY <2>3, <2>6, <2>7, JoinKeeps
  <2>9. Len(new) >= Len(q) /\ \A j \in 1..Len(q) : new[j] = q[j]
    <3>1. \A j \in 1..Len(q) : j \in 1..Len(old)
      BY <1>1, <2>5, <2>6
    <3>2. Len(new) >= Len(q)
      BY <1>1, <2>5, <2>6, <2>8
    <3>3. QED BY <3>1, <3>2, <2>6, <2>8
  <2>10. Met(old) \subseteq Met(new)
    <3>1. \A j \in 1..Len(old) : j \in 1..Len(new) /\ new[j].id = old[j].id
      BY <2>5, <2>8
    <3>2. QED BY <3>1 DEF Met
  <2>11. \A j \in 1..(i + 1) : nbs[j][1] \in Met(new)
    <3>1. \A j \in 1..(i + 1) : j \in 1..i \/ j = i + 1
      BY <2>1
    <3>2. QED BY <3>1, <2>6, <2>8, <2>10
  <2>12. Keeps(i + 1)
    BY <2>6, <2>8, <2>9, <2>11 DEF new
  <2>13. QED BY <2>1, <2>12
<1> HIDE DEF S
<1>8. \A i \in 0..(n - 1) : i \in S => i + 1 \in S
  BY <1>7
<1>9. \A i \in 0..n : i \in S
  BY <1>4, <1>6, <1>8, Induction
<1>10. Keeps(n)
  <2>1. n \in S
    BY <1>4, <1>9
  <2>2. QED BY <2>1 DEF S
<1>11. QED BY <1>3, <1>5, <1>10 DEF Turned

\* The first k had their turn: who is next to them was met; and whoever is
\* next in the queue may have its turn.
Full(q, a, k) ==
  /\ \A i \in 1..Len(q) : i <= k => \A n : Touch(q[i].id, n) => n \in Met(q)
  /\ k < Len(q) => Turning(q, a, k + 1)

Stopped(q, k, to) == \E j \in 1..k : j <= Len(q) /\ q[j].id = to

Searched(q, a, k, to) == Honestly(q, a) /\ (Stopped(q, k, to) \/ Full(q, a, k))

LEMMA FullAfter ==
  ASSUME GraphTyped, NEW a \in Ids, NEW q, NEW k, Honestly(q, a), Turning(q, a, k),
         \A i \in 1..Len(q) : i <= k => \A n : Touch(q[i].id, n) => n \in Met(q)
  PROVE  Full(q, a, k)
<1>1. q \in Seq(Waiting) /\ Len(q) \in Nat /\ k \in 1..Len(q)
  BY WaitingTyped DEF Honestly, Turning
<1>2. \A i \in 1..Len(q) : Distance(a, q[i].id) \in Nat /\ Reachable(a, q[i].id)
  BY Distances DEF Honestly
<1>3. ASSUME k < Len(q) PROVE Turning(q, a, k + 1)
  <2>1. k + 1 \in 1..Len(q)
    BY <1>1, <1>3
  <2> DEFINE d == Distance(a, q[k].id)
             e == Distance(a, q[k + 1].id)
  <2>2. d \in Nat /\ e \in Nat /\ d <= e /\ e <= d + 1
    <3>1. k <= k + 1 /\ k \in 1..Len(q)
      BY <1>1
    <3>2. QED BY <1>2, <2>1, <3>1 DEF Honestly, Turning
  <2>3. \A i \in 1..Len(q) : Distance(a, q[i].id) <= e + 1
    <3>1. \A i \in 1..Len(q) : Distance(a, q[i].id) <= d + 1
      BY DEF Turning
    <3> HIDE DEF d, e
    <3>2. QED BY <3>1, <2>2, <1>2
  <2>4. Near(a, d) \subseteq Met(q)
    BY DEF Turning
  <2>5. ASSUME NEW m \in Near(a, e) PROVE m \in Met(q)
    <3>1. CASE e = d
      BY <3>1, <2>4, <2>5
    <3>2. CASE e = d + 1
      <4>1. Near(a, e) = Wider(Ids, Near(a, d))
        BY <2>2, <3>2, AroundStep DEF Near
      <4>2. CASE m \in Near(a, d)
        BY <4>2, <2>4
      <4>3. CASE \E w \in Near(a, d) : Touch(w, m)
        <5>1. PICK w \in Near(a, d) : Touch(w, m)
          BY <4>3
        <5>2. PICK i \in 1..Len(q) : q[i].id = w
          BY <5>1, <2>4 DEF Met
        <5>3. Distance(a, w) <= d
          BY <1>2, <2>2, <5>1, <5>2, Distances
        <5>4. i <= k
          <6>1. ASSUME ~ (i <= k) PROVE FALSE
            <7>1. k + 1 <= i
              BY <1>1, <6>1
            <7>2. e <= Distance(a, q[i].id)
              BY <2>1, <7>1 DEF Honestly
            <7>3. Distance(a, q[i].id) <= d
              BY <5>2, <5>3
            <7> HIDE DEF d, e
            <7>4. QED BY <7>2, <7>3, <3>2, <2>2, <1>2
          <6>2. QED BY <6>1
        <5>5. QED BY <5>1, <5>2, <5>4
      <4>4. QED BY <4>1, <4>2, <4>3, TouchFacts DEF Wider
    <3>3. e = d \/ e = d + 1
      <4> HIDE DEF d, e
      <4>1. QED BY <2>2
    <3>4. QED BY <3>1, <3>2, <3>3
  <2>6. QED BY <2>1, <2>3, <2>5 DEF Turning
<1>4. QED BY <1>3 DEF Full

LEMMA TurnKeeps ==
  ASSUME GraphTyped, NEW a \in Ids, NEW to, NEW q, NEW k \in Nat, Searched(q, a, k, to)
  PROVE  Searched(Turn(graph, q, k + 1, to), a, k + 1, to)
<1> DEFINE p == Turn(graph, q, k + 1, to)
<1>1. q \in Seq(Waiting) /\ Len(q) \in Nat /\ Honestly(q, a)
  BY WaitingTyped DEF Searched, Honestly
<1>2. CASE Stopped(q, k + 1, to)
  <2>1. p = q
    BY <1>2 DEF Turn, Stopped
  <2>2. QED BY <2>1, <1>1, <1>2 DEF Searched
<1>3. CASE ~ Stopped(q, k + 1, to)
  <2>1. ~ Stopped(q, k, to)
    <3>1. \A j \in 1..k : j \in 1..(k + 1)
      OBVIOUS
    <3>2. QED BY <3>1, <1>3 DEF Stopped
  <2>2. Full(q, a, k)
    BY <2>1 DEF Searched
  <2>3. CASE k + 1 > Len(q)
    <3>1. p = q
      BY <2>3 DEF Turn
    <3>2. Full(q, a, k + 1)
      <4>1. (\A i \in 1..Len(q) : i <= k) /\ ~ (k + 1 < Len(q))
        BY <1>1, <2>3
      <4>2. QED BY <4>1, <2>2 DEF Full
    <3>3. QED BY <1>1, <3>1, <3>2 DEF Searched
  <2>4. CASE ~ (k + 1 > Len(q))
    <3>1. k < Len(q) /\ k + 1 \in 1..Len(q)
      BY <1>1, <2>4
    <3>2. Turning(q, a, k + 1)
      BY <2>2, <3>1 DEF Full
    <3>3. p = Expanded(graph, q, q[k + 1].id)
      <4>1. ~ \E j \in 1..(k + 1) : j <= Len(q) /\ q[j].id = to
        BY <1>3 DEF Stopped
      <4>2. QED BY <4>1, <2>4, Zenon DEF Turn
    <3> HIDE DEF p
    <3>4. /\ Honestly(p, a) /\ Turning(p, a, k + 1) /\ p[k + 1] = q[k + 1]
          /\ Len(p) >= Len(q) /\ (\A i \in 1..Len(q) : p[i] = q[i])
          /\ \A n : Touch(q[k + 1].id, n) => n \in Met(p)
      <4>1. Turned(q, p, a, k + 1)
        BY <1>1, <3>2, <3>3, ExpandedKeeps
      <4>2. QED BY <4>1 DEF Turned
    <3>5. Len(p) \in Nat
      BY <3>4, WaitingTyped DEF Honestly
    <3>6. Met(q) \subseteq Met(p)
      <4>1. \A j \in 1..Len(q) : j \in 1..Len(p) /\ p[j].id = q[j].id
        BY <1>1, <3>4, <3>5
      <4>2. QED BY <4>1 DEF Met
    <3>7. ASSUME NEW i \in 1..Len(p), i <= k + 1, NEW n, Touch(p[i].id, n) PROVE n \in Met(p)
      <4>1. CASE i = k + 1
        BY <4>1, <3>4, <3>7
      <4>2. CASE i <= k
        <5>1. i \in 1..Len(q) /\ p[i] = q[i]
          BY <4>2, <3>1, <3>4, <1>1
        <5>2. n \in Met(q)
          BY <5>1, <4>2, <3>7, <2>2 DEF Full
        <5>3. QED BY <5>2, <3>6
      <4>3. QED BY <4>1, <4>2, <3>7
    <3>8. Full(p, a, k + 1)
      BY <3>4, <3>7, FullAfter
    <3>9. QED BY <3>4, <3>8 DEF Searched, p
  <2>5. QED BY <2>3, <2>4
<1>4. QED BY <1>2, <1>3

\* The k-th node of the queue is at most k - 1 edges away.
LEMMA QueueDistances ==
  ASSUME NEW a \in Ids, NEW q, Honestly(q, a)
  PROVE  /\ Len(q) \in Nat /\ Len(q) <= Rounds /\ Rounds \in Nat
         /\ \A i \in 1..Len(q) : Distance(a, q[i].id) \in Nat /\ Distance(a, q[i].id) <= i - 1
<1> DEFINE n == Len(q)
<1>1. q \in Seq(Waiting) /\ n >= 1
  BY DEF Honestly
<1>2. n \in Nat /\ \A i \in 1..n : q[i].id \in Ids
  BY <1>1, WaitingTyped
<1>3. \A i \in 1..n : Distance(a, q[i].id) \in Nat
  BY Distances DEF Honestly
<1>4. n <= Rounds /\ Rounds \in Nat
  <2> DEFINE s == [i \in 1..n |-> q[i].id]
  <2>1. s \in [1..n -> Ids] /\ \A i, j \in 1..n : s[i] = s[j] => i = j
    BY <1>2 DEF Honestly
  <2> HIDE DEF s, n
  <2>2. QED BY <2>1, <1>2, IdsAssumption, PartFits, FS_CardinalityType DEF Rounds
<1> DEFINE S == {i \in 0..(n - 1) : Distance(a, q[i + 1].id) <= i}
<1>5. 0 \in S
  <2>1. Reachable(a, a) /\ Distance(a, a) = 0
    <3>1. a \in Near(a, 0)
      BY AroundStep DEF Near
    <3>2. Reachable(a, a)
      BY <3>1 DEF Reachable
    <3>3. QED BY <3>2, Distances
  <2>2. 0 \in 0..(n - 1) /\ 0 + 1 = 1 /\ q[1].id = a
    BY <1>1, <1>2 DEF Honestly
  <2>3. QED BY <2>1, <2>2
<1>6. ASSUME NEW i \in 0..(n - 1 - 1), i \in S PROVE i + 1 \in S
  <2>1. i + 2 \in 2..n /\ i + 1 \in 1..n /\ i + 1 \in 0..(n - 1) /\ (i + 1) + 1 = i + 2 /\ i \in Nat
        /\ i + 2 \in 1..n
    BY <1>2
  <2>2. PICK j \in 1..n : j < i + 2 /\ Distance(a, q[i + 2].id) = Distance(a, q[j].id) + 1
    BY <2>1 DEF Honestly
  <2>3. j <= i + 1
    BY <1>2, <2>1, <2>2
  <2>4. Distance(a, q[j].id) <= Distance(a, q[i + 1].id)
    BY <2>1, <2>3 DEF Honestly
  <2>5. Distance(a, q[i + 1].id) <= i
    BY <1>6
  <2>6. Distance(a, q[i + 2].id) <= i + 1
    BY <1>3, <2>1, <2>2, <2>4, <2>5
  <2>7. QED BY <2>1, <2>6
<1>7. n - 1 \in Nat
  BY <1>1, <1>2
<1> HIDE DEF S
<1>8. \A i \in 0..(n - 1) : i \in S
  <2>1. \A i \in 0..(n - 1 - 1) : i \in S => i + 1 \in S
    BY <1>6
  <2> DEFINE m == n - 1
  <2>2. m \in Nat /\ \A i \in 0..(m - 1) : i \in S => i + 1 \in S
    BY <1>7, <2>1
  <2> HIDE DEF m
  <2>3. \A i \in 0..m : i \in S
    BY <2>2, <1>5, Induction
  <2>4. QED BY <2>3 DEF m
<1>9. \A i \in 1..n : Distance(a, q[i].id) <= i - 1
  <2> TAKE i \in 1..n
  <2>1. i - 1 \in 0..(n - 1) /\ (i - 1) + 1 = i
    BY <1>2
  <2>2. i - 1 \in S
    BY <1>8, <2>1
  <2>3. QED BY <2>1, <2>2 DEF S
<1>10. QED BY <1>2, <1>3, <1>4, <1>9

\* When everyone in the queue has had its turn, everyone who can be reached
\* is in it.
LEMMA FullIsAll ==
  ASSUME GraphTyped, NEW a \in Ids, NEW q, NEW k \in Nat, Honestly(q, a), Full(q, a, k), Len(q) <= k,
         NEW n, Reachable(a, n)
  PROVE  n \in Met(q)
<1>1. PICK d \in Nat : n \in Near(a, d)
  BY DEF Reachable
<1>2. q \in Seq(Waiting) /\ Len(q) \in Nat
  BY WaitingTyped DEF Honestly
<1>3. \A i \in 1..Len(q) : i <= k
  BY <1>2
<1>4. \A m \in Met(q) : \A w : Touch(m, w) => w \in Met(q)
  BY <1>3 DEF Full, Met
<1> DEFINE S == {i \in 0..d : Near(a, i) \subseteq Met(q)}
<1>5. 0 \in S
  <2>1. Near(a, 0) = {a}
    BY AroundStep DEF Near
  <2>2. 1 \in 1..Len(q) /\ q[1].id = a
    BY <1>2 DEF Honestly
  <2>3. a \in Met(q)
    BY <2>2 DEF Met
  <2>4. QED BY <2>1, <2>3
<1>6. ASSUME NEW i \in 0..(d - 1), i \in S PROVE i + 1 \in S
  <2>1. i + 1 \in 0..d /\ i \in Nat
    OBVIOUS
  <2>2. Near(a, i + 1) = Wider(Ids, Near(a, i))
    BY <2>1, AroundStep DEF Near
  <2>3. Near(a, i + 1) \subseteq Met(q)
    BY <2>2, <1>4, <1>6, TouchFacts DEF Wider
  <2>4. QED BY <2>1, <2>3
<1> HIDE DEF S
<1>7. \A i \in 0..(d - 1) : i \in S => i + 1 \in S
  BY <1>6
<1>8. \A i \in 0..d : i \in S
  BY <1>5, <1>7, Induction
<1>9. d \in S
  BY <1>8
<1>10. QED BY <1>1, <1>9 DEF S

\* The search meets exactly what can be reached, and what it is looking for
\* if that can be.
LEMMA SearchEnds ==
  ASSUME GraphTyped, NEW a \in Ids, NEW to \in Ids, NEW q, q = Search(graph, a, to)
  PROVE  Honestly(q, a) /\ (to \in Met(q) <=> Reachable(a, to))
<1>1. PICK round : SearchRun(round, a, to)
  BY SearchLoop
<1>2. /\ round[0] = First1(a) /\ q = round[Rounds]
      /\ \A k \in 1..Rounds : round[k] = Turn(graph, round[k - 1], k, to)
  BY <1>1 DEF SearchRun
<1>3. Rounds \in Nat
  BY IdsAssumption, FS_CardinalityType DEF Rounds
<1> DEFINE S == {k \in 0..Rounds : Searched(round[k], a, k, to)}
<1>4. 0 \in S
  <2> DEFINE z == First1(a)
  <2>1. /\ z \in Seq(Waiting) /\ Len(z) = 1 /\ z[1].id = a /\ z[1].prev = NoNode
        /\ Met(z) = {a}
    <3>1. [id |-> a, prev |-> NoNode] \in Waiting
      BY DEF Waiting
    <3>2. QED BY <3>1 DEF First1, Met
  <2> HIDE DEF z
  <2>2. Near(a, 0) = {a}
    BY AroundStep DEF Near
  <2>3. Reachable(a, a)
    BY <2>2 DEF Reachable
  <2>4. Distance(a, a) = 0
    BY <2>3, Distances
  <2>5. \A i \in 1..1 : i = 1
    OBVIOUS
  <2>6. Honestly(z, a)
    BY <2>1, <2>3, <2>4, <2>5 DEF Honestly
  <2>7. Turning(z, a, 0 + 1)
    BY <2>1, <2>2, <2>4, <2>5 DEF Turning
  <2>8. Full(z, a, 0)
    BY <2>1, <2>5, <2>7 DEF Full
  <2>9. Searched(z, a, 0, to)
    BY <2>6, <2>8 DEF Searched
  <2>10. QED BY <1>2, <1>3, <2>9 DEF z
<1>5. ASSUME NEW k \in 0..(Rounds - 1), k \in S PROVE k + 1 \in S
  <2>1. k + 1 \in 1..Rounds /\ k + 1 \in 0..Rounds /\ (k + 1) - 1 = k /\ k \in Nat
    BY <1>3
  <2>2. round[k + 1] = Turn(graph, round[k], k + 1, to)
    BY <1>2, <2>1
  <2>3. Searched(Turn(graph, round[k], k + 1, to), a, k + 1, to)
    BY <1>5, <2>1, TurnKeeps
  <2>4. QED BY <2>1, <2>2, <2>3
<1> HIDE DEF S
<1>6. \A k \in 0..(Rounds - 1) : k \in S => k + 1 \in S
  BY <1>5
<1>7. \A k \in 0..Rounds : k \in S
  BY <1>3, <1>4, <1>6, Induction
<1>8. Searched(q, a, Rounds, to)
  <2>1. Rounds \in S
    BY <1>3, <1>7
  <2>2. QED BY <2>1, <1>2 DEF S
<1>9. Honestly(q, a)
  BY <1>8 DEF Searched
<1>10. to \in Met(q) => Reachable(a, to)
  BY <1>9 DEF Honestly, Met
<1>11. Len(q) \in Nat /\ Len(q) <= Rounds
  BY <1>9, QueueDistances
<1>12. CASE Stopped(q, Rounds, to)
  <2>1. PICK j \in 1..Rounds : j <= Len(q) /\ q[j].id = to
    BY <1>12 DEF Stopped
  <2>2. j \in 1..Len(q)
    BY <1>3, <1>11, <2>1
  <2>3. to \in Met(q)
    BY <2>1, <2>2 DEF Met
  <2>4. QED BY <2>3, <1>9, <1>10
<1>13. CASE Full(q, a, Rounds)
  <2>1. Reachable(a, to) => to \in Met(q)
    BY <1>3, <1>9, <1>11, <1>13, FullIsAll
  <2>2. QED BY <2>1, <1>9, <1>10
<1>14. QED BY <1>8, <1>12, <1>13 DEF Searched

-----------------------------------------------------------------------------
(* The way back                                                            *)

Way(q) == [cursor : Met(q) \cup {NoNode}, path : Seq(Ids)]

\* One step back: to the node the cursor was met from.
LEMMA ClimbIs ==
  ASSUME GraphTyped, NEW a \in Ids, NEW q, Honestly(q, a), NEW way \in Way(q),
         NEW i \in 1..Len(q), way.cursor = q[i].id
  PROVE  Climb(graph, q, way) = [cursor |-> q[i].prev, path |-> <<q[i].id>> \o way.path]
<1> DEFINE hits == {j \in DOMAIN q : q[j].id = way.cursor}
<1>1. q \in Seq(Waiting) /\ DOMAIN q = 1..Len(q) /\ Len(q) \in Nat /\ q[i].id \in Ids
  BY WaitingTyped DEF Honestly
<1>2. hits = {i}
  BY <1>1 DEF Honestly
<1>3. (CHOOSE j \in hits : \A l \in hits : j <= l) = i
  BY <1>1, <1>2
<1>4. First(q, LAMBDA w : w.id = way.cursor) = IF hits = {} THEN NoNode ELSE q[CHOOSE j \in hits : \A l \in hits : j <= l]
  BY DEF First
<1>5. First(q, LAMBDA w : w.id = way.cursor) = q[i]
  BY <1>2, <1>3, <1>4
<1>6. way.cursor # NoNode /\ way.cursor \in graph.ids
  BY <1>1, GraphSets, IdsAssumption
<1>7. QED BY <1>5, <1>6 DEF Climb

\* Where the node at i was met from.
LEMMA Previous ==
  ASSUME NEW a \in Ids, NEW q, Honestly(q, a), NEW i \in 1..Len(q)
  PROVE  \/ i = 1 /\ q[i].id = a /\ q[i].prev = NoNode
         \/ \E j \in 1..Len(q) : /\ q[i].prev = q[j].id /\ Touch(q[j].id, q[i].id)
                                 /\ Distance(a, q[i].id) = Distance(a, q[j].id) + 1
<1>1. Len(q) \in Nat
  BY WaitingTyped DEF Honestly
<1>2. i = 1 \/ i \in 2..Len(q)
  BY <1>1
<1>3. QED BY <1>2 DEF Honestly

LEMMA ClimbTyped ==
  ASSUME GraphTyped, NEW a \in Ids, NEW q, Honestly(q, a), NEW way \in Way(q)
  PROVE  Climb(graph, q, way) \in Way(q)
<1>1. CASE way.cursor = NoNode
  BY <1>1 DEF Climb
<1>2. CASE way.cursor # NoNode
  <2>1. way.cursor \in Met(q) /\ way.path \in Seq(Ids)
    BY <1>2 DEF Way
  <2>2. PICK i \in 1..Len(q) : way.cursor = q[i].id
    BY <2>1 DEF Met
  <2>3. Climb(graph, q, way) = [cursor |-> q[i].prev, path |-> <<q[i].id>> \o way.path]
    BY <2>2, ClimbIs
  <2>4. q[i].prev \in Met(q) \cup {NoNode}
    BY Previous DEF Met
  <2>5. q[i].id \in Ids
    BY WaitingTyped DEF Honestly
  <2>6. <<q[i].id>> \o way.path \in Seq(Ids)
    BY <2>1, <2>5
  <2>7. QED BY <2>3, <2>4, <2>6 DEF Way
<1>3. QED BY <1>1, <1>2

TrailRun(climbed, q, to) ==
  /\ climbed[0] = [cursor |-> to, path |-> <<>>] /\ Trail(graph, q, to) = climbed[Len(q)].path
  /\ \A k \in 0..Len(q) : climbed[k] \in Way(q)
  /\ \A k \in 1..Len(q) : climbed[k] = Climb(graph, q, climbed[k - 1])

LEMMA TrailLoop ==
  ASSUME GraphTyped, NEW a \in Ids, NEW q, Honestly(q, a), NEW to, to \in Met(q)
  PROVE  \E climbed : TrailRun(climbed, q, to)
<1> DEFINE n == Len(q)
           State == Way(q)
           z == [cursor |-> to, path |-> <<>>]
           More(w) == Climb(graph, q, w)
           step == [i \in 1..n |-> [w \in State |-> More(w)]]
           Run(f) == f = [i \in 0..n |-> IF i = 0 THEN z ELSE More(f[i - 1])]
           climbed == CHOOSE f : Run(f)
<1>1. n \in Nat /\ \A w \in State : More(w) \in State
  BY ClimbTyped, WaitingTyped DEF Honestly
<1>2. Trail(graph, q, to) = climbed[n].path /\ z \in State
  <2>1. ~ \A i \in DOMAIN q : q[i].id # to
    BY WaitingTyped DEF Honestly, Met
  <2>2. z \in State
    BY DEF Way
  <2>3. QED BY <2>1, <2>2 DEF Trail
<1> HIDE DEF n, More, State, z
<1>3. /\ step \in [1..n -> [State -> State]]
      /\ \A i \in 1..n : \A w \in State : step[i][w] = More(w)
  BY <1>1
<1> HIDE DEF step
<1>4. PICK f : History(f, n, State, z, step)
  BY <1>1, <1>2, <1>3, LoopExists
<1>5. \A i \in 1..n : i - 1 \in 0..n /\ f[i] = More(f[i - 1])
  BY <1>1, <1>3, <1>4 DEF History
<1>6. Run(f)
  BY <1>1, <1>4, <1>5 DEF History
<1>7. Run(climbed)
  BY <1>6, Zenon
<1>8. \A h : Run(h) => h[0] = z /\ \A i \in 1..n : h[i] = More(h[i - 1])
  BY <1>1
<1> HIDE DEF Run, climbed
<1>9. Follows(climbed, n, State, z, step)
  BY <1>3, <1>7, <1>8 DEF Follows
<1>10. \A i \in 0..n : climbed[i] \in State
  BY <1>1, <1>2, <1>3, <1>9, LoopStays
<1>11. climbed[0] = z /\ \A i \in 1..n : climbed[i] = More(climbed[i - 1])
  BY <1>7, <1>8
<1>12. QED BY <1>2, <1>10, <1>11 DEF TrailRun, State, More, n, z

\* The end of a shortest way from a to `to`: its last m nodes.
LeadsTo(path, a, to, m) ==
  /\ path \in Seq(Ids) /\ Len(path) = m
  /\ \A i \in 1..m : Reachable(a, path[i]) /\ Distance(a, path[i]) = Distance(a, to) - m + i
  /\ \A i \in 1..(m - 1) : Touch(path[i], path[i + 1])
  /\ m > 0 => path[m] = to

\* After k steps back.
Back(w, q, a, to, k) ==
  IF k <= Distance(a, to)
  THEN /\ w.cursor \in Met(q) /\ Distance(a, w.cursor) = Distance(a, to) - k
       /\ LeadsTo(w.path, a, to, k)
       /\ IF k = 0 THEN w.cursor = to ELSE Touch(w.cursor, w.path[1])
  ELSE w.cursor = NoNode /\ LeadsTo(w.path, a, to, Distance(a, to) + 1)

LEMMA LeadGrows ==
  ASSUME NEW a \in Ids, NEW to, Distance(a, to) \in Nat, NEW path, NEW m \in Nat, LeadsTo(path, a, to, m),
         NEW c \in Ids, Reachable(a, c), Distance(a, c) = Distance(a, to) - m,
         IF m = 0 THEN c = to ELSE Touch(c, path[1])
  PROVE  LeadsTo(<<c>> \o path, a, to, m + 1)
<1> DEFINE p == <<c>> \o path
<1>1. path \in Seq(Ids) /\ Len(path) = m
  BY DEF LeadsTo
<1>2. p \in Seq(Ids) /\ Len(p) = m + 1 /\ p[1] = c /\ \A i \in 1..m : p[i + 1] = path[i]
  BY <1>1
<1> HIDE DEF p
<1>3. \A i \in 1..(m + 1) : i = 1 \/ (i - 1 \in 1..m /\ (i - 1) + 1 = i)
  OBVIOUS
<1>4. \A i \in 1..(m + 1) : i = 1 \/ (i - 1 \in 1..m /\ p[i] = path[i - 1])
  BY <1>2, <1>3
<1>5. ASSUME NEW i \in 1..(m + 1)
      PROVE  Reachable(a, p[i]) /\ Distance(a, p[i]) = Distance(a, to) - (m + 1) + i
  <2>1. CASE i = 1
    BY <2>1, <1>2
  <2>2. CASE i # 1
    <3>1. i - 1 \in 1..m /\ p[i] = path[i - 1]
      BY <2>2, <1>4
    <3>2. Reachable(a, path[i - 1]) /\ Distance(a, path[i - 1]) = Distance(a, to) - m + (i - 1)
      BY <3>1 DEF LeadsTo
    <3>3. QED BY <3>1, <3>2
  <2>3. QED BY <2>1, <2>2
<1>6. ASSUME NEW i \in 1..m PROVE Touch(p[i], p[i + 1])
  <2>1. p[i + 1] = path[i]
    BY <1>2
  <2>2. CASE i = 1
    BY <2>1, <2>2, <1>2
  <2>3. CASE i # 1
    <3>1. i - 1 \in 1..(m - 1) /\ (i - 1) + 1 = i /\ p[i] = path[i - 1]
      BY <2>3, <1>4
    <3>2. Touch(path[i - 1], path[(i - 1) + 1])
      BY <3>1 DEF LeadsTo
    <3>3. QED BY <3>1, <3>2, <2>1
  <2>4. QED BY <2>2, <2>3
<1>7. p[m + 1] = to
  BY <1>2 DEF LeadsTo
<1>8. (m + 1) - 1 = m
  OBVIOUS
<1>9. QED BY <1>2, <1>5, <1>6, <1>7, <1>8 DEF LeadsTo, p

LEMMA ClimbKeeps ==
  ASSUME GraphTyped, NEW a \in Ids, NEW q, Honestly(q, a), NEW to \in Met(q),
         NEW w \in Way(q), NEW k \in Nat, Back(w, q, a, to, k)
  PROVE  Back(Climb(graph, q, w), q, a, to, k + 1)
<1> DEFINE v == Climb(graph, q, w)
           d == Distance(a, to)
<1>1. Reachable(a, to) /\ d \in Nat
  BY Distances DEF Honestly, Met
<1>2. CASE k > d
  <2>1. w.cursor = NoNode /\ LeadsTo(w.path, a, to, d + 1)
    BY <1>1, <1>2 DEF Back
  <2>2. v = w
    BY <2>1 DEF Climb
  <2>3. ~ (k + 1 <= d)
    BY <1>1, <1>2
  <2>4. QED BY <2>1, <2>2, <2>3 DEF Back
<1>3. CASE k <= d
  <2>1. /\ w.cursor \in Met(q) /\ Distance(a, w.cursor) = d - k /\ LeadsTo(w.path, a, to, k)
        /\ IF k = 0 THEN w.cursor = to ELSE Touch(w.cursor, w.path[1])
    BY <1>3 DEF Back
  <2>2. PICK i \in 1..Len(q) : w.cursor = q[i].id
    BY <2>1 DEF Met
  <2> DEFINE c == q[i].id
             p == <<c>> \o w.path
  <2>3. v = [cursor |-> q[i].prev, path |-> p]
    BY <2>2, ClimbIs
  <2>4. c \in Ids /\ Reachable(a, c)
    BY WaitingTyped DEF Honestly
  <2>5. LeadsTo(p, a, to, k + 1)
    <3>1. Distance(a, c) = Distance(a, to) - k /\ Distance(a, to) \in Nat /\ LeadsTo(w.path, a, to, k)
          /\ IF k = 0 THEN c = to ELSE Touch(c, w.path[1])
      BY <1>1, <2>1, <2>2
    <3> HIDE DEF c, d
    <3>2. QED BY <2>4, <3>1, LeadGrows
  <2>6. CASE i = 1 /\ c = a /\ q[i].prev = NoNode
    <3>1. Distance(a, c) = 0
      BY <2>4, <2>6, Distances
    <3>2. k = d
      <4>1. Distance(a, c) = d - k
        BY <2>1, <2>2
      <4> HIDE DEF c, d
      <4>2. QED BY <4>1, <3>1, <1>1
    <3>3. ~ (k + 1 <= d)
      BY <3>2, <1>1
    <3>4. v.cursor = NoNode /\ v.path = p
      BY <2>3, <2>6
    <3>5. LeadsTo(v.path, a, to, d + 1)
      BY <2>5, <3>2, <3>4
    <3> HIDE DEF v, p
    <3>6. QED BY <3>3, <3>4, <3>5 DEF Back, v
  <2>7. CASE \E j \in 1..Len(q) : /\ q[i].prev = q[j].id /\ Touch(q[j].id, c)
                                  /\ Distance(a, c) = Distance(a, q[j].id) + 1
    <3>1. PICK j \in 1..Len(q) : /\ q[i].prev = q[j].id /\ Touch(q[j].id, c)
                                 /\ Distance(a, c) = Distance(a, q[j].id) + 1
      BY <2>7
    <3> DEFINE b == q[j].id
    <3>2. b \in Met(q) /\ Distance(a, b) \in Nat
      BY Distances DEF Honestly, Met
    <3>3. Distance(a, c) = d - k /\ Distance(a, c) = Distance(a, b) + 1
      BY <2>1, <2>2, <3>1
    <3>4. k + 1 <= d /\ Distance(a, b) = d - (k + 1)
      <4> HIDE DEF b, c, d
      <4>1. QED BY <3>2, <3>3, <1>1
    <3>5. p[1] = c
      <4>1. w.path \in Seq(Ids)
        BY <2>1 DEF LeadsTo
      <4>2. QED BY <4>1
    <3>6. v.cursor = b /\ v.path = p /\ Touch(b, c)
      BY <2>3, <3>1
    <3>7. k + 1 # 0
      OBVIOUS
    <3>8. LeadsTo(v.path, a, to, k + 1) /\ Touch(v.cursor, v.path[1])
      BY <2>5, <3>5, <3>6
    <3>9. v.cursor \in Met(q) /\ Distance(a, v.cursor) = d - (k + 1)
      BY <3>2, <3>4, <3>6
    <3> HIDE DEF v, p, b
    <3>10. QED BY <3>4, <3>7, <3>8, <3>9 DEF Back, v
  <2>8. QED BY <2>6, <2>7, Previous
<1>4. QED BY <1>1, <1>2, <1>3

\* The trail is a shortest way.
LEMMA TrailIs ==
  ASSUME GraphTyped, NEW a \in Ids, NEW q, Honestly(q, a), NEW to \in Met(q)
  PROVE  LeadsTo(Trail(graph, q, to), a, to, Distance(a, to) + 1)
<1> DEFINE n == Len(q)
           d == Distance(a, to)
<1>1. PICK climbed : TrailRun(climbed, q, to)
  BY TrailLoop
<1>2. /\ climbed[0] = [cursor |-> to, path |-> <<>>] /\ Trail(graph, q, to) = climbed[n].path
      /\ \A k \in 0..n : climbed[k] \in Way(q)
      /\ \A k \in 1..n : climbed[k] = Climb(graph, q, climbed[k - 1])
  BY <1>1 DEF TrailRun
<1>3. n \in Nat /\ d \in Nat /\ d <= n - 1
  <2>1. PICK i \in 1..n : q[i].id = to
    BY DEF Met
  <2>2. n \in Nat /\ d \in Nat /\ d <= i - 1
    BY <2>1, QueueDistances
  <2>3. QED BY <2>1, <2>2
<1> DEFINE S == {k \in 0..n : Back(climbed[k], q, a, to, k)}
<1>4. 0 \in S
  <2>1. LeadsTo(<<>>, a, to, 0)
    BY DEF LeadsTo
  <2>2. climbed[0].cursor = to /\ climbed[0].path = <<>> /\ 0 <= Distance(a, to)
        /\ Distance(a, to) = Distance(a, to) - 0
    BY <1>2, <1>3
  <2>3. Back(climbed[0], q, a, to, 0)
    BY <2>1, <2>2 DEF Back
  <2>4. QED BY <2>3, <1>3
<1>5. ASSUME NEW k \in 0..(n - 1), k \in S PROVE k + 1 \in S
  <2>1. k + 1 \in 1..n /\ k + 1 \in 0..n /\ (k + 1) - 1 = k /\ k \in 0..n /\ k \in Nat
    BY <1>3
  <2>2. climbed[k + 1] = Climb(graph, q, climbed[k]) /\ climbed[k] \in Way(q)
    BY <1>2, <2>1
  <2>3. Back(Climb(graph, q, climbed[k]), q, a, to, k + 1)
    BY <1>5, <2>1, <2>2, ClimbKeeps
  <2>4. QED BY <2>1, <2>2, <2>3
<1> HIDE DEF S
<1>6. \A k \in 0..(n - 1) : k \in S => k + 1 \in S
  BY <1>5
<1>7. \A k \in 0..n : k \in S
  BY <1>3, <1>4, <1>6, Induction
<1>8. Back(climbed[n], q, a, to, n)
  <2>1. n \in S
    BY <1>3, <1>7
  <2>2. QED BY <2>1 DEF S
<1>9. ~ (n <= Distance(a, to))
  BY <1>3
<1>10. QED BY <1>2, <1>8, <1>9 DEF Back

-----------------------------------------------------------------------------
(* The flow                                                                *)

\* The first of a nonempty set of places.
LEMMA FirstPlace ==
  ASSUME NEW hits, hits \subseteq Nat, hits # {}
  PROVE  (CHOOSE i \in hits : \A j \in hits : i <= j) \in hits
<1>1. \E i \in hits : \A j \in hits : i <= j
  BY Least
<1>2. QED BY <1>1, Zenon

\* A query that is a node's id is that node.
LEMMA ResolvedIs ==
  ASSUME GraphTyped, NEW a \in Ids
  PROVE  ResolveOne(graph, a) = a
<1> DEFINE list == Sorted(graph.ids)
           hits == {i \in DOMAIN list : list[i] = a}
           at   == CHOOSE i \in hits : \A j \in hits : i <= j
<1>1. Lists(list, Ids)
  BY GraphSets, IdsAssumption, SortedLists
<1>2. hits # {} /\ hits \subseteq Nat
  BY <1>1 DEF Lists
<1>3. First(list, LAMBDA n : n = a) = IF hits = {} THEN NoNode ELSE list[at]
  BY DEF First
<1>4. at \in hits
  <2> HIDE DEF hits
  <2>1. QED BY <1>2, FirstPlace
<1>5. list[at] = a
  BY <1>4
<1>6. First(list, LAMBDA n : n = a) = a /\ a # NoNode
  BY <1>2, <1>3, <1>5, IdsAssumption
<1>7. QED BY <1>6 DEF ResolveOne

Leads(e, x, y) == e.from = x /\ e.to = y

LEMMA EdgePair ==
  ASSUME GraphTyped, NEW x, NEW y
  PROVE  /\ EdgeByPair(graph, x, y) # NoNode
              => EdgeByPair(graph, x, y) \in EdgesOf(graph) /\ Leads(EdgeByPair(graph, x, y), x, y)
         /\ \A e \in EdgesOf(graph) : Leads(e, x, y) => EdgeByPair(graph, x, y) # NoNode
<1> DEFINE list == graph.edges
           hits == {i \in DOMAIN list : list[i].from = x /\ list[i].to = y}
           at   == CHOOSE i \in hits : \A j \in hits : i <= j
<1>1. EdgeByPair(graph, x, y) = IF hits = {} THEN NoNode ELSE list[at]
  BY DEF EdgeByPair, First
<1>2. list \in Seq(Edge) /\ EdgesOf(graph) = {list[i] : i \in DOMAIN list} /\ DOMAIN list \subseteq Nat
  BY GraphSets DEF EdgesOf, ToSet
<1>3. CASE hits = {}
  <2>1. EdgeByPair(graph, x, y) = NoNode
    BY <1>1, <1>3
  <2>2. \A e \in EdgesOf(graph) : ~ Leads(e, x, y)
    BY <1>2, <1>3 DEF Leads
  <2>3. QED BY <2>1, <2>2
<1>4. CASE hits # {}
  <2>1. at \in hits
    <3>1. hits \subseteq Nat
      BY <1>2
    <3> HIDE DEF hits
    <3>2. QED BY <1>4, <3>1, FirstPlace
  <2>2. list[at] \in EdgesOf(graph) /\ Leads(list[at], x, y)
    BY <1>2, <2>1 DEF Leads
  <2>3. list[at] # NoNode
    BY <2>2, GraphSets, NoEdgeAssumption
  <2>4. EdgeByPair(graph, x, y) = list[at]
    BY <1>1, <1>4
  <2> HIDE DEF at, list
  <2>5. QED BY <2>2, <2>3, <2>4
<1>5. QED BY <1>3, <1>4

\* A step between two nodes with an edge shows one, and its direction.
LEMMA StepIs ==
  ASSUME GraphTyped, NEW x, NEW y, Touch(x, y), NEW s, s = FlowStep(graph, x, y)
  PROVE  /\ s.edge \in EdgesOf(graph) /\ <<s.from, s.to>> = <<x, y>>
         /\ <<s.edge.from, s.edge.to>> = IF s.reversed THEN <<s.to, s.from>> ELSE <<s.from, s.to>>
<1> DEFINE forward  == EdgeByPair(graph, x, y)
           backward == EdgeByPair(graph, y, x)
<1>1. s = [from |-> x, to |-> y, reversed |-> forward = NoNode,
           edge |-> IF forward # NoNode THEN forward ELSE backward]
  BY DEF FlowStep
<1>2. PICK e \in EdgesOf(graph) : Leads(e, x, y) \/ Leads(e, y, x)
  BY DEF Touch, Leads
<1>3. forward # NoNode => forward \in EdgesOf(graph) /\ Leads(forward, x, y)
  BY EdgePair
<1>4. forward = NoNode => backward \in EdgesOf(graph) /\ Leads(backward, y, x)
  BY <1>2, EdgePair
<1> HIDE DEF forward, backward
<1>5. CASE forward # NoNode
  <2>1. s.from = x /\ s.to = y /\ s.edge = forward
    BY <1>1, <1>5
  <2>2. ~ s.reversed
    <3>1. s.reversed = (forward = NoNode)
      BY <1>1
    <3>2. QED BY <3>1, <1>5, Zenon
  <2>3. QED BY <1>3, <1>5, <2>1, <2>2 DEF Leads
<1>6. CASE forward = NoNode
  <2>1. s.from = x /\ s.to = y /\ s.edge = backward
    BY <1>1, <1>6
  <2>2. s.reversed
    <3>1. s.reversed = (forward = NoNode)
      BY <1>1
    <3>2. QED BY <3>1, <1>6, Zenon
  <2>3. QED BY <1>4, <1>6, <2>1, <2>2 DEF Leads
<1>7. QED BY <1>5, <1>6

\* What FlowIsShortestWalk says of one answer.
ShortestFlow(f, a, b, cap) ==
  LET distance == CHOOSE k \in 0..Cardinality(Ids) :
                    b \in Around(Ids, {a}, k) /\ (k = 0 \/ b \notin Around(Ids, {a}, k - 1))
  IN /\ f.found = (b \in Around(Ids, {a}, Cardinality(Ids)))
     /\ f.found => /\ f.nodes[1] = a
                   /\ Len(f.nodes) = IF distance < FlowCap(cap) THEN distance + 1 ELSE FlowCap(cap)
                   /\ distance < FlowCap(cap) => f.nodes[Len(f.nodes)] = b
                   /\ \A i \in DOMAIN f.steps :
                        LET s == f.steps[i]
                        IN /\ s.edge \in EdgesOf(graph)
                           /\ <<s.from, s.to>> = <<f.nodes[i], f.nodes[i + 1]>>
                           /\ <<s.edge.from, s.edge.to>> = IF s.reversed THEN <<s.to, s.from>>
                                                           ELSE <<s.from, s.to>>
                   /\ \A i \in DOMAIN f.nodes : f.nodes[i] \in Around(Ids, {a}, i - 1)

\* A flow that follows a shortest way from a to b, d edges long, up to cap
\* nodes.
Follow(f, a, b, d, cap) ==
  /\ f.found = TRUE
  /\ f.nodes[1] = a
  /\ Len(f.nodes) = IF d < cap THEN d + 1 ELSE cap
  /\ d < cap => f.nodes[Len(f.nodes)] = b
  /\ \A i \in DOMAIN f.steps :
       /\ f.steps[i].edge \in EdgesOf(graph)
       /\ <<f.steps[i].from, f.steps[i].to>> = <<f.nodes[i], f.nodes[i + 1]>>
       /\ <<f.steps[i].edge.from, f.steps[i].edge.to>>
            = IF f.steps[i].reversed THEN <<f.steps[i].to, f.steps[i].from>>
              ELSE <<f.steps[i].from, f.steps[i].to>>
  /\ \A i \in DOMAIN f.nodes : f.nodes[i] \in Around(Ids, {a}, i - 1)

LEMMA FlowAlongIs ==
  ASSUME GraphTyped, NEW a \in Ids, NEW b, Reachable(a, b), NEW path, NEW d, d = Distance(a, b),
         LeadsTo(path, a, b, d + 1), NEW cap \in Nat, cap > 0
  PROVE  Follow(FlowAlong(graph, path, cap), a, b, d, cap)
<1> DEFINE f == FlowAlong(graph, path, cap)
           m == IF Len(path) < cap THEN Len(path) ELSE cap
           nodes == SubSeq(path, 1, m)
<1>1. f = [found |-> path # <<>>, nodes |-> nodes, steps |-> Steps(graph, nodes)]
  BY DEF FlowAlong
<1>2. path \in Seq(Ids) /\ Len(path) = d + 1 /\ d \in Nat
  BY Distances DEF LeadsTo
<1>3. m \in 1..(d + 1) /\ m \in Nat /\ m <= cap /\ m = IF d < cap THEN d + 1 ELSE cap
  BY <1>2
<1> HIDE DEF m
<1>4. /\ nodes \in Seq(Ids) /\ Len(nodes) = m /\ DOMAIN nodes = 1..m
      /\ \A i \in 1..m : nodes[i] = path[i]
  BY <1>2, <1>3
<1>5. path # <<>> /\ nodes # <<>>
  <2>1. Len(<<>>) = 0
    OBVIOUS
  <2>2. Len(path) # 0 /\ Len(nodes) # 0
    BY <1>2, <1>3, <1>4
  <2>3. QED BY <2>1, <2>2
<1>6. \A i \in 1..m : Reachable(a, nodes[i]) /\ Distance(a, nodes[i]) = i - 1
  <2> TAKE i \in 1..m
  <2>1. i \in 1..(d + 1)
    BY <1>2, <1>3
  <2>2. Reachable(a, path[i]) /\ Distance(a, path[i]) = d - (d + 1) + i
    BY <2>1 DEF LeadsTo
  <2>3. QED BY <2>2, <1>2, <1>4
<1> HIDE DEF nodes
<1>7. f.found = TRUE /\ f.nodes = nodes /\ f.steps = Steps(graph, nodes)
  <2>1. f.found = (path # <<>>) /\ f.nodes = nodes /\ f.steps = Steps(graph, nodes)
    BY <1>1
  <2>2. (path # <<>>) = TRUE
    BY <1>5
  <2>3. QED BY <2>1, <2>2, Zenon
<1>8. \A i \in 1..m : nodes[i] \in Around(Ids, {a}, i - 1)
  <2> TAKE i \in 1..m
  <2>1. i - 1 \in Nat /\ Distance(a, nodes[i]) <= i - 1
    BY <1>3, <1>6
  <2>2. QED BY <2>1, <1>6, Distances DEF Near
<1>9. nodes[1] = a
  <2>1. 1 \in 1..m /\ 1 - 1 = 0
    BY <1>3
  <2>2. Reachable(a, nodes[1]) /\ Distance(a, nodes[1]) = 0
    BY <2>1, <1>6
  <2>3. QED BY <2>2, Distances
<1>10. d < cap => nodes[m] = b
  <2>1. path[d + 1] = b
    BY <1>2 DEF LeadsTo
  <2>2. QED BY <2>1, <1>3, <1>4
<1>11. f.steps = [i \in 1..(m - 1) |-> FlowStep(graph, nodes[i], nodes[i + 1])]
  BY <1>4, <1>5, <1>7 DEF Steps
<1>12. ASSUME NEW i \in 1..(m - 1)
       PROVE  /\ f.steps[i].edge \in EdgesOf(graph)
              /\ <<f.steps[i].from, f.steps[i].to>> = <<nodes[i], nodes[i + 1]>>
              /\ <<f.steps[i].edge.from, f.steps[i].edge.to>>
                   = IF f.steps[i].reversed THEN <<f.steps[i].to, f.steps[i].from>>
                     ELSE <<f.steps[i].from, f.steps[i].to>>
  <2>1. Touch(nodes[i], nodes[i + 1])
    <3>1. i \in 1..((d + 1) - 1) /\ i \in 1..m /\ i + 1 \in 1..m
      BY <1>2, <1>3
    <3>2. Touch(path[i], path[i + 1])
      BY <3>1 DEF LeadsTo
    <3>3. QED BY <3>1, <3>2, <1>4
  <2>2. f.steps[i] = FlowStep(graph, nodes[i], nodes[i + 1])
    BY <1>11
  <2>3. QED BY <2>1, <2>2, StepIs
<1>13. DOMAIN f.steps = 1..(m - 1) /\ DOMAIN f.nodes = 1..m /\ Len(f.nodes) = m
  BY <1>4, <1>7, <1>11
<1> HIDE DEF f
<1>14. QED BY <1>3, <1>7, <1>8, <1>9, <1>10, <1>12, <1>13 DEF Follow, f

LEMMA OneFlow ==
  ASSUME GraphTyped, NEW a \in Ids, NEW b \in Ids, NEW cap \in Nat
  PROVE  ShortestFlow(FlowBetween(graph, a, b, cap), a, b, cap)
<1> DEFINE q == Search(graph, a, b)
           path == Trail(graph, q, b)
           c == FlowCap(cap)
           f == FlowAlong(graph, path, c)
           d == Distance(a, b)
<1>1. FlowBetween(graph, a, b, cap) = f
  <2>1. ResolveOne(graph, a) = a /\ ResolveOne(graph, b) = b
    BY ResolvedIs
  <2>2. ~ (a = NoNode \/ b = NoNode)
    BY IdsAssumption
  <2>3. QED BY <2>1, <2>2 DEF FlowBetween, ShortestPath, PathBetween
<1>2. c \in Nat /\ c > 0
  BY FlowAssumption DEF FlowCap
<1>3. Honestly(q, a) /\ (b \in Met(q) <=> Reachable(a, b))
  BY SearchEnds
<1>4. Rounds \in Nat
  BY <1>3, QueueDistances
<1> HIDE DEF q
<1>5. CASE ~ Reachable(a, b)
  <2>1. b \notin Around(Ids, {a}, Rounds)
    BY <1>4, <1>5 DEF Reachable, Near
  <2>2. path = <<>>
    <3>1. \A i \in 1..Len(q) : q[i].id # b
      BY <1>3, <1>5 DEF Met
    <3>2. DOMAIN q = 1..Len(q)
      BY <1>3, WaitingTyped DEF Honestly
    <3>3. QED BY <3>1, <3>2 DEF Trail
  <2>3. f.found = FALSE
    BY <2>2 DEF FlowAlong
  <2> HIDE DEF f
  <2>4. f.found = (b \in Around(Ids, {a}, Cardinality(Ids))) /\ ~ f.found
    <3>1. (b \in Around(Ids, {a}, Cardinality(Ids))) = FALSE
      BY <2>1 DEF Rounds
    <3>2. QED BY <3>1, <2>3, Zenon
  <2>5. QED BY <2>4, <1>1, Zenon DEF ShortestFlow
<1>6. CASE Reachable(a, b)
  <2>1. LeadsTo(path, a, b, d + 1)
    BY <1>3, <1>6, TrailIs
  <2>2. d \in Nat /\ d <= Rounds /\ \A k \in Nat : b \in Around(Ids, {a}, k) <=> d <= k
    <3>1. d \in Nat /\ \A k \in Nat : b \in Around(Ids, {a}, k) <=> d <= k
      BY <1>6, Distances DEF Near
    <3>2. PICK i \in 1..Len(q) : q[i].id = b
      BY <1>3, <1>6 DEF Met
    <3>3. d <= i - 1 /\ i \in Nat /\ i <= Rounds
      BY <1>3, <3>2, QueueDistances
    <3> HIDE DEF d
    <3>4. d <= Rounds
      BY <3>1, <3>3, <1>4
    <3>5. QED BY <3>1, <3>4
  <2> DEFINE distance == CHOOSE k \in 0..Cardinality(Ids) :
                           b \in Around(Ids, {a}, k) /\ (k = 0 \/ b \notin Around(Ids, {a}, k - 1))
  <2>3. distance = d
    <3>1. \A k \in 0..Rounds : (b \in Around(Ids, {a}, k) /\ (k = 0 \/ b \notin Around(Ids, {a}, k - 1)))
                                 <=> k = d
      <4> TAKE k \in 0..Rounds
      <4>1. k \in Nat /\ (k # 0 => k - 1 \in Nat)
        BY <1>4
      <4>2. b \in Around(Ids, {a}, k) <=> d <= k
        BY <4>1, <2>2
      <4>3. k # 0 => (b \in Around(Ids, {a}, k - 1) <=> d <= k - 1)
        BY <4>1, <2>2
      <4> HIDE DEF d
      <4>4. QED BY <4>1, <4>2, <4>3, <2>2
    <3>2. d \in 0..Rounds
      BY <2>2, <1>4
    <3> HIDE DEF d
    <3>3. QED BY <3>1, <3>2 DEF Rounds
  <2>4. b \in Around(Ids, {a}, Rounds)
    BY <1>4, <2>2
  <2> HIDE DEF path, c
  <2>5. Follow(f, a, b, d, c)
    <3> HIDE DEF d
    <3>1. d = Distance(a, b)
      BY DEF d
    <3>2. QED BY <3>1, <1>2, <1>6, <2>1, FlowAlongIs
  <2> HIDE DEF f, d, distance
  <2>6. QED BY <2>3, <2>4, <2>5, <1>1 DEF ShortestFlow, Follow, Rounds, distance, c
<1>7. QED BY <1>5, <1>6

\* Whatever edges the scans have found, and for any two nodes and cap,
\* flowBetween finds a flow exactly when the nodes are connected, and it is a
\* shortest way or the start of one, along edges of the graph whose direction
\* it tells rightly (shortestPath.ts:16, flowBetween.ts:33).
THEOREM ShortestForAll ==
  Spec => [](\A a, b \in Ids, cap \in Nat : ShortestFlow(FlowBetween(graph, a, b, cap), a, b, cap))
<1>1. GraphTyped => \A a, b \in Ids, cap \in Nat :
                      ShortestFlow(FlowBetween(graph, a, b, cap), a, b, cap)
  BY OneFlow
<1>2. QED BY <1>1, GraphsTyped, PTL

\* The property of the run, which asks it with two caps.
THEOREM ShortestWalk == Spec => []FlowIsShortestWalk
<1>1. GraphTyped => FlowIsShortestWalk
  <2> SUFFICES ASSUME GraphTyped, NEW a \in Ids, NEW b \in Ids, NEW cap \in {0, 3},
                      NEW f \in {FlowBetween(graph, a, b, cap)}
               PROVE  ShortestFlow(f, a, b, cap)
    BY Zenon DEF FlowIsShortestWalk, ShortestFlow
  <2>1. cap \in Nat
    OBVIOUS
  <2>2. QED BY <2>1, OneFlow
<1>2. QED BY <1>1, GraphsTyped, PTL

-----------------------------------------------------------------------------
(* Scores                                                                  *)

LEMMA DegreeFacts ==
  ASSUME GraphTyped
  PROVE  \E bound \in Nat : \A n : degree(graph, n) \in 0..bound
<1> DEFINE out(n) == {e \in EdgesOf(graph) : e.from = n}
           in(n)  == {e \in EdgesOf(graph) : e.to = n}
           c == Cardinality(EdgesOf(graph))
<1>1. IsFiniteSet(EdgesOf(graph)) /\ c \in Nat
  BY GraphSets, FS_CardinalityType
<1>2. \A n : out(n) \in SUBSET EdgesOf(graph) /\ in(n) \in SUBSET EdgesOf(graph)
  OBVIOUS
<1>3. \A n : degree(graph, n) = Cardinality(out(n)) + Cardinality(in(n))
  BY DEF degree
<1> HIDE DEF out, in
<1>4. \A S \in SUBSET EdgesOf(graph) : Cardinality(S) \in 0..c
  <2> TAKE S \in SUBSET EdgesOf(graph)
  <2>1. IsFiniteSet(S) /\ Cardinality(S) <= c
    BY <1>1, FS_Subset
  <2>2. Cardinality(S) \in Nat
    BY <2>1, FS_CardinalityType
  <2>3. QED BY <1>1, <2>1, <2>2
<1> HIDE DEF c
<1>5. c + c \in Nat /\ \A n : degree(graph, n) \in 0..(c + c)
  BY <1>1, <1>2, <1>3, <1>4
<1>6. QED BY <1>5

LEMMA MaxDegFacts ==
  ASSUME GraphTyped
  PROVE  /\ maxDeg(graph) \in Nat /\ maxDeg(graph) >= 1
         /\ \A n \in Ids : degree(graph, n) \in Nat /\ degree(graph, n) <= maxDeg(graph)
<1> DEFINE D == {1} \cup {degree(graph, n) : n \in Ids}
<1>1. PICK b \in Nat : \A n : degree(graph, n) \in 0..b
  BY DegreeFacts
<1>2. \A d \in D : d \in 0..(b + 1)
  BY <1>1
<1>3. 1 \in D /\ \A n \in Ids : degree(graph, n) \in D
  OBVIOUS
<1>4. maxDeg(graph) = CHOOSE d \in D : \A c \in D : c <= d
  BY DEF maxDeg
<1> HIDE DEF D
<1> DEFINE S == {(b + 1) - d : d \in D}
<1>5. S \subseteq Nat /\ S # {}
  BY <1>2, <1>3
<1>6. \E m \in S : \A s \in S : m <= s
  <2> HIDE DEF S
  <2>1. QED BY <1>5, Least
<1>7. PICK d \in D : \A c \in D : (b + 1) - d <= (b + 1) - c
  BY <1>6
<1>8. \A c \in D : c <= d
  BY <1>2, <1>7
<1>9. maxDeg(graph) \in D /\ \A c \in D : c <= maxDeg(graph)
  BY <1>4, <1>8, Zenon
<1>10. QED BY <1>2, <1>3, <1>9, <1>1

LEMMA KeywordScores ==
  ASSUME NEW task, IsFiniteSet(task), NEW n
  PROVE  keywordScore(n, task) \in Nat
<1>1. IsFiniteSet(task \cap Info[n].whole) /\ IsFiniteSet(task \cap Info[n].part)
  BY FS_Intersection
<1>2. QED BY <1>1, FS_CardinalityType DEF keywordScore

\* What a node earns but for its degree.
Merit(n, kw, depth, maxDepth) ==
  10 * kw + 2 * (maxDepth - depth + 1) + specificity(n)
    - (CASE Info[n].layer # "docs" -> 0
         [] Info[n].layer = "docs" /\ kw <= 0 -> 6
         [] OTHER -> IF Info[n].generic THEN 4 ELSE 0)

LEMMA Merits ==
  ASSUME NEW n, NEW kw \in Nat, NEW depth \in Nat, NEW maxDepth \in Nat
  PROVE  /\ Merit(n, kw, depth, maxDepth) \in Int
         /\ kw > 0 => Merit(n, kw, depth, maxDepth) >= 10 * kw + 2 * (maxDepth - depth + 1) - 4
         /\ Merit(n, kw, depth, maxDepth) <= 10 * kw + 2 * (maxDepth - depth + 1) + 3
         /\ \A d \in Nat : Merit(n, kw, d, maxDepth) = Merit(n, kw, depth, maxDepth) + 2 * (depth - d)
<1> DEFINE p == CASE Info[n].layer # "docs" -> 0
                  [] Info[n].layer = "docs" /\ kw <= 0 -> 6
                  [] OTHER -> IF Info[n].generic THEN 4 ELSE 0
<1>1. p \in {0, 4, 6} /\ (kw > 0 => p \in {0, 4})
  <2>1. CASE Info[n].layer # "docs"
    BY <2>1
  <2>2. CASE Info[n].layer = "docs" /\ kw <= 0
    BY <2>2
  <2>3. CASE Info[n].layer = "docs" /\ ~ (kw <= 0)
    BY <2>3
  <2>4. QED BY <2>1, <2>2, <2>3
<1>2. specificity(n) \in 0..3
  BY DEF specificity
<1>3. \A d : Merit(n, kw, d, maxDepth) = 10 * kw + 2 * (maxDepth - d + 1) + specificity(n) - p
  BY DEF Merit
<1> HIDE DEF p
<1>4. QED BY <1>1, <1>2, <1>3

LEMMA ScoreIs ==
  ASSUME GraphTyped, NEW n \in Ids, NEW kw \in Nat, NEW depth \in Nat, NEW maxDepth \in Nat
  PROVE  scoreNode(graph, n, kw, depth, maxDepth)
           = maxDeg(graph) * Merit(n, kw, depth, maxDepth)
             + (IF kw > 0 THEN 2 ELSE -3) * degree(graph, n)
BY DEF scoreNode, Merit

LEMMA Times ==
  ASSUME NEW m \in Nat, NEW x \in Int, NEW y \in Int, NEW k \in Int, x >= y + k
  PROVE  m * x \in Int /\ m * y \in Int /\ m * x >= m * y + m * k
<1> DEFINE t == x - (y + k)
<1>1. t \in Nat /\ x = y + k + t
  OBVIOUS
<1> HIDE DEF t
<1>2. m * t \in Nat
  BY <1>1
<1>3. m * x = m * y + m * k + m * t
  BY <1>1
<1>4. m * x \in Int /\ m * y \in Int /\ m * k \in Int
  OBVIOUS
<1>5. QED BY <1>2, <1>3, <1>4

\* A node has a higher score when it is met nearer.
LEMMA NearerScores ==
  ASSUME GraphTyped, NEW n \in Ids, NEW kw \in Nat, NEW c \in Nat, NEW d \in Nat, c < d, NEW maxDepth \in Nat
  PROVE  /\ scoreNode(graph, n, kw, c, maxDepth) \in Int /\ scoreNode(graph, n, kw, d, maxDepth) \in Int
         /\ scoreNode(graph, n, kw, d, maxDepth) < scoreNode(graph, n, kw, c, maxDepth)
<1> DEFINE m == maxDeg(graph)
           x == Merit(n, kw, c, maxDepth)
           y == Merit(n, kw, d, maxDepth)
           z == (IF kw > 0 THEN 2 ELSE -3) * degree(graph, n)
<1>1. m \in Nat /\ m >= 1 /\ z \in Int
  BY MaxDegFacts
<1>2. x \in Int /\ y \in Int /\ x >= y + 1
  <2>1. x \in Int /\ y \in Int /\ x = y + 2 * (d - c)
    BY Merits
  <2> HIDE DEF x, y
  <2>2. QED BY <2>1
<1>3. scoreNode(graph, n, kw, c, maxDepth) = m * x + z /\ scoreNode(graph, n, kw, d, maxDepth) = m * y + z
  BY ScoreIs
<1> HIDE DEF m, x, y, z
<1>4. m * x \in Int /\ m * y \in Int /\ m * x >= m * y + m * 1
  BY <1>1, <1>2, Times
<1>5. QED BY <1>1, <1>3, <1>4

\* A node that matches more keywords of the task has a higher score, when the
\* nodes that match are at depth 0 and the others are not.
LEMMA KeywordsScore ==
  ASSUME GraphTyped, NEW i \in Ids, NEW j \in Ids, NEW ki \in Nat, NEW kj \in Nat, ki > kj,
         NEW c \in Nat, NEW d \in Nat, NEW maxDepth \in Nat,
         ki > 0 => c = 0, IF kj > 0 THEN d = 0 ELSE d > 0
  PROVE  /\ scoreNode(graph, i, ki, c, maxDepth) \in Int /\ scoreNode(graph, j, kj, d, maxDepth) \in Int
         /\ scoreNode(graph, i, ki, c, maxDepth) > scoreNode(graph, j, kj, d, maxDepth)
<1> DEFINE m == maxDeg(graph)
           x == Merit(i, ki, c, maxDepth)
           y == Merit(j, kj, d, maxDepth)
           gi == degree(graph, i)
           gj == degree(graph, j)
<1>1. m \in Nat /\ m >= 1 /\ gi \in Nat /\ gj \in Nat /\ gi <= m /\ gj <= m
  BY MaxDegFacts
<1>2. ki > 0 /\ c = 0
  OBVIOUS
<1>3. x \in Int /\ y \in Int /\ x >= y + 3
  <2>1. x \in Int /\ y \in Int /\ x >= 10 * ki + 2 * (maxDepth - c + 1) - 4
        /\ y <= 10 * kj + 2 * (maxDepth - d + 1) + 3
    BY <1>2, Merits
  <2> HIDE DEF x, y
  <2>2. QED BY <2>1, <1>2
<1>4. /\ scoreNode(graph, i, ki, c, maxDepth) = m * x + 2 * gi
      /\ scoreNode(graph, j, kj, d, maxDepth) = m * y + (IF kj > 0 THEN 2 ELSE -3) * gj
  BY <1>2, ScoreIs
<1> HIDE DEF m, x, y, gi, gj
<1>5. m * x \in Int /\ m * y \in Int /\ m * x >= m * y + m * 3
  BY <1>1, <1>3, Times
<1>6. CASE kj > 0
  BY <1>1, <1>4, <1>5, <1>6
<1>7. CASE ~ (kj > 0)
  BY <1>1, <1>4, <1>5, <1>7
<1>8. QED BY <1>6, <1>7

-----------------------------------------------------------------------------
(* The expansion of rankContext                                            *)

Vias == ToSet(EdgeTypes) \cup {"seed"}

Ranking == [id : Ids, kw : Nat, depth : Nat, via : Vias, score : Int]

Bests == UNION {[T -> Ranking] : T \in SUBSET Ids}

Members(seq) == {seq[i] : i \in 1..Len(seq)}

Walking == [best : Bests, visited : SUBSET Ids, next : Seq(Ids)]

LEMMA RankTyped ==
  ASSUME GraphTyped, NEW n \in Ids, NEW task, IsFiniteSet(task), NEW d \in Nat, NEW D \in Nat, NEW via \in Vias
  PROVE  Rank(graph, n, task, d, D, via) \in Ranking
<1>1. keywordScore(n, task) \in Nat
  BY KeywordScores
<1>2. scoreNode(graph, n, keywordScore(n, task), d, D) \in Int
  <2>1. d < d + 1 /\ d + 1 \in Nat
    OBVIOUS
  <2>2. QED BY <1>1, <2>1, NearerScores
<1>3. QED BY <1>1, <1>2 DEF Rank, Ranking

LEMMA BestsAre ==
  /\ \A f \in Bests : DOMAIN f \subseteq Ids /\ f = [n \in DOMAIN f |-> f[n]] /\ \A n \in DOMAIN f : f[n] \in Ranking
  /\ \A T \in SUBSET Ids : \A f \in [T -> Ranking] : f \in Bests
BY DEF Bests

LEMMA ConsiderTyped ==
  ASSUME NEW best \in Bests, NEW r \in Ranking
  PROVE  /\ consider(best, r) \in Bests
         /\ ~ (r.id \in DOMAIN best /\ r.score <= best[r.id].score) =>
              /\ DOMAIN consider(best, r) = DOMAIN best \cup {r.id}
              /\ consider(best, r)[r.id] = r
              /\ \A n \in DOMAIN best \ {r.id} : consider(best, r)[n] = best[n]
<1>1. CASE r.id \in DOMAIN best /\ r.score <= best[r.id].score
  BY <1>1 DEF consider
<1>2. CASE ~ (r.id \in DOMAIN best /\ r.score <= best[r.id].score)
  <2> DEFINE T == DOMAIN best \cup {r.id}
             new == [n \in T |-> IF n = r.id THEN r ELSE best[n]]
  <2>1. consider(best, r) = new
    BY <1>2, Zenon DEF consider
  <2>2. T \in SUBSET Ids /\ \A n \in DOMAIN best : best[n] \in Ranking
    BY BestsAre DEF Ranking
  <2>3. new \in [T -> Ranking]
    BY <2>2
  <2>4. new \in Bests
    <3> HIDE DEF new, T
    <3>1. QED BY <2>2, <2>3, BestsAre
  <2>5. QED BY <1>2, <2>1, <2>4
<1>3. QED BY <1>1, <1>2

LEMMA WeighTyped ==
  ASSUME GraphTyped, NEW task, IsFiniteSet(task), NEW d \in Nat, NEW D \in Nat, NEW acc \in Walking, NEW nb \in Link
  PROVE  Weigh(graph, task, d, D, acc, nb) \in Walking
<1>1. nb[1] \in Ids /\ nb[2] \in Vias
  BY DEF Link, Vias
<1>2. Rank(graph, nb[1], task, d, D, nb[2]) \in Ranking
  BY <1>1, RankTyped
<1>3. acc.best \in Bests /\ acc.visited \in SUBSET Ids /\ acc.next \in Seq(Ids)
  BY DEF Walking
<1>4. consider(acc.best, Rank(graph, nb[1], task, d, D, nb[2])) \in Bests
  BY <1>2, <1>3, ConsiderTyped
<1>5. Append(acc.next, nb[1]) \in Seq(Ids)
  BY <1>1, <1>3
<1>6. QED BY <1>1, <1>3, <1>4, <1>5 DEF Weigh, Walking

WidenRun(wide, task, d, D, acc, id) ==
  /\ wide[0] = acc /\ Widen(graph, task, d, D, acc, id) = wide[Len(Neighbors(graph, id))]
  /\ \A i \in 0..Len(Neighbors(graph, id)) : wide[i] \in Walking
  /\ \A i \in 1..Len(Neighbors(graph, id)) :
       wide[i] = Weigh(graph, task, d, D, wide[i - 1], Neighbors(graph, id)[i])

LEMMA WidenLoop ==
  ASSUME GraphTyped, NEW task, IsFiniteSet(task), NEW d \in Nat, NEW D \in Nat, NEW acc \in Walking, NEW id
  PROVE  \E wide : WidenRun(wide, task, d, D, acc, id)
<1> DEFINE nbs == Neighbors(graph, id)
           n == Len(nbs)
           More(w, i) == Weigh(graph, task, d, D, w, nbs[i])
           step == [i \in 1..n |-> [w \in Walking |-> More(w, i)]]
           Run(f) == f = [i \in 0..n |-> IF i = 0 THEN acc ELSE More(f[i - 1], i)]
           wide == CHOOSE f : Run(f)
<1>1. n \in Nat /\ \A i \in 1..n : \A w \in Walking : More(w, i) \in Walking
  <2>1. nbs \in Seq(Link)
    BY NeighborsAre
  <2>2. n \in Nat /\ \A i \in 1..n : nbs[i] \in Link
    BY <2>1
  <2>3. QED BY <2>2, WeighTyped
<1>2. Widen(graph, task, d, D, acc, id) = wide[n]
  BY DEF Widen
<1> HIDE DEF nbs, n, More
<1>3. /\ step \in [1..n -> [Walking -> Walking]]
      /\ \A i \in 1..n : \A s \in Walking : step[i][s] = More(s, i)
  BY <1>1
<1> HIDE DEF step
<1>4. PICK f : History(f, n, Walking, acc, step)
  BY <1>1, <1>3, LoopExists
<1>5. \A i \in 1..n : i - 1 \in 0..n /\ f[i] = More(f[i - 1], i)
  BY <1>1, <1>3, <1>4 DEF History
<1>6. Run(f)
  BY <1>1, <1>4, <1>5 DEF History
<1>7. Run(wide)
  BY <1>6, Zenon
<1>8. \A h : Run(h) => h[0] = acc /\ \A i \in 1..n : h[i] = More(h[i - 1], i)
  BY <1>1
<1> HIDE DEF Run, wide
<1>9. Follows(wide, n, Walking, acc, step)
  BY <1>3, <1>7, <1>8 DEF Follows
<1>10. \A i \in 0..n : wide[i] \in Walking
  BY <1>1, <1>3, <1>9, LoopStays
<1>11. wide[0] = acc /\ \A i \in 1..n : wide[i] = More(wide[i - 1], i)
  BY <1>7, <1>8
<1>12. QED BY <1>2, <1>10, <1>11 DEF WidenRun, More, n, nbs

LEMMA WidenTyped ==
  ASSUME GraphTyped, NEW task, IsFiniteSet(task), NEW d \in Nat, NEW D \in Nat, NEW acc \in Walking, NEW id
  PROVE  Widen(graph, task, d, D, acc, id) \in Walking
<1>1. PICK wide : WidenRun(wide, task, d, D, acc, id)
  BY WidenLoop
<1> DEFINE n == Len(Neighbors(graph, id))
<1>2. n \in 0..n
  <2>1. Neighbors(graph, id) \in Seq(Link)
    BY NeighborsAre
  <2>2. QED BY <2>1
<1> HIDE DEF n
<1>3. QED BY <1>1, <1>2 DEF WidenRun, n

\* A round starts with an empty frontier.
Emptied(acc) == [acc EXCEPT !.next = <<>>]

RoundRun(done, task, d, D, acc) ==
  /\ done[0] = Emptied(acc) /\ Round(graph, task, d, D, acc) = done[Len(acc.next)]
  /\ \A i \in 0..Len(acc.next) : done[i] \in Walking
  /\ \A i \in 1..Len(acc.next) : done[i] = Widen(graph, task, d, D, done[i - 1], acc.next[i])

LEMMA RoundLoop ==
  ASSUME GraphTyped, NEW task, IsFiniteSet(task), NEW d \in Nat, NEW D \in Nat, NEW acc \in Walking
  PROVE  \E done : RoundRun(done, task, d, D, acc)
<1> DEFINE n == Len(acc.next)
           z == Emptied(acc)
           More(w, i) == Widen(graph, task, d, D, w, acc.next[i])
           step == [i \in 1..n |-> [w \in Walking |-> More(w, i)]]
           Run(f) == f = [i \in 0..n |-> IF i = 0 THEN z ELSE More(f[i - 1], i)]
           done == CHOOSE f : Run(f)
<1>1. n \in Nat /\ \A i \in 1..n : \A w \in Walking : More(w, i) \in Walking
  <2>1. n \in Nat
    BY DEF Walking
  <2>2. QED BY <2>1, WidenTyped
<1>2. Round(graph, task, d, D, acc) = done[n] /\ z \in Walking
  <2>1. z = [best |-> acc.best, visited |-> acc.visited, next |-> <<>>] /\ <<>> \in Seq(Ids)
    BY DEF Walking, Emptied
  <2>2. z \in Walking
    BY <2>1 DEF Walking
  <2>3. QED BY <2>2 DEF Round, Emptied
<1> HIDE DEF n, More, z
<1>3. /\ step \in [1..n -> [Walking -> Walking]]
      /\ \A i \in 1..n : \A s \in Walking : step[i][s] = More(s, i)
  BY <1>1
<1> HIDE DEF step
<1>4. PICK f : History(f, n, Walking, z, step)
  BY <1>1, <1>2, <1>3, LoopExists
<1>5. \A i \in 1..n : i - 1 \in 0..n /\ f[i] = More(f[i - 1], i)
  BY <1>1, <1>3, <1>4 DEF History
<1>6. Run(f)
  BY <1>1, <1>4, <1>5 DEF History
<1>7. Run(done)
  BY <1>6, Zenon
<1>8. \A h : Run(h) => h[0] = z /\ \A i \in 1..n : h[i] = More(h[i - 1], i)
  BY <1>1
<1> HIDE DEF Run, done
<1>9. Follows(done, n, Walking, z, step)
  BY <1>3, <1>7, <1>8 DEF Follows
<1>10. \A i \in 0..n : done[i] \in Walking
  BY <1>1, <1>2, <1>3, <1>9, LoopStays
<1>11. done[0] = z /\ \A i \in 1..n : done[i] = More(done[i - 1], i)
  BY <1>7, <1>8
<1>12. QED BY <1>2, <1>10, <1>11 DEF RoundRun, More, n, z

LEMMA RoundTyped ==
  ASSUME GraphTyped, NEW task, IsFiniteSet(task), NEW d \in Nat, NEW D \in Nat, NEW acc \in Walking
  PROVE  Round(graph, task, d, D, acc) \in Walking
<1>1. PICK done : RoundRun(done, task, d, D, acc)
  BY RoundLoop
<1>2. Len(acc.next) \in 0..Len(acc.next)
  BY DEF Walking
<1>3. QED BY <1>1, <1>2 DEF RoundRun

Seeded(task, seeds, D) ==
  [best |-> [n \in seeds |-> Rank(graph, n, task, 0, D, "seed")], visited |-> seeds, next |-> Sorted(seeds)]

ExpandRun(round, task, seeds, D) ==
  /\ round[0] = Seeded(task, seeds, D) /\ Expand(graph, task, seeds, D) = round[D].best
  /\ \A d \in 0..D : round[d] \in Walking
  /\ \A d \in 1..D : round[d] = Round(graph, task, d, D, round[d - 1])

LEMMA SeededTyped ==
  ASSUME GraphTyped, NEW task, IsFiniteSet(task), NEW seeds \in SUBSET Ids, NEW D \in Nat
  PROVE  /\ Seeded(task, seeds, D) \in Walking
         /\ Members(Sorted(seeds)) = seeds
<1>1. IsFiniteSet(seeds) /\ seeds \subseteq Nat
  BY IdsAssumption, FS_Subset
<1>2. Lists(Sorted(seeds), seeds)
  BY <1>1, SortedLists
<1>3. Sorted(seeds) \in Seq(Ids)
  <2>1. Sorted(seeds) \in Seq(seeds)
    BY <1>2 DEF Lists
  <2>2. QED BY <2>1
<1>4. [n \in seeds |-> Rank(graph, n, task, 0, D, "seed")] \in Bests
  <2>1. \A n \in seeds : Rank(graph, n, task, 0, D, "seed") \in Ranking
    BY RankTyped DEF Vias
  <2>2. [n \in seeds |-> Rank(graph, n, task, 0, D, "seed")] \in [seeds -> Ranking]
    BY <2>1
  <2>3. QED BY <2>2, BestsAre
<1>5. Members(Sorted(seeds)) = seeds
  <2> DEFINE s == Sorted(seeds)
  <2>1. /\ s \in Seq(seeds) /\ Len(s) \in Nat /\ DOMAIN s = 1..Len(s)
        /\ \A x \in seeds : \E i \in 1..Len(s) : s[i] = x
    BY <1>2 DEF Lists
  <2> HIDE DEF s
  <2>2. \A i \in 1..Len(s) : s[i] \in seeds
    BY <2>1
  <2>3. Members(s) = seeds
    BY <2>1, <2>2 DEF Members
  <2>4. QED BY <2>3 DEF s
<1>6. QED BY <1>3, <1>4, <1>5 DEF Seeded, Walking

LEMMA ExpandLoop ==
  ASSUME GraphTyped, NEW task, IsFiniteSet(task), NEW seeds \in SUBSET Ids, NEW D \in Nat
  PROVE  \E round : ExpandRun(round, task, seeds, D)
<1> DEFINE z == Seeded(task, seeds, D)
           More(w, d) == Round(graph, task, d, D, w)
           step == [d \in 1..D |-> [w \in Walking |-> More(w, d)]]
           Run(f) == f = [d \in 0..D |-> IF d = 0 THEN z ELSE More(f[d - 1], d)]
           round == CHOOSE f : Run(f)
<1>1. \A d \in 1..D : \A w \in Walking : More(w, d) \in Walking
  <2>1. \A d \in 1..D : d \in Nat
    OBVIOUS
  <2>2. QED BY <2>1, RoundTyped
<1>2. Expand(graph, task, seeds, D) = round[D].best /\ z \in Walking
  BY SeededTyped DEF Expand, Seeded
<1> HIDE DEF More, z
<1>3. /\ step \in [1..D -> [Walking -> Walking]]
      /\ \A d \in 1..D : \A s \in Walking : step[d][s] = More(s, d)
  BY <1>1
<1> HIDE DEF step
<1>4. PICK f : History(f, D, Walking, z, step)
  BY <1>2, <1>3, LoopExists
<1>5. \A d \in 1..D : d - 1 \in 0..D /\ f[d] = More(f[d - 1], d)
  BY <1>3, <1>4 DEF History
<1>6. Run(f)
  BY <1>4, <1>5 DEF History
<1>7. Run(round)
  BY <1>6, Zenon
<1>8. \A h : Run(h) => h[0] = z /\ \A d \in 1..D : h[d] = More(h[d - 1], d)
  OBVIOUS
<1> HIDE DEF Run, round
<1>9. Follows(round, D, Walking, z, step)
  BY <1>3, <1>7, <1>8 DEF Follows
<1>10. \A d \in 0..D : round[d] \in Walking
  BY <1>2, <1>3, <1>9, LoopStays
<1>11. round[0] = z /\ \A d \in 1..D : round[d] = More(round[d - 1], d)
  BY <1>7, <1>8
<1>12. QED BY <1>2, <1>10, <1>11 DEF ExpandRun, More, z

-----------------------------------------------------------------------------
(* What the expansion has met                                             *)

Crossed == {n \in Ids : Info[n].layer # "visual"}

\* At most k edges from a seed, without crossing a visual node.
Beyond(seeds, k) == Around(Crossed, seeds, k)

\* r ranks n at its true distance, which is at most d.
Truly(r, n, task, seeds, D, d) ==
  \E c \in Nat, via \in Vias :
    /\ c <= d /\ r = Rank(graph, n, task, c, D, via)
    /\ n \in Beyond(seeds, c) /\ (c > 0 => n \notin Beyond(seeds, c - 1))

\* What is met is ranked truly.
Trusted(acc, task, seeds, D, d) ==
  /\ acc \in Walking /\ DOMAIN acc.best = acc.visited
  /\ acc.visited \subseteq Beyond(seeds, d) /\ acc.visited \subseteq Crossed
  /\ \A n \in acc.visited : Truly(acc.best[n], n, task, seeds, D, d)

\* In round d: the frontier being built is what this round has met.
Amid(acc, task, seeds, D, d) ==
  /\ Trusted(acc, task, seeds, D, d)
  /\ Beyond(seeds, d - 1) \subseteq acc.visited
  /\ acc.visited = Beyond(seeds, d - 1) \cup Members(acc.next)

\* After round d: everything within d edges is met, and the frontier is the
\* part whose neighbours have not been looked at.
Done(acc, task, seeds, D, d) ==
  /\ Trusted(acc, task, seeds, D, d)
  /\ acc.visited = Beyond(seeds, d) /\ Members(acc.next) \subseteq acc.visited
  /\ \A m \in acc.visited \ Members(acc.next) : \A n \in Crossed : Touch(m, n) => n \in acc.visited

LEMMA BeyondFacts ==
  ASSUME NEW seeds, NEW d \in Nat, d > 0
  PROVE  /\ Beyond(seeds, d - 1) \subseteq Beyond(seeds, d)
         /\ Beyond(seeds, d) = Wider(Crossed, Beyond(seeds, d - 1))
         /\ \A c \in 0..d : Beyond(seeds, c) \subseteq Beyond(seeds, d)
<1>1. d - 1 \in Nat /\ (d - 1) + 1 = d
  OBVIOUS
<1>2. Beyond(seeds, d) = Wider(Crossed, Beyond(seeds, d - 1))
  BY <1>1, AroundStep DEF Beyond
<1>3. \A c \in 0..d : Beyond(seeds, c) \subseteq Beyond(seeds, d)
  BY AroundGrows DEF Beyond
<1>4. QED BY <1>2, <1>3 DEF Wider

LEMMA MembersAppend ==
  ASSUME NEW seq \in Seq(Ids), NEW n \in Ids
  PROVE  Members(Append(seq, n)) = Members(seq) \cup {n}
<1> DEFINE new == Append(seq, n)
<1>1. /\ Len(new) = Len(seq) + 1 /\ Len(seq) \in Nat /\ new[Len(seq) + 1] = n
      /\ \A i \in 1..Len(seq) : new[i] = seq[i]
  OBVIOUS
<1> HIDE DEF new
<1>2. \A i \in 1..Len(new) : i \in 1..Len(seq) \/ i = Len(seq) + 1
  BY <1>1
<1>3. (\A i \in 1..Len(seq) : i \in 1..Len(new)) /\ Len(seq) + 1 \in 1..Len(new)
  BY <1>1
<1>4. Members(new) = Members(seq) \cup {n}
  BY <1>1, <1>2, <1>3 DEF Members
<1>5. QED BY <1>4 DEF new

LEMMA WeighKeeps ==
  ASSUME GraphTyped, NEW task, IsFiniteSet(task), NEW seeds \in SUBSET Crossed, NEW D \in Nat,
         NEW d \in Nat, d > 0, NEW acc, Amid(acc, task, seeds, D, d),
         NEW m \in Beyond(seeds, d - 1), NEW nb \in Link, Touch(m, nb[1])
  PROVE  /\ Amid(Weigh(graph, task, d, D, acc, nb), task, seeds, D, d)
         /\ acc.visited \subseteq Weigh(graph, task, d, D, acc, nb).visited
         /\ nb[1] \in Crossed => nb[1] \in Weigh(graph, task, d, D, acc, nb).visited
<1> DEFINE n == nb[1]
           r == Rank(graph, n, task, d, D, nb[2])
           new == Weigh(graph, task, d, D, acc, nb)
<1>1. n \in Ids /\ nb[2] \in Vias /\ graph.ids = Ids
  BY GraphSets DEF Link, Vias
<1>2. /\ acc.best \in Bests /\ acc.visited \in SUBSET Ids /\ acc.next \in Seq(Ids)
      /\ acc = [best |-> acc.best, visited |-> acc.visited, next |-> acc.next]
      /\ acc.visited = DOMAIN acc.best
      /\ Trusted(acc, task, seeds, D, d)
  BY DEF Amid, Trusted, Walking
<1>3. CASE n \notin Crossed
  <2>1. new = acc
    BY <1>1, <1>3 DEF Weigh, Crossed
  <2>2. QED BY <2>1, <1>3
<1>4. CASE n \in Crossed
  <2>1. new = [best |-> consider(acc.best, r), visited |-> acc.visited \cup {n},
               next |-> IF n \in acc.visited THEN acc.next ELSE Append(acc.next, n)]
    BY <1>1, <1>4 DEF Weigh, Crossed
  <2>2. r \in Ranking /\ r.id = n /\ r.score = scoreNode(graph, n, keywordScore(n, task), d, D)
    <3>1. r.id = n /\ r.score = scoreNode(graph, n, keywordScore(n, task), d, D)
      BY DEF Rank
    <3>2. r \in Ranking
      BY <1>1, RankTyped
    <3>3. QED BY <3>1, <3>2
  <2>3. n \in Beyond(seeds, d)
    <3> DEFINE near == Beyond(seeds, d - 1)
    <3>1. Beyond(seeds, d) = Wider(Crossed, near) /\ m \in near /\ n \in Crossed /\ Touch(m, n)
      BY <1>4, BeyondFacts
    <3> HIDE DEF near, n
    <3>2. n \in Wider(Crossed, near)
      BY <3>1 DEF Wider
    <3>3. QED BY <3>1, <3>2
  <2>4. new \in Walking
    <3>1. acc \in Walking /\ nb \in Link
      BY DEF Amid, Trusted
    <3>2. QED BY <3>1, WeighTyped
  <2> HIDE DEF r, new, n
  <2>5. CASE n \in acc.visited
    <3>1. PICK c \in Nat, via \in Vias : c <= d /\ acc.best[n] = Rank(graph, n, task, c, D, via)
      BY <1>2, <2>5 DEF Trusted, Truly
    <3>2. acc.best[n].score = scoreNode(graph, n, keywordScore(n, task), c, D)
      BY <3>1 DEF Rank
    <3>3. keywordScore(n, task) \in Nat
      BY KeywordScores
    <3>4. r.score <= acc.best[n].score
      <4>1. CASE c = d
        <5>1. r.score = acc.best[n].score /\ r.score \in Int
          BY <4>1, <2>2, <3>2 DEF Ranking
        <5>2. QED BY <5>1
      <4>2. CASE c < d
        BY <4>2, <1>1, <2>2, <3>2, <3>3, NearerScores
      <4>3. QED BY <3>1, <4>1, <4>2
    <3>5. consider(acc.best, r) = acc.best
      BY <3>4, <2>2, <2>5, <1>2 DEF consider
    <3>6. new = acc
      <4>1. acc.visited \cup {n} = acc.visited
        BY <2>5
      <4>2. new = [best |-> acc.best, visited |-> acc.visited, next |-> acc.next]
        BY <2>1, <3>5, <4>1, <2>5
      <4>3. QED BY <4>2, <1>2
    <3>7. QED BY <3>6, <2>5 DEF new, n
  <2>6. CASE n \notin acc.visited
    <3>1. /\ new.best = consider(acc.best, r) /\ new.visited = acc.visited \cup {n}
          /\ new.next = Append(acc.next, n)
      BY <2>1, <2>6
    <3>2. /\ DOMAIN new.best = acc.visited \cup {n} /\ new.best[n] = r
          /\ \A w \in acc.visited : new.best[w] = acc.best[w]
      <4>1. n \notin DOMAIN acc.best
        BY <1>2, <2>6
      <4>2. acc.best \in Bests /\ r \in Ranking /\ r.id = n
        BY <1>2, <2>2
      <4>3. ~ (r.id \in DOMAIN acc.best /\ r.score <= acc.best[r.id].score)
        BY <4>1, <4>2
      <4>4. /\ DOMAIN consider(acc.best, r) = DOMAIN acc.best \cup {r.id}
            /\ consider(acc.best, r)[r.id] = r
            /\ \A w \in DOMAIN acc.best \ {r.id} : consider(acc.best, r)[w] = acc.best[w]
        BY <4>2, <4>3, ConsiderTyped
      <4>5. QED BY <1>2, <3>1, <4>1, <4>2, <4>4
    <3>3. Members(new.next) = Members(acc.next) \cup {n}
      BY <1>1, <1>2, <3>1, MembersAppend DEF n
    <3>4. Truly(r, n, task, seeds, D, d)
      <4>1. n \notin Beyond(seeds, d - 1)
        BY <2>6 DEF Amid
      <4>2. d <= d
        OBVIOUS
      <4>3. QED BY <4>1, <4>2, <1>1, <2>3 DEF Truly, r, n
    <3>5. \A w \in new.visited : Truly(new.best[w], w, task, seeds, D, d)
      BY <1>2, <3>1, <3>2, <3>4 DEF Trusted
    <3>6. Trusted(new, task, seeds, D, d)
      BY <1>2, <1>4, <2>3, <2>4, <3>1, <3>2, <3>5 DEF Trusted, n
    <3>7. Beyond(seeds, d - 1) \subseteq new.visited /\ new.visited = Beyond(seeds, d - 1) \cup Members(new.next)
      BY <3>1, <3>3 DEF Amid
    <3>8. Amid(new, task, seeds, D, d)
      BY <3>6, <3>7 DEF Amid
    <3>9. QED BY <3>1, <3>8 DEF new, n
  <2>7. QED BY <2>5, <2>6
<1>5. QED BY <1>3, <1>4

\* All neighbours of m have been met.
Widened(old, new, task, seeds, D, d, m) ==
  /\ Amid(new, task, seeds, D, d) /\ old.visited \subseteq new.visited
  /\ \A n \in Crossed : Touch(m, n) => n \in new.visited

LEMMA WidenKeeps ==
  ASSUME GraphTyped, NEW task, IsFiniteSet(task), NEW seeds \in SUBSET Crossed, NEW D \in Nat,
         NEW d \in Nat, d > 0, NEW acc, Amid(acc, task, seeds, D, d), NEW m \in Beyond(seeds, d - 1)
  PROVE  Widened(acc, Widen(graph, task, d, D, acc, m), task, seeds, D, d, m)
<1> DEFINE nbs == Neighbors(graph, m)
           n == Len(nbs)
<1>1. acc \in Walking
  BY DEF Amid, Trusted
<1>2. PICK wide : WidenRun(wide, task, d, D, acc, m)
  BY <1>1, WidenLoop
<1>3. /\ wide[0] = acc /\ Widen(graph, task, d, D, acc, m) = wide[n]
      /\ \A i \in 1..n : wide[i] = Weigh(graph, task, d, D, wide[i - 1], nbs[i])
  BY <1>2 DEF WidenRun
<1>4. n \in Nat /\ \A i \in 1..n : nbs[i] \in Link /\ Touch(m, nbs[i][1])
  <2>1. nbs \in Seq(Link) /\ \A i \in 1..n : Touch(m, nbs[i][1])
    BY NeighborsAre
  <2> HIDE DEF nbs
  <2>2. QED BY <2>1
<1>5. \A w : Touch(m, w) => \E i \in 1..n : nbs[i][1] = w
  BY NeighborsAre, Zenon
<1> HIDE DEF nbs, n
<1> DEFINE Keeps(i) == /\ Amid(wide[i], task, seeds, D, d) /\ acc.visited \subseteq wide[i].visited
                       /\ \A j \in 1..i : nbs[j][1] \in Crossed => nbs[j][1] \in wide[i].visited
           S == {i \in 0..n : Keeps(i)}
<1>6. 0 \in S
  <2>1. 0 \in 0..n
    BY <1>4
  <2>2. QED BY <2>1, <1>3
<1>7. ASSUME NEW i \in 0..(n - 1), i \in S PROVE i + 1 \in S
  <2>1. i + 1 \in 1..n /\ i + 1 \in 0..n /\ (i + 1) - 1 = i
    BY <1>4
  <2> DEFINE old == wide[i]
             new == wide[i + 1]
             nb == nbs[i + 1]
  <2>2. new = Weigh(graph, task, d, D, old, nb) /\ nb \in Link /\ Touch(m, nb[1])
    BY <2>1, <1>3, <1>4
  <2>3. Amid(old, task, seeds, D, d) /\ acc.visited \subseteq old.visited
        /\ \A j \in 1..i : nbs[j][1] \in Crossed => nbs[j][1] \in old.visited
    BY <1>7
  <2> HIDE DEF old, new, nb
  <2>4. /\ Amid(new, task, seeds, D, d) /\ old.visited \subseteq new.visited
        /\ nb[1] \in Crossed => nb[1] \in new.visited
    BY <2>2, <2>3, WeighKeeps
  <2>5. \A j \in 1..(i + 1) : nbs[j][1] \in Crossed => nbs[j][1] \in new.visited
    <3>1. \A j \in 1..(i + 1) : j \in 1..i \/ j = i + 1
      BY <2>1
    <3>2. QED BY <3>1, <2>3, <2>4 DEF nb
  <2>6. Keeps(i + 1)
    BY <2>3, <2>4, <2>5 DEF new
  <2>7. QED BY <2>1, <2>6
<1> HIDE DEF S
<1>8. \A i \in 0..(n - 1) : i \in S => i + 1 \in S
  BY <1>7
<1>9. \A i \in 0..n : i \in S
  BY <1>4, <1>6, <1>8, Induction
<1>10. Keeps(n)
  <2>1. n \in S
    BY <1>4, <1>9
  <2>2. QED BY <2>1 DEF S
<1>11. QED BY <1>3, <1>5, <1>10 DEF Widened

LEMMA RoundKeeps ==
  ASSUME GraphTyped, NEW task, IsFiniteSet(task), NEW seeds \in SUBSET Crossed, NEW D \in Nat,
         NEW d \in Nat, d > 0, NEW acc, Done(acc, task, seeds, D, d - 1)
  PROVE  Done(Round(graph, task, d, D, acc), task, seeds, D, d)
<1> DEFINE n == Len(acc.next)
           next == acc.next
           near == Beyond(seeds, d - 1)
           far == Beyond(seeds, d)
<1>1. acc \in Walking /\ next \in Seq(Ids) /\ n \in Nat
  BY DEF Done, Trusted, Walking
<1>2. PICK done : RoundRun(done, task, d, D, acc)
  BY <1>1, RoundLoop
<1>3. /\ done[0] = Emptied(acc) /\ Round(graph, task, d, D, acc) = done[n]
      /\ \A i \in 0..n : done[i] \in Walking
      /\ \A i \in 1..n : done[i] = Widen(graph, task, d, D, done[i - 1], next[i])
  BY <1>2 DEF RoundRun
<1>4. near \subseteq far /\ far = Wider(Crossed, near) /\ acc.visited = near
  BY BeyondFacts DEF Done
<1>5. Members(next) = {next[i] : i \in 1..n} /\ Members(next) \subseteq near
  BY DEF Members, Done
<1> HIDE DEF n, next, near, far
<1>6. Amid(done[0], task, seeds, D, d)
  <2>1. done[0].best = acc.best /\ done[0].visited = near /\ done[0].next = <<>> /\ done[0] \in Walking
    <3>1. acc = [best |-> acc.best, visited |-> acc.visited, next |-> acc.next]
      BY <1>1 DEF Walking
    <3>2. Emptied(acc) = [best |-> acc.best, visited |-> acc.visited, next |-> <<>>]
      BY <3>1 DEF Emptied
    <3>3. QED BY <3>2, <1>1, <1>3, <1>4
  <2>2. Members(done[0].next) = {}
    BY <2>1 DEF Members
  <2>3. \A w \in near : Truly(acc.best[w], w, task, seeds, D, d)
    <3>1. \A w \in near : Truly(acc.best[w], w, task, seeds, D, d - 1)
      BY <1>4 DEF Done, Trusted
    <3>2. \A c \in Nat : c <= d - 1 => c <= d
      OBVIOUS
    <3>3. QED BY <3>1, <3>2 DEF Truly
  <2>4. DOMAIN acc.best = near /\ near \subseteq Crossed
    BY <1>4 DEF Done, Trusted
  <2>5. Trusted(done[0], task, seeds, D, d)
    BY <2>1, <2>3, <2>4, <1>4 DEF Trusted, far
  <2>6. QED BY <2>1, <2>2, <2>5 DEF Amid, near
<1> DEFINE Keeps(i) == /\ Amid(done[i], task, seeds, D, d)
                       /\ \A j \in 1..i : \A w \in Crossed : Touch(next[j], w) => w \in done[i].visited
           S == {i \in 0..n : Keeps(i)}
<1>7. 0 \in S
  BY <1>1, <1>6
<1>8. ASSUME NEW i \in 0..(n - 1), i \in S PROVE i + 1 \in S
  <2>1. i + 1 \in 1..n /\ i + 1 \in 0..n /\ (i + 1) - 1 = i
    BY <1>1
  <2> DEFINE old == done[i]
             new == done[i + 1]
             m == next[i + 1]
  <2>2. new = Widen(graph, task, d, D, old, m) /\ m \in Beyond(seeds, d - 1)
    BY <2>1, <1>3, <1>5 DEF near
  <2>3. Amid(old, task, seeds, D, d) /\ \A j \in 1..i : \A w \in Crossed : Touch(next[j], w) => w \in old.visited
    BY <1>8
  <2> HIDE DEF old, new, m
  <2>4. Widened(old, new, task, seeds, D, d, m)
    BY <2>2, <2>3, WidenKeeps
  <2>5. \A j \in 1..(i + 1) : \A w \in Crossed : Touch(next[j], w) => w \in new.visited
    <3>1. \A j \in 1..(i + 1) : j \in 1..i \/ j = i + 1
      BY <2>1
    <3>2. QED BY <3>1, <2>3, <2>4 DEF Widened, m
  <2>6. Keeps(i + 1)
    BY <2>4, <2>5 DEF Widened, new
  <2>7. QED BY <2>1, <2>6
<1> HIDE DEF S
<1>9. \A i \in 0..(n - 1) : i \in S => i + 1 \in S
  BY <1>8
<1>10. \A i \in 0..n : i \in S
  BY <1>1, <1>7, <1>9, Induction
<1>11. Keeps(n)
  <2>1. n \in S
    BY <1>1, <1>10
  <2>2. QED BY <2>1 DEF S
<1> DEFINE new == done[n]
<1>12. /\ Trusted(new, task, seeds, D, d) /\ near \subseteq new.visited
       /\ new.visited = near \cup Members(new.next)
  BY <1>11 DEF Amid, near
<1>13. \A m \in near : \A w \in Crossed : Touch(m, w) => w \in new.visited
  <2> SUFFICES ASSUME NEW m \in near, NEW w \in Crossed, Touch(m, w) PROVE w \in new.visited
    OBVIOUS
  <2>1. CASE m \in Members(next)
    BY <2>1, <1>5, <1>11
  <2>2. CASE m \notin Members(next)
    <3>1. w \in near
      BY <2>2, <1>4 DEF Done, next
    <3>2. QED BY <3>1, <1>12
  <2>3. QED BY <2>1, <2>2
<1>14. new.visited = far
  <2>1. new.visited \subseteq far
    BY <1>12 DEF Trusted, far
  <2>2. far \subseteq new.visited
    BY <1>4, <1>12, <1>13 DEF Wider
  <2>3. QED BY <2>1, <2>2
<1>15. Members(new.next) \subseteq new.visited
       /\ \A m \in new.visited \ Members(new.next) : \A w \in Crossed : Touch(m, w) => w \in new.visited
  BY <1>12, <1>13
<1> HIDE DEF new
<1>16. QED BY <1>3, <1>12, <1>14, <1>15 DEF Done, far, new

\* The expansion ranks what is within reach, each at its true distance.
LEMMA ExpandIs ==
  ASSUME GraphTyped, NEW task, IsFiniteSet(task), NEW seeds \in SUBSET Crossed, NEW D \in Nat,
         NEW best, best = Expand(graph, task, seeds, D)
  PROVE  /\ best \in Bests /\ DOMAIN best = Beyond(seeds, D)
         /\ \A n \in DOMAIN best : Truly(best[n], n, task, seeds, D, D)
<1>0. seeds \in SUBSET Ids
  BY DEF Crossed
<1>1. PICK round : ExpandRun(round, task, seeds, D)
  BY <1>0, ExpandLoop
<1>2. /\ round[0] = Seeded(task, seeds, D) /\ best = round[D].best
      /\ \A d \in 1..D : round[d] = Round(graph, task, d, D, round[d - 1])
  BY <1>1 DEF ExpandRun
<1> DEFINE S == {d \in 0..D : Done(round[d], task, seeds, D, d)}
<1>3. 0 \in S
  <2> DEFINE z == Seeded(task, seeds, D)
  <2>1. /\ z \in Walking /\ z.visited = seeds /\ Members(z.next) = seeds /\ DOMAIN z.best = seeds
        /\ \A n \in seeds : z.best[n] = Rank(graph, n, task, 0, D, "seed")
    BY <1>0, SeededTyped DEF Seeded
  <2> HIDE DEF z
  <2>2. Beyond(seeds, 0) = seeds
    BY AroundStep DEF Beyond
  <2>3. \A n \in seeds : Truly(z.best[n], n, task, seeds, D, 0)
    <3>1. "seed" \in Vias /\ 0 \in Nat /\ 0 <= 0 /\ ~ (0 > 0)
      BY DEF Vias
    <3>2. QED BY <2>1, <2>2, <3>1 DEF Truly
  <2>4. Trusted(z, task, seeds, D, 0)
    BY <2>1, <2>2, <2>3 DEF Trusted
  <2>5. Done(z, task, seeds, D, 0)
    BY <2>1, <2>2, <2>4 DEF Done
  <2>6. QED BY <2>5, <1>2 DEF z
<1>4. ASSUME NEW d \in 0..(D - 1), d \in S PROVE d + 1 \in S
  <2>1. d + 1 \in 1..D /\ d + 1 \in 0..D /\ (d + 1) - 1 = d /\ d + 1 \in Nat /\ d + 1 > 0
    OBVIOUS
  <2>2. round[d + 1] = Round(graph, task, d + 1, D, round[d])
    BY <1>2, <2>1
  <2>3. Done(round[d], task, seeds, D, (d + 1) - 1)
    BY <1>4, <2>1
  <2>4. Done(round[d + 1], task, seeds, D, d + 1)
    BY <2>1, <2>2, <2>3, RoundKeeps
  <2>5. QED BY <2>1, <2>4
<1> HIDE DEF S
<1>5. \A d \in 0..(D - 1) : d \in S => d + 1 \in S
  BY <1>4
<1>6. \A d \in 0..D : d \in S
  BY <1>3, <1>5, Induction
<1>7. Done(round[D], task, seeds, D, D)
  <2>1. D \in S
    BY <1>6
  <2>2. QED BY <2>1 DEF S
<1>8. QED BY <1>2, <1>7 DEF Done, Trusted, Walking

-----------------------------------------------------------------------------
(* The ranked context                                                      *)

LEMMA RanksInOrder ==
  ASSUME NEW S, IsFiniteSet(S), NEW T, NEW s \in [1..Cardinality(S) -> T],
         \A i \in 1..Cardinality(S) :
           s[i] = CHOOSE x \in S : Cardinality({y \in S : RankBefore(y, x)}) = i - 1,
         \A x \in S : ~ (RankBefore(x, x)),
         \A x, y, z \in S : RankBefore(x, y) /\ RankBefore(y, z) => RankBefore(x, z),
         \A x, y \in S : x # y => RankBefore(x, y) \/ RankBefore(y, x)
  PROVE  Lists(s, S) /\ \A i, j \in 1..Len(s) : i < j => RankBefore(s[i], s[j])
<1> DEFINE below == [x \in S |-> {y \in S : RankBefore(y, x)}]
<1>1. below \in [S -> SUBSET S] /\ \A x, y \in S : y \in below[x] <=> RankBefore(y, x)
  OBVIOUS
<1>2. \A x \in S : below[x] = {y \in S : RankBefore(y, x)}
  OBVIOUS
<1> HIDE DEF below
<1>3. StrictOrder(S, below)
  BY <1>1 DEF StrictOrder
<1>4. \A i \in 1..Cardinality(S) : \E x \in S : Cardinality(below[x]) = i - 1
  BY <1>3, Places
<1>5. \A i \in 1..Cardinality(S) : s[i] \in S /\ Cardinality({y \in S : RankBefore(y, s[i])}) = i - 1
  <2> TAKE i \in 1..Cardinality(S)
  <2> DEFINE P(x) == Cardinality({y \in S : RankBefore(y, x)}) = i - 1
  <2>1. \E x \in S : P(x)
    BY <1>2, <1>4, Zenon
  <2>2. s[i] = CHOOSE x \in S : P(x)
    OBVIOUS
  <2> HIDE DEF P
  <2>3. s[i] \in S /\ P(s[i])
    BY <2>1, <2>2, Zenon
  <2>4. QED BY <2>3 DEF P
<1>6. s \in [1..Cardinality(S) -> S]
  BY <1>5
<1>7. \A i \in 1..Cardinality(S) : Cardinality(below[s[i]]) = i - 1
  BY <1>2, <1>5
<1>8. Lists(s, S) /\ \A i, j \in 1..Len(s) : i < j => s[i] \in below[s[j]]
  BY <1>3, <1>6, <1>7, Listed, Zenon
<1>9. \A i \in 1..Len(s) : s[i] \in S
  BY <1>8 DEF Lists
<1>10. QED BY <1>1, <1>8, <1>9

\* The ranks of the mode's nodes.
Matching(best, mode) == {best[n] : n \in {m \in DOMAIN best : inMode(m, mode)}}

LEMMA BestFirstLists ==
  ASSUME NEW best \in Bests, \A n \in DOMAIN best : best[n].id = n, NEW mode
  PROVE  /\ Lists(BestFirst(best, mode), Matching(best, mode))
         /\ \A i, j \in 1..Len(BestFirst(best, mode)) :
              i < j => RankBefore(BestFirst(best, mode)[i], BestFirst(best, mode)[j])
<1> DEFINE S == Matching(best, mode)
           s == BestFirst(best, mode)
           T == {s[i] : i \in 1..Cardinality(S)}
           within == {m \in DOMAIN best : inMode(m, mode)}
<1>1. /\ DOMAIN best \subseteq Ids /\ \A n \in DOMAIN best : best[n] \in Ranking
  BY BestsAre
<1>2. S = {best[n] : n \in within}
  BY DEF Matching
<1>3. IsFiniteSet(S)
  <2>1. IsFiniteSet(within)
    BY <1>1, IdsAssumption, FS_Subset
  <2> HIDE DEF within, S
  <2> DEFINE f == [n \in within |-> best[n]]
  <2>2. f \in Surjection(within, S)
    BY <1>2 DEF Surjection
  <2>3. QED BY <2>1, <2>2, FS_Surjection
<1>4. \A x \in S : x.id \in DOMAIN best /\ x = best[x.id] /\ x.score \in Int /\ x.depth \in Nat /\ x.id \in Nat
  <2>1. \A n \in within : best[n].id = n /\ best[n] \in Ranking
    BY <1>1
  <2>2. \A x \in Ranking : x.score \in Int /\ x.depth \in Nat /\ x.id \in Ids
    BY DEF Ranking
  <2>3. QED BY <1>2, <2>1, <2>2, IdsAssumption
<1> HIDE DEF S
<1>5. /\ \A x \in S : ~ RankBefore(x, x)
      /\ \A x, y, z \in S : RankBefore(x, y) /\ RankBefore(y, z) => RankBefore(x, z)
      /\ \A x, y \in S : x # y => RankBefore(x, y) \/ RankBefore(y, x)
  <2>1. \A x, y \in S : x.id = y.id => x = y
    BY <1>4
  <2>2. \A x \in S : x.score \in Int /\ x.depth \in Nat /\ x.id \in Nat
    BY <1>4
  <2>3. QED BY <2>1, <2>2 DEF RankBefore
<1>6. s = [i \in 1..Cardinality(S) |-> CHOOSE x \in S : Cardinality({y \in S : RankBefore(y, x)}) = i - 1]
  BY DEF BestFirst, SortBy, S, Matching
<1>7. \A i \in 1..Cardinality(S) : s[i] = CHOOSE x \in S : Cardinality({y \in S : RankBefore(y, x)}) = i - 1
  BY <1>6, Zenon
<1>8. s \in [1..Cardinality(S) -> T]
  BY <1>6
<1> HIDE DEF s, T
<1>9. Lists(s, S) /\ \A i, j \in 1..Len(s) : i < j => RankBefore(s[i], s[j])
  BY <1>3, <1>5, <1>7, <1>8, RanksInOrder, Zenon
<1>10. QED BY <1>9 DEF s, S

\* The nodes a task starts from.
Sources(task, mode) == {n \in Ids : inMode(n, mode) /\ keywordScore(n, task) > 0}

LEMMA RankContextIs ==
  ASSUME GraphTyped, NEW task, NEW mode \in Modes, NEW depth, NEW limit
  PROVE  /\ Sources(task, mode) \in SUBSET Crossed
         /\ rankContext(graph, task, mode, depth, limit)
              = UpTo(BestFirst(Expand(graph, task, Sources(task, mode), depth), mode), limit)
<1>1. resolveMode(task, mode) = mode
  BY DEF resolveMode, Modes
<1>2. Seeds(graph, task, mode) = Sources(task, mode)
  <2>1. graph.ids = Ids
    BY GraphSets
  <2>2. QED BY <2>1 DEF Seeds, Sources
<1>3. Sources(task, mode) \in SUBSET Crossed
  BY DEF Crossed, inMode, Sources
<1>4. QED BY <1>1, <1>2, <1>3 DEF rankContext

\* What is said of r, the ranked nodes of a task.
WellRanked(r, task, mode, depth) ==
  LET seeds == Sources(task, mode)
  IN /\ {r[i].id : i \in DOMAIN r} = {n \in Around(Crossed, seeds, depth) : inMode(n, mode)}
     /\ NoRepeats(IdsOf(r))
     /\ \A i \in DOMAIN r : r[i].id \in Around(Crossed, seeds, r[i].depth)
                            /\ (r[i].depth > 0 => r[i].id \notin Around(Crossed, seeds, r[i].depth - 1))
     /\ \A i, j \in DOMAIN r : r[i].kw > r[j].kw => i < j

LEMMA RankedWell ==
  ASSUME GraphTyped, NEW task, IsFiniteSet(task), NEW mode \in Modes, NEW depth \in Nat
  PROVE  WellRanked(rankContext(graph, task, mode, depth, 0), task, mode, depth)
<1> DEFINE seeds == Sources(task, mode)
           best == Expand(graph, task, seeds, depth)
           r == BestFirst(best, mode)
           S == Matching(best, mode)
           names == IdsOf(r)
<1>1. seeds \in SUBSET Crossed /\ rankContext(graph, task, mode, depth, 0) = UpTo(r, 0)
  BY RankContextIs
<1>2. UpTo(r, 0) = r
  BY DEF UpTo
<1>3. /\ best \in Bests /\ DOMAIN best = Beyond(seeds, depth)
      /\ \A n \in DOMAIN best : Truly(best[n], n, task, seeds, depth, depth)
  <2> HIDE DEF seeds
  <2>1. QED BY <1>1, ExpandIs
<1>4. \A n \in seeds : inMode(n, mode) /\ keywordScore(n, task) > 0
  BY DEF Sources
<1>5. \A n \in Ids : inMode(n, mode) /\ keywordScore(n, task) > 0 => n \in seeds
  BY DEF Sources
<1>6. Beyond(seeds, 0) = seeds
  <2>1. seeds \in SUBSET Crossed
    BY <1>1
  <2> HIDE DEF seeds
  <2>2. QED BY AroundStep DEF Beyond
<1> HIDE DEF seeds, best
<1>7. \A n \in DOMAIN best : best[n].id = n
  BY <1>3 DEF Truly, Rank
<1>8. Lists(r, S) /\ \A i, j \in 1..Len(r) : i < j => RankBefore(r[i], r[j])
  BY <1>3, <1>7, BestFirstLists
<1> HIDE DEF r
<1>9. /\ DOMAIN r = 1..Len(r) /\ Len(r) \in Nat
      /\ \A i \in DOMAIN r : r[i] \in S
      /\ \A x \in S : \E i \in DOMAIN r : r[i] = x
      /\ \A i, j \in DOMAIN r : r[i] = r[j] => i = j
  BY <1>8 DEF Lists
<1>10. \A x \in S : x.id \in DOMAIN best /\ x = best[x.id] /\ inMode(x.id, mode)
  BY <1>7 DEF Matching
<1>11. \A n \in DOMAIN best : inMode(n, mode) => best[n] \in S
  BY DEF Matching
<1> HIDE DEF S
<1>12. {r[i].id : i \in DOMAIN r} = {n \in Beyond(seeds, depth) : inMode(n, mode)}
  BY <1>3, <1>7, <1>9, <1>10, <1>11
<1>13. NoRepeats(names)
  <2>1. \A i \in DOMAIN r : names[i] = r[i].id
    BY DEF IdsOf
  <2>2. DOMAIN names = DOMAIN r
    BY DEF IdsOf
  <2> HIDE DEF names
  <2>3. \A i, j \in DOMAIN r : r[i].id = r[j].id => r[i] = r[j]
    BY <1>9, <1>10
  <2>4. QED BY <2>1, <2>2, <2>3, <1>9 DEF NoRepeats
<1>14. \A i \in DOMAIN r : Truly(r[i], r[i].id, task, seeds, depth, depth)
  BY <1>3, <1>9, <1>10
<1>15. \A i \in DOMAIN r : r[i].id \in Beyond(seeds, r[i].depth)
                           /\ (r[i].depth > 0 => r[i].id \notin Beyond(seeds, r[i].depth - 1))
  BY <1>14 DEF Truly, Rank
<1>16. \A i, j \in DOMAIN r : r[i].kw > r[j].kw => i < j
  <2> SUFFICES ASSUME NEW i \in DOMAIN r, NEW j \in DOMAIN r, r[i].kw > r[j].kw PROVE i < j
    OBVIOUS
  <2> DEFINE x == r[i]
             y == r[j]
  <2>1. /\ Truly(x, x.id, task, seeds, depth, depth) /\ Truly(y, y.id, task, seeds, depth, depth)
        /\ inMode(x.id, mode) /\ inMode(y.id, mode) /\ x.id \in Ids /\ y.id \in Ids
        /\ x.kw > y.kw
    <3>1. DOMAIN best \subseteq Ids
      BY <1>3, BestsAre
    <3>2. QED BY <3>1, <1>9, <1>10, <1>14
  <2> HIDE DEF x, y
  <2>2. PICK c \in Nat, via \in Vias : /\ c <= depth /\ x = Rank(graph, x.id, task, c, depth, via)
                                       /\ x.id \in Beyond(seeds, c) /\ (c > 0 => x.id \notin Beyond(seeds, c - 1))
    BY <2>1 DEF Truly
  <2>3. PICK d \in Nat, v \in Vias : /\ d <= depth /\ y = Rank(graph, y.id, task, d, depth, v)
                                     /\ y.id \in Beyond(seeds, d) /\ (d > 0 => y.id \notin Beyond(seeds, d - 1))
    BY <2>1 DEF Truly
  <2>4. /\ x.kw = keywordScore(x.id, task) /\ x.score = scoreNode(graph, x.id, x.kw, c, depth)
        /\ y.kw = keywordScore(y.id, task) /\ y.score = scoreNode(graph, y.id, y.kw, d, depth)
        /\ x.kw \in Nat /\ y.kw \in Nat
    <3>1. x.kw = keywordScore(x.id, task) /\ y.kw = keywordScore(y.id, task)
      BY <2>2, <2>3 DEF Rank
    <3>2. x.score = scoreNode(graph, x.id, x.kw, c, depth) /\ y.score = scoreNode(graph, y.id, y.kw, d, depth)
      BY <2>2, <2>3 DEF Rank
    <3>3. QED BY <3>1, <3>2, KeywordScores
  <2>5. \A k \in Nat : Beyond(seeds, 0) \subseteq Beyond(seeds, k)
    <3>1. \A k \in Nat : 0 \in 0..k
      OBVIOUS
    <3>2. QED BY <3>1, AroundGrows DEF Beyond
  <2>6. c > 0 => x.id \notin seeds
    <3>1. c > 0 => c - 1 \in Nat
      OBVIOUS
    <3>2. QED BY <2>2, <2>5, <3>1, <1>6
  <2>7. d > 0 => y.id \notin seeds
    <3>1. d > 0 => d - 1 \in Nat
      OBVIOUS
    <3>2. QED BY <2>3, <2>5, <3>1, <1>6
  <2>8. d = 0 => y.id \in seeds
    BY <2>3, <1>6
  <2>9. (x.kw > 0 => c = 0) /\ IF y.kw > 0 THEN d = 0 ELSE d > 0
    <3>1. x.kw > 0 => x.id \in seeds
      BY <2>1, <2>4, <1>5
    <3>2. y.kw > 0 <=> y.id \in seeds
      BY <2>1, <2>4, <1>4, <1>5
    <3>3. QED BY <3>1, <3>2, <2>6, <2>7, <2>8
  <2>10. x.score > y.score /\ x.score \in Int /\ y.score \in Int
    BY <2>1, <2>4, <2>9, KeywordsScore
  <2>11. ~ RankBefore(y, x) /\ x # y
    BY <2>10 DEF RankBefore
  <2>12. i \in 1..Len(r) /\ j \in 1..Len(r) /\ i # j
    BY <1>9, <2>11 DEF x, y
  <2>13. ~ (j < i)
    BY <1>8, <2>11, <2>12 DEF x, y
  <2>14. QED BY <2>12, <2>13, <1>9
<1>17. WellRanked(r, task, mode, depth)
  BY <1>12, <1>13, <1>15, <1>16 DEF WellRanked, Beyond, seeds
<1>18. QED BY <1>1, <1>2, <1>17 DEF r

\* Whatever edges the scans have found, and for every finite task, mode and
\* depth, rankContext ranks each node of the mode within reach of a node that
\* matches, once and at its true distance, and no node of a lower keyword score
\* before one of a higher (rankContext.ts:196).
THEOREM KeywordsForAll ==
  Spec => [](\A task : IsFiniteSet(task) =>
               \A mode \in Modes, depth \in Nat :
                 WellRanked(rankContext(graph, task, mode, depth, 0), task, mode, depth))
<1>1. GraphTyped => \A task : IsFiniteSet(task) =>
                      \A mode \in Modes, depth \in Nat :
                        WellRanked(rankContext(graph, task, mode, depth, 0), task, mode, depth)
  BY RankedWell
<1>2. QED BY <1>1, GraphsTyped, PTL

\* The property of the run, which asks it of the tasks it is given.
THEOREM KeywordsFirst == Spec => []KeywordsDominate
<1>1. GraphTyped => KeywordsDominate
  <2> SUFFICES ASSUME GraphTyped, NEW task \in Tasks, NEW mode \in Modes, NEW depth \in {1, 2},
                      NEW r \in {rankContext(graph, task, mode, depth, 0)}
               PROVE  WellRanked(r, task, mode, depth)
    BY Zenon DEF KeywordsDominate, WellRanked, Sources, Crossed
  <2>1. IsFiniteSet(task) /\ depth \in Nat
    BY TasksAssumption
  <2>2. QED BY <2>1, RankedWell
<1>2. QED BY <1>1, GraphsTyped, PTL

-----------------------------------------------------------------------------
(* What a pack's items are and cost                                        *)

\* The items of s are ranks, one for each id of A.
Names(s, A) ==
  /\ s \in Seq(Ranking) /\ A = {s[i].id : i \in 1..Len(s)}
  /\ \A i, j \in 1..Len(s) : s[i].id = s[j].id => i = j

LEMMA Items ==
  ASSUME NEW s \in Seq(Ranking)
  PROVE  Len(s) \in Nat /\ \A i \in 1..Len(s) : s[i] \in Ranking /\ s[i].id \in Ids
<1>1. Len(s) \in Nat /\ \A i \in 1..Len(s) : s[i] \in Ranking
  OBVIOUS
<1>2. \A r \in Ranking : r.id \in Ids
  BY DEF Ranking
<1>3. QED BY <1>1, <1>2

LEMMA NamesNone == Names(<<>>, {})
<1> DEFINE e == <<>>
<1>1. e \in Seq(Ranking) /\ Len(e) = 0
  OBVIOUS
<1>2. 1..0 = {}
  OBVIOUS
<1> HIDE DEF e
<1>3. Names(e, {})
  BY <1>1, <1>2 DEF Names
<1>4. QED BY <1>3 DEF e

LEMMA NamesAppend ==
  ASSUME NEW s, NEW A, Names(s, A), NEW r \in Ranking, r.id \notin A
  PROVE  Names(Append(s, r), A \cup {r.id})
<1> DEFINE new == Append(s, r)
           n == Len(s)
<1>1. /\ s \in Seq(Ranking) /\ A = {s[i].id : i \in 1..n} /\ n \in Nat
      /\ \A i, j \in 1..n : s[i].id = s[j].id => i = j
  BY DEF Names
<1>2. /\ new \in Seq(Ranking) /\ Len(new) = n + 1 /\ new[n + 1] = r
      /\ \A i \in 1..n : new[i] = s[i]
  BY <1>1
<1> HIDE DEF new, n
<1>3. (\A i \in 1..(n + 1) : i \in 1..n \/ i = n + 1) /\ (\A i \in 1..n : i \in 1..(n + 1)) /\ n + 1 \in 1..(n + 1)
  BY <1>1
<1>4. \A i \in 1..n : s[i].id \in A
  BY <1>1
<1>5. A \cup {r.id} = {new[i].id : i \in 1..(n + 1)}
  BY <1>1, <1>2, <1>3
<1>6. \A i, j \in 1..(n + 1) : new[i].id = new[j].id => i = j
  BY <1>1, <1>2, <1>3, <1>4
<1>7. Names(new, A \cup {r.id})
  BY <1>2, <1>5, <1>6 DEF Names
<1>8. QED BY <1>7 DEF new

LEMMA NamesConcat ==
  ASSUME NEW s, NEW A, Names(s, A), NEW t, NEW B, Names(t, B), A \cap B = {}
  PROVE  Names(s \o t, A \cup B)
<1> DEFINE new == s \o t
           n == Len(s)
           m == Len(t)
<1>1. /\ s \in Seq(Ranking) /\ A = {s[i].id : i \in 1..n} /\ n \in Nat
      /\ \A i, j \in 1..n : s[i].id = s[j].id => i = j
  BY DEF Names
<1>2. /\ t \in Seq(Ranking) /\ B = {t[i].id : i \in 1..m} /\ m \in Nat
      /\ \A i, j \in 1..m : t[i].id = t[j].id => i = j
  BY DEF Names
<1>3. /\ new \in Seq(Ranking) /\ Len(new) = n + m
      /\ \A i \in 1..n : new[i] = s[i]
      /\ \A i \in (n + 1)..(n + m) : new[i] = t[i - n]
  BY <1>1, <1>2
<1> HIDE DEF new, n, m
<1>4. /\ \A i \in 1..(n + m) : i \in 1..n \/ (i \in (n + 1)..(n + m) /\ i - n \in 1..m)
      /\ \A i \in 1..n : i \in 1..(n + m)
      /\ \A i \in 1..m : n + i \in (n + 1)..(n + m) /\ n + i \in 1..(n + m) /\ (n + i) - n = i
  BY <1>1, <1>2
<1>5. (\A i \in 1..n : s[i].id \in A) /\ (\A i \in 1..m : t[i].id \in B)
  BY <1>1, <1>2
<1>6. \A i \in 1..m : new[n + i] = t[i]
  BY <1>3, <1>4
<1>7. A \cup B = {new[i].id : i \in 1..(n + m)}
  BY <1>1, <1>2, <1>3, <1>4, <1>6
<1>8. \A i, j \in 1..(n + m) : new[i].id = new[j].id => i = j
  <2> SUFFICES ASSUME NEW i \in 1..(n + m), NEW j \in 1..(n + m), new[i].id = new[j].id PROVE i = j
    OBVIOUS
  <2>1. CASE i \in 1..n /\ j \in 1..n
    BY <2>1, <1>1, <1>3
  <2>2. CASE i \in (n + 1)..(n + m) /\ j \in (n + 1)..(n + m)
    <3>1. i - n \in 1..m /\ j - n \in 1..m
      BY <2>2, <1>1, <1>2
    <3>2. i - n = j - n
      BY <2>2, <3>1, <1>2, <1>3
    <3>3. QED BY <3>2, <1>1
  <2>3. i \in 1..n => j \in 1..n
    BY <1>3, <1>4, <1>5
  <2>4. j \in 1..n => i \in 1..n
    BY <1>3, <1>4, <1>5
  <2>5. QED BY <2>1, <2>2, <2>3, <2>4, <1>4
<1>9. Names(new, A \cup B)
  BY <1>3, <1>7, <1>8 DEF Names
<1>10. QED BY <1>9 DEF new

LEMMA TokensCount ==
  \A n \in Ids : estimateTokens(n) \in Nat
<1> SUFFICES ASSUME NEW n \in Ids PROVE estimateTokens(n) \in Nat
  OBVIOUS
<1> DEFINE l == Info[n].lines
           c == Info[n].chars
           t == Info[n].type
           chars == CASE l > 0 -> 64 * l
                      [] l = 0 /\ t = "file" -> 40 * 64
                      [] OTHER -> c + 64
<1>1. l \in Nat /\ c \in Nat
  BY SizesAssumption
<1>2. estimateTokens(n) = IF (chars + 3) \div 4 < 8 THEN 8 ELSE (chars + 3) \div 4
  BY Zenon DEF estimateTokens
<1> HIDE DEF l, c, t
<1>3. chars \in Nat
  BY <1>1
<1> HIDE DEF chars
<1>4. (chars + 3) \div 4 \in Nat
  BY <1>3
<1>5. QED BY <1>2, <1>4

\* The running sums of Cost.
Sums(sum, items) ==
  /\ sum[0] = 0 /\ Cost(items) = sum[Len(items)]
  /\ \A i \in 0..Len(items) : sum[i] \in Nat
  /\ \A i \in 1..Len(items) : sum[i] = sum[i - 1] + estimateTokens(items[i].id)

LEMMA CostLoop ==
  ASSUME NEW items \in Seq(Ranking)
  PROVE  \E sum : Sums(sum, items)
<1> DEFINE n == Len(items)
           More(w, i) == w + estimateTokens(items[i].id)
           Amounts == Nat
           none == 0
           step == [i \in 1..n |-> [w \in Amounts |-> More(w, i)]]
           Run(f) == f = [i \in 0..n |-> IF i = 0 THEN none ELSE More(f[i - 1], i)]
           sum == CHOOSE f : Run(f)
<1>1. n \in Nat /\ none \in Amounts /\ \A i \in 1..n : \A w \in Amounts : More(w, i) \in Amounts
  <2>1. n \in Nat /\ \A i \in 1..n : items[i].id \in Ids
    BY Items
  <2>2. \A i \in 1..n : estimateTokens(items[i].id) \in Nat
    BY <2>1, TokensCount
  <2>3. QED BY <2>1, <2>2
<1>2. Cost(items) = sum[n]
  BY DEF Cost
<1> HIDE DEF n, More, Amounts, none
<1>3. /\ step \in [1..n -> [Amounts -> Amounts]]
      /\ \A i \in 1..n : \A s \in Amounts : step[i][s] = More(s, i)
  BY <1>1
<1> HIDE DEF step
<1>4. PICK f : History(f, n, Amounts, none, step)
  BY <1>1, <1>3, LoopExists
<1>5. \A i \in 1..n : i - 1 \in 0..n /\ f[i] = More(f[i - 1], i)
  BY <1>1, <1>3, <1>4 DEF History
<1>6. Run(f)
  BY <1>1, <1>4, <1>5 DEF History
<1>7. Run(sum)
  BY <1>6, Zenon
<1>8. \A h : Run(h) => h[0] = none /\ \A i \in 1..n : h[i] = More(h[i - 1], i)
  BY <1>1
<1> HIDE DEF Run, sum
<1>9. Follows(sum, n, Amounts, none, step)
  BY <1>3, <1>7, <1>8 DEF Follows
<1>10. \A i \in 0..n : sum[i] \in Amounts
  BY <1>1, <1>3, <1>9, LoopStays
<1>11. sum[0] = none /\ \A i \in 1..n : sum[i] = More(sum[i - 1], i)
  BY <1>7, <1>8
<1>12. QED BY <1>2, <1>10, <1>11 DEF Sums, More, n, Amounts, none

LEMMA CostConcat ==
  ASSUME NEW s \in Seq(Ranking), NEW t \in Seq(Ranking)
  PROVE  Cost(s \o t) = Cost(s) + Cost(t) /\ Cost(s) \in Nat /\ Cost(t) \in Nat
<1> DEFINE all == s \o t
           n == Len(s)
           m == Len(t)
<1>1. /\ all \in Seq(Ranking) /\ Len(all) = n + m /\ n \in Nat /\ m \in Nat
      /\ \A i \in 1..n : all[i] = s[i]
      /\ \A i \in (n + 1)..(n + m) : all[i] = t[i - n]
  OBVIOUS
<1> HIDE DEF all
<1>2. PICK f : Sums(f, s)
  BY CostLoop
<1>3. PICK g : Sums(g, t)
  BY CostLoop
<1>4. PICK h : Sums(h, all)
  BY <1>1, CostLoop
<1>5. /\ f[0] = 0 /\ Cost(s) = f[n]
      /\ \A i \in 0..n : f[i] \in Nat
      /\ \A i \in 1..n : f[i] = f[i - 1] + estimateTokens(s[i].id)
  BY <1>2 DEF Sums
<1>6. /\ g[0] = 0 /\ Cost(t) = g[m]
      /\ \A i \in 0..m : g[i] \in Nat
      /\ \A i \in 1..m : g[i] = g[i - 1] + estimateTokens(t[i].id)
  BY <1>3 DEF Sums
<1>7. /\ h[0] = 0 /\ Cost(all) = h[n + m]
      /\ \A i \in 0..(n + m) : h[i] \in Nat
      /\ \A i \in 1..(n + m) : h[i] = h[i - 1] + estimateTokens(all[i].id)
  BY <1>1, <1>4 DEF Sums
<1> HIDE DEF n, m
<1> DEFINE S == {i \in 0..n : h[i] = f[i]}
<1>8. 0 \in S
  BY <1>1, <1>5, <1>7
<1>9. ASSUME NEW i \in 0..(n - 1), i \in S PROVE i + 1 \in S
  <2>1. i + 1 \in 1..n /\ i + 1 \in 0..n /\ (i + 1) - 1 = i /\ i + 1 \in 1..(n + m)
    BY <1>1
  <2>2. h[i + 1] = h[i] + estimateTokens(all[i + 1].id) /\ f[i + 1] = f[i] + estimateTokens(s[i + 1].id)
    BY <2>1, <1>5, <1>7
  <2>3. QED BY <2>1, <2>2, <1>1, <1>9
<1> HIDE DEF S
<1>10. \A i \in 0..(n - 1) : i \in S => i + 1 \in S
  BY <1>9
<1>11. \A i \in 0..n : i \in S
  BY <1>1, <1>8, <1>10, Induction
<1>12. h[n] = f[n] /\ f[n] \in Nat /\ g[m] \in Nat
  <2>1. n \in S /\ n \in 0..n /\ m \in 0..m
    BY <1>1, <1>11
  <2>2. QED BY <2>1, <1>5, <1>6 DEF S
<1> DEFINE R == {i \in 0..m : h[n + i] = f[n] + g[i]}
<1>13. 0 \in R
  BY <1>1, <1>6, <1>12
<1>14. ASSUME NEW i \in 0..(m - 1), i \in R PROVE i + 1 \in R
  <2>1. /\ i + 1 \in 1..m /\ i + 1 \in 0..m /\ (i + 1) - 1 = i /\ n + (i + 1) \in 1..(n + m)
        /\ (n + (i + 1)) - 1 = n + i /\ n + (i + 1) \in (n + 1)..(n + m) /\ (n + (i + 1)) - n = i + 1
    BY <1>1
  <2>2. /\ h[n + (i + 1)] = h[n + i] + estimateTokens(all[n + (i + 1)].id)
        /\ g[i + 1] = g[i] + estimateTokens(t[i + 1].id)
    BY <2>1, <1>6, <1>7
  <2>3. all[n + (i + 1)] = t[i + 1]
    BY <2>1, <1>1
  <2>4. estimateTokens(t[i + 1].id) \in Nat
    <3>1. t[i + 1].id \in Ids
      BY <2>1, Items DEF m
    <3>2. QED BY <3>1, TokensCount
  <2>5. h[n + i] = f[n] + g[i] /\ g[i] \in Nat
    <3>1. i \in 0..m
      BY <1>1
    <3>2. QED BY <3>1, <1>14, <1>6
  <2>6. h[n + (i + 1)] = f[n] + g[i + 1]
    BY <2>2, <2>3, <2>4, <2>5, <1>12
  <2>7. QED BY <2>1, <2>6
<1> HIDE DEF R
<1>15. \A i \in 0..(m - 1) : i \in R => i + 1 \in R
  BY <1>14
<1>16. \A i \in 0..m : i \in R
  BY <1>1, <1>13, <1>15, Induction
<1>17. h[n + m] = f[n] + g[m]
  <2>1. m \in R
    BY <1>1, <1>16
  <2>2. QED BY <2>1 DEF R
<1>18. QED BY <1>5, <1>6, <1>7, <1>12, <1>17 DEF all

LEMMA CostNone == Cost(<<>>) = 0
<1> DEFINE e == <<>>
<1>1. e \in Seq(Ranking) /\ Len(e) = 0
  OBVIOUS
<1> HIDE DEF e
<1>2. PICK sum : Sums(sum, e)
  BY <1>1, CostLoop
<1>3. Cost(e) = 0
  BY <1>1, <1>2 DEF Sums
<1>4. QED BY <1>3 DEF e

LEMMA CostAppend ==
  ASSUME NEW s \in Seq(Ranking), NEW r \in Ranking
  PROVE  Cost(Append(s, r)) = Cost(s) + estimateTokens(r.id) /\ Cost(s) \in Nat /\ estimateTokens(r.id) \in Nat
<1> DEFINE one == <<r>>
<1>1. one \in Seq(Ranking) /\ Len(one) = 1 /\ one[1] = r /\ Append(s, r) = s \o one
  OBVIOUS
<1> HIDE DEF one
<1>2. PICK sum : Sums(sum, one)
  BY <1>1, CostLoop
<1>3. estimateTokens(r.id) \in Nat
  <2>1. r.id \in Ids
    BY DEF Ranking
  <2>2. QED BY <2>1, TokensCount
<1>4. Cost(one) = sum[1] /\ sum[0] = 0 /\ \A i \in 1..1 : sum[i] = sum[i - 1] + estimateTokens(one[i].id)
  BY <1>1, <1>2 DEF Sums
<1>5. sum[1] = sum[1 - 1] + estimateTokens(r.id)
  BY <1>1, <1>4
<1>6. Cost(one) = estimateTokens(r.id)
  BY <1>3, <1>4, <1>5
<1>7. QED BY <1>1, <1>3, <1>6, CostConcat

-----------------------------------------------------------------------------
(* The sections                                                            *)

\* The ids of the first k ranked items of section sec.
Among(ranked, sec, k) == {n \in {ranked[j].id : j \in 1..k} : sectionFor(Info[n].type) = sec}

PartRun(part, ranked, sec) ==
  /\ part[0] = <<>> /\ Part(ranked, sec) = part[Len(ranked)]
  /\ \A i \in 1..Len(ranked) :
       part[i] = IF sectionFor(Info[ranked[i].id].type) = sec THEN Append(part[i - 1], ranked[i]) ELSE part[i - 1]

LEMMA PartLoop ==
  ASSUME NEW ranked \in Seq(Ranking), NEW sec
  PROVE  \E part : PartRun(part, ranked, sec)
<1> DEFINE n == Len(ranked)
           State == Seq(Ranking)
           none == <<>>
           More(w, i) == IF sectionFor(Info[ranked[i].id].type) = sec THEN Append(w, ranked[i]) ELSE w
           step == [i \in 1..n |-> [w \in State |-> More(w, i)]]
           Run(f) == f = [i \in 0..n |-> IF i = 0 THEN none ELSE More(f[i - 1], i)]
           part == CHOOSE f : Run(f)
<1>1. n \in Nat /\ none \in State /\ \A i \in 1..n : \A w \in State : More(w, i) \in State
  <2>1. n \in Nat /\ \A i \in 1..n : ranked[i] \in Ranking
    BY Items
  <2>2. QED BY <2>1
<1>2. Part(ranked, sec) = part[n]
  BY DEF Part
<1> HIDE DEF n, State, none, More
<1>3. /\ step \in [1..n -> [State -> State]]
      /\ \A i \in 1..n : \A s \in State : step[i][s] = More(s, i)
  BY <1>1
<1> HIDE DEF step
<1>4. PICK f : History(f, n, State, none, step)
  BY <1>1, <1>3, LoopExists
<1>5. \A i \in 1..n : i - 1 \in 0..n /\ f[i] = More(f[i - 1], i)
  BY <1>1, <1>3, <1>4 DEF History
<1>6. Run(f)
  BY <1>1, <1>4, <1>5 DEF History
<1>7. Run(part)
  BY <1>6, Zenon
<1>8. \A h : Run(h) => h[0] = none /\ \A i \in 1..n : h[i] = More(h[i - 1], i)
  BY <1>1
<1> HIDE DEF Run, part
<1>9. part[0] = none /\ \A i \in 1..n : part[i] = More(part[i - 1], i)
  BY <1>7, <1>8
<1>10. QED BY <1>2, <1>9 DEF PartRun, More, n, none

LEMMA PartIs ==
  ASSUME NEW ranked, NEW A, Names(ranked, A), NEW sec
  PROVE  Names(Part(ranked, sec), {n \in A : sectionFor(Info[n].type) = sec})
<1> DEFINE n == Len(ranked)
<1>1. /\ ranked \in Seq(Ranking) /\ A = {ranked[i].id : i \in 1..n} /\ n \in Nat
      /\ \A i, j \in 1..n : ranked[i].id = ranked[j].id => i = j
  BY DEF Names
<1>2. PICK part : PartRun(part, ranked, sec)
  BY <1>1, PartLoop
<1>3. /\ part[0] = <<>> /\ Part(ranked, sec) = part[n]
      /\ \A i \in 1..n : part[i] = IF sectionFor(Info[ranked[i].id].type) = sec
                                   THEN Append(part[i - 1], ranked[i]) ELSE part[i - 1]
  BY <1>2 DEF PartRun
<1>4. \A i \in 1..n : ranked[i] \in Ranking
  BY <1>1, Items
<1> HIDE DEF n
<1> DEFINE S == {i \in 0..n : Names(part[i], Among(ranked, sec, i))}
<1>5. 0 \in S
  <2>1. 1..0 = {} /\ 0 \in 0..n
    BY <1>1
  <2>2. Among(ranked, sec, 0) = {}
    BY <2>1 DEF Among
  <2> DEFINE x == part[0]
  <2>3. x = <<>>
    BY <1>3
  <2> HIDE DEF x
  <2>4. Names(x, {})
    BY <2>3, NamesNone
  <2>5. QED BY <2>1, <2>2, <2>4 DEF x
<1>6. ASSUME NEW i \in 0..(n - 1), i \in S PROVE i + 1 \in S
  <2>1. i + 1 \in 1..n /\ i + 1 \in 0..n /\ (i + 1) - 1 = i
    BY <1>1
  <2> DEFINE old == part[i]
             new == part[i + 1]
             r == ranked[i + 1]
             U == Among(ranked, sec, i)
             mine == sectionFor(Info[r.id].type) = sec
  <2>2. new = IF mine THEN Append(old, r) ELSE old
    BY <2>1, <1>3
  <2>3. Names(old, U) /\ r \in Ranking
    BY <2>1, <1>4, <1>6
  <2>4. \A j \in 1..i : j \in 1..n /\ j # i + 1
    BY <1>1
  <2>5. r.id \notin {ranked[j].id : j \in 1..i}
    BY <2>1, <2>4, <1>1
  <2>6. {ranked[j].id : j \in 1..(i + 1)} = {ranked[j].id : j \in 1..i} \cup {r.id}
    <3>1. 1..(i + 1) = 1..i \cup {i + 1}
      BY <1>1
    <3>2. QED BY <3>1
  <2>7. CASE mine
    <3>1. Among(ranked, sec, i + 1) = U \cup {r.id} /\ r.id \notin U
      BY <2>5, <2>6, <2>7 DEF Among
    <3>2. new = Append(old, r)
      BY <2>2, <2>7
    <3> HIDE DEF old, new, r, U
    <3>3. Names(new, U \cup {r.id})
      BY <2>3, <3>1, <3>2, NamesAppend
    <3>4. QED BY <2>1, <3>1, <3>3 DEF new
  <2>8. CASE ~ mine
    <3>1. Among(ranked, sec, i + 1) = U
      BY <2>6, <2>8 DEF Among
    <3>2. QED BY <2>1, <2>2, <2>3, <2>8, <3>1
  <2>9. QED BY <2>7, <2>8
<1> HIDE DEF S
<1>7. \A i \in 0..(n - 1) : i \in S => i + 1 \in S
  BY <1>6
<1>8. \A i \in 0..n : i \in S
  BY <1>1, <1>5, <1>7, Induction
<1>9. Names(part[n], Among(ranked, sec, n))
  <2>1. n \in S
    BY <1>1, <1>8
  <2>2. QED BY <2>1 DEF S
<1>10. QED BY <1>1, <1>3, <1>9 DEF Among

Filling == [in : Seq(Ranking), left : Seq(Ranking), used : Int]

\* The items named by A have gone in or are left, and each that is left would
\* have been too much.
Fits(acc, A, used, budget) ==
  /\ acc \in Filling
  /\ \E I, L : /\ Names(acc.in, I) /\ Names(acc.left, L) /\ I \cup L = A /\ I \cap L = {}
               /\ \A n \in L : acc.used + estimateTokens(n) > budget
  /\ acc.used = used + Cost(acc.in)
  /\ acc.in # <<>> => acc.used <= budget

LEMMA FillKeeps ==
  ASSUME NEW acc, NEW A, NEW used \in Int, NEW budget \in Int, Fits(acc, A, used, budget),
         NEW r \in Ranking, r.id \notin A
  PROVE  Fits(Fill(acc, r, budget), A \cup {r.id}, used, budget)
<1> DEFINE new == Fill(acc, r, budget)
           e == estimateTokens(r.id)
           in == acc.in
           left == acc.left
<1>1. acc \in Filling
  BY DEF Fits
<1>2. PICK I, L : /\ Names(in, I) /\ Names(left, L) /\ I \cup L = A /\ I \cap L = {}
                  /\ \A n \in L : acc.used + estimateTokens(n) > budget
  BY DEF Fits
<1>3. /\ acc.used = used + Cost(in) /\ acc.used \in Int /\ in \in Seq(Ranking) /\ left \in Seq(Ranking)
      /\ acc = [in |-> in, left |-> left, used |-> acc.used]
      /\ in # <<>> => acc.used <= budget
  BY <1>1 DEF Fits, Filling
<1>4. /\ Cost(Append(in, r)) = Cost(in) + e /\ Cost(in) \in Nat /\ e \in Nat
  BY <1>3, CostAppend
<1>5. \A n \in L : n \in Ids /\ estimateTokens(n) \in Nat
  <2>1. L \subseteq Ids
    <3>1. left \in Seq(Ranking) /\ L = {left[i].id : i \in 1..Len(left)}
      BY <1>2 DEF Names
    <3>2. \A i \in 1..Len(left) : left[i].id \in Ids
      BY <3>1, Items
    <3>3. QED BY <3>1, <3>2
  <2>2. QED BY <2>1, TokensCount
<1>6. CASE acc.used + e <= budget
  <2> DEFINE more == Append(in, r)
             sum == acc.used + e
  <2>1. new = [in |-> more, left |-> left, used |-> sum]
    BY <1>3, <1>6 DEF Fill
  <2>2. more \in Seq(Ranking)
    BY <1>3
  <2>3. Names(more, I \cup {r.id})
    BY <1>2, NamesAppend
  <2>4. sum = used + Cost(more) /\ sum <= budget /\ sum \in Int
    BY <1>3, <1>4, <1>6
  <2>5. \A n \in L : sum + estimateTokens(n) > budget
    BY <1>2, <1>3, <1>4, <1>5
  <2> HIDE DEF new, more, sum, in, left
  <2>6. new.in = more /\ new.left = left /\ new.used = sum
    BY <2>1
  <2>7. new \in Filling
    BY <2>1, <2>2, <2>4, <1>3 DEF Filling
  <2>8. (I \cup {r.id}) \cup L = A \cup {r.id} /\ (I \cup {r.id}) \cap L = {}
    BY <1>2
  <2>9. Fits(new, A \cup {r.id}, used, budget)
    BY <1>2, <2>3, <2>4, <2>5, <2>6, <2>7, <2>8 DEF Fits
  <2>10. QED BY <2>9 DEF new
<1>7. CASE ~ (acc.used + e <= budget)
  <2> DEFINE more == Append(left, r)
  <2>1. new = [in |-> in, left |-> more, used |-> acc.used]
    BY <1>3, <1>7 DEF Fill
  <2>2. more \in Seq(Ranking)
    BY <1>3
  <2>3. Names(more, L \cup {r.id})
    BY <1>2, NamesAppend
  <2>4. acc.used + e > budget
    BY <1>3, <1>4, <1>7
  <2>5. \A n \in L \cup {r.id} : acc.used + estimateTokens(n) > budget
    BY <1>2, <2>4
  <2> HIDE DEF new, more, in, left
  <2>6. new.in = in /\ new.left = more /\ new.used = acc.used
    BY <2>1
  <2>7. new \in Filling
    BY <2>1, <2>2, <1>3 DEF Filling
  <2>8. I \cup (L \cup {r.id}) = A \cup {r.id} /\ I \cap (L \cup {r.id}) = {}
    BY <1>2
  <2>9. Fits(new, A \cup {r.id}, used, budget)
    BY <1>2, <1>3, <2>3, <2>5, <2>6, <2>7, <2>8 DEF Fits
  <2>10. QED BY <2>9 DEF new
<1>8. QED BY <1>6, <1>7

FilledRun(filled, items, used, budget) ==
  /\ filled[0] = [in |-> <<>>, left |-> <<>>, used |-> used]
  /\ Filled(items, used, budget) = filled[Len(items)]
  /\ \A i \in 1..Len(items) : filled[i] = Fill(filled[i - 1], items[i], budget)

LEMMA FilledLoop ==
  ASSUME NEW items \in Seq(Ranking), NEW used \in Int, NEW budget \in Int
  PROVE  \E filled : FilledRun(filled, items, used, budget)
<1> DEFINE n == Len(items)
           none == [in |-> <<>>, left |-> <<>>, used |-> used]
           More(w, i) == Fill(w, items[i], budget)
           step == [i \in 1..n |-> [w \in Filling |-> More(w, i)]]
           Run(f) == f = [i \in 0..n |-> IF i = 0 THEN none ELSE More(f[i - 1], i)]
           filled == CHOOSE f : Run(f)
<1>1. n \in Nat /\ none \in Filling /\ \A i \in 1..n : \A w \in Filling : More(w, i) \in Filling
  <2>1. n \in Nat /\ \A i \in 1..n : items[i] \in Ranking /\ items[i].id \in Ids
    BY Items
  <2>2. \A i \in 1..n : estimateTokens(items[i].id) \in Nat
    BY <2>1, TokensCount
  <2>3. none \in Filling
    BY DEF Filling
  <2>4. ASSUME NEW i \in 1..n, NEW w \in Filling PROVE More(w, i) \in Filling
    <3> DEFINE r == items[i]
               e == estimateTokens(r.id)
    <3>1. r \in Ranking /\ e \in Nat
      BY <2>1, <2>2
    <3>2. /\ w = [in |-> w.in, left |-> w.left, used |-> w.used]
          /\ w.in \in Seq(Ranking) /\ w.left \in Seq(Ranking) /\ w.used \in Int
      BY DEF Filling
    <3>3. \/ More(w, i) = [in |-> Append(w.in, r), left |-> w.left, used |-> w.used + e]
          \/ More(w, i) = [in |-> w.in, left |-> Append(w.left, r), used |-> w.used]
      BY <3>2 DEF Fill
    <3> HIDE DEF r, e, More
    <3>4. Append(w.in, r) \in Seq(Ranking) /\ Append(w.left, r) \in Seq(Ranking) /\ w.used + e \in Int
      BY <3>1, <3>2
    <3>5. \A x, y \in Seq(Ranking), z \in Int : [in |-> x, left |-> y, used |-> z] \in Filling
      BY DEF Filling
    <3>6. QED BY <3>2, <3>3, <3>4, <3>5
  <2>5. QED BY <2>1, <2>3, <2>4
<1>2. Filled(items, used, budget) = filled[n]
  BY DEF Filled
<1> HIDE DEF n, none, More
<1>3. /\ step \in [1..n -> [Filling -> Filling]]
      /\ \A i \in 1..n : \A s \in Filling : step[i][s] = More(s, i)
  BY <1>1
<1> HIDE DEF step
<1>4. PICK f : History(f, n, Filling, none, step)
  BY <1>1, <1>3, LoopExists
<1>5. \A i \in 1..n : i - 1 \in 0..n /\ f[i] = More(f[i - 1], i)
  BY <1>1, <1>3, <1>4 DEF History
<1>6. Run(f)
  BY <1>1, <1>4, <1>5 DEF History
<1>7. Run(filled)
  BY <1>6, Zenon
<1>8. \A h : Run(h) => h[0] = none /\ \A i \in 1..n : h[i] = More(h[i - 1], i)
  BY <1>1
<1> HIDE DEF Run, filled
<1>9. filled[0] = none /\ \A i \in 1..n : filled[i] = More(filled[i - 1], i)
  BY <1>7, <1>8
<1>10. QED BY <1>2, <1>9 DEF FilledRun, More, n, none

LEMMA FilledFits ==
  ASSUME NEW items, NEW A, Names(items, A), NEW used \in Int, NEW budget \in Int
  PROVE  Fits(Filled(items, used, budget), A, used, budget)
<1> DEFINE n == Len(items)
<1>1. /\ items \in Seq(Ranking) /\ A = {items[i].id : i \in 1..n} /\ n \in Nat
      /\ \A i, j \in 1..n : items[i].id = items[j].id => i = j
  BY DEF Names
<1>2. PICK filled : FilledRun(filled, items, used, budget)
  BY <1>1, FilledLoop
<1>3. /\ filled[0] = [in |-> <<>>, left |-> <<>>, used |-> used]
      /\ Filled(items, used, budget) = filled[n]
      /\ \A i \in 1..n : filled[i] = Fill(filled[i - 1], items[i], budget)
  BY <1>2 DEF FilledRun
<1>4. \A i \in 1..n : items[i] \in Ranking
  BY <1>1, Items
<1> HIDE DEF n
<1> DEFINE Former(k) == {items[j].id : j \in 1..k}
           S == {i \in 0..n : Fits(filled[i], Former(i), used, budget)}
<1>5. 0 \in S
  <2>1. 1..0 = {} /\ 0 \in 0..n
    BY <1>1
  <2>2. Former(0) = {}
    BY <2>1
  <2> DEFINE x == filled[0]
  <2>3. x \in Filling /\ x.in = <<>> /\ x.left = <<>> /\ x.used = used
    BY <1>3 DEF Filling
  <2> HIDE DEF x, Former
  <2>4. Names(x.in, {}) /\ Names(x.left, {})
    BY <2>3, NamesNone
  <2>5. x.used = used + Cost(x.in)
    BY <2>3, CostNone
  <2>6. Fits(x, {}, used, budget)
    BY <2>3, <2>4, <2>5 DEF Fits
  <2>7. QED BY <2>1, <2>2, <2>6 DEF x
<1>6. ASSUME NEW i \in 0..(n - 1), i \in S PROVE i + 1 \in S
  <2>1. i + 1 \in 1..n /\ i + 1 \in 0..n /\ (i + 1) - 1 = i
    BY <1>1
  <2> DEFINE old == filled[i]
             new == filled[i + 1]
             r == items[i + 1]
             U == Former(i)
  <2>2. new = Fill(old, r, budget)
    BY <2>1, <1>3
  <2>3. Fits(old, U, used, budget) /\ r \in Ranking
    BY <2>1, <1>4, <1>6
  <2>4. \A j \in 1..i : j \in 1..n /\ j # i + 1
    BY <1>1
  <2>5. r.id \notin U
    BY <2>1, <2>4, <1>1
  <2>6. Former(i + 1) = U \cup {r.id}
    <3>1. 1..(i + 1) = 1..i \cup {i + 1}
      BY <1>1
    <3>2. QED BY <3>1
  <2> HIDE DEF old, new, r, U, Former
  <2>7. Fits(new, U \cup {r.id}, used, budget)
    BY <2>2, <2>3, <2>5, FillKeeps
  <2>8. QED BY <2>1, <2>6, <2>7 DEF new
<1> HIDE DEF S
<1>7. \A i \in 0..(n - 1) : i \in S => i + 1 \in S
  BY <1>6
<1>8. \A i \in 0..n : i \in S
  BY <1>1, <1>5, <1>7, Induction
<1>9. Fits(filled[n], Former(n), used, budget)
  <2>1. n \in S
    BY <1>1, <1>8
  <2>2. QED BY <2>1 DEF S
<1>10. QED BY <1>1, <1>3, <1>9

LEMMA PrefixNames ==
  ASSUME NEW S, S \subseteq Ranking, \A x, y \in S : x.id = y.id => x = y,
         NEW s, Lists(s, S), NEW limit \in Nat
  PROVE  \E A : Names(UpTo(s, limit), A) /\ A \subseteq {x.id : x \in S}
<1> DEFINE t == UpTo(s, limit)
<1>1. s \in Seq(S) /\ Len(s) \in Nat /\ \A i, j \in 1..Len(s) : s[i] = s[j] => i = j
  BY DEF Lists
<1>2. \A i \in 1..Len(s) : s[i] \in S
  BY <1>1
<1>3. /\ t \in Seq(S) /\ Len(t) \in Nat /\ Len(t) <= Len(s) /\ \A i \in 1..Len(t) : t[i] = s[i]
  <2>1. CASE limit = 0 \/ Len(s) <= limit
    BY <2>1, <1>1 DEF UpTo
  <2>2. CASE ~ (limit = 0 \/ Len(s) <= limit)
    <3>1. t = SubSeq(s, 1, limit)
      BY <2>2 DEF UpTo
    <3>2. limit \in 1..Len(s)
      BY <2>2, <1>1
    <3> HIDE DEF t
    <3>3. t \in Seq(S) /\ Len(t) = limit /\ \A i \in 1..limit : t[i] = s[i]
      BY <3>1, <3>2, <1>1, <1>2
    <3>4. QED BY <3>2, <3>3, <1>1
  <2>3. QED BY <2>1, <2>2
<1> HIDE DEF t
<1>4. t \in Seq(Ranking)
  BY <1>3
<1>5. \A i, j \in 1..Len(t) : t[i].id = t[j].id => i = j
  <2>1. \A i \in 1..Len(t) : i \in 1..Len(s)
    BY <1>1, <1>3
  <2>2. QED BY <2>1, <1>1, <1>2, <1>3
<1>6. Names(t, {t[i].id : i \in 1..Len(t)})
  BY <1>4, <1>5 DEF Names
<1>7. {t[i].id : i \in 1..Len(t)} \subseteq {x.id : x \in S}
  BY <1>3
<1>8. QED BY <1>6, <1>7 DEF t

LEMMA RankedNames ==
  ASSUME GraphTyped, NEW task, IsFiniteSet(task), NEW mode \in Modes, NEW depth \in Nat, NEW limit \in Nat
  PROVE  \E A : /\ Names(rankContext(graph, task, mode, depth, limit), A)
              /\ A \subseteq Ids /\ \A n \in A : inMode(n, mode)
<1> DEFINE seeds == Sources(task, mode)
           best == Expand(graph, task, seeds, depth)
           S == Matching(best, mode)
           s == BestFirst(best, mode)
<1>1. seeds \in SUBSET Crossed /\ rankContext(graph, task, mode, depth, limit) = UpTo(s, limit)
  BY RankContextIs
<1>2. /\ best \in Bests /\ \A n \in DOMAIN best : Truly(best[n], n, task, seeds, depth, depth)
  <2> HIDE DEF seeds
  <2>1. QED BY <1>1, ExpandIs
<1> HIDE DEF best
<1>3. \A n \in DOMAIN best : best[n].id = n /\ best[n] \in Ranking
  BY <1>2, BestsAre DEF Truly, Rank
<1>4. Lists(s, S)
  BY <1>2, <1>3, BestFirstLists
<1>5. S \subseteq Ranking /\ \A x, y \in S : x.id = y.id => x = y
  <2>1. \A x \in S : x \in Ranking /\ x = best[x.id]
    BY <1>3 DEF Matching
  <2> HIDE DEF S
  <2>2. QED BY <2>1
<1>6. {x.id : x \in S} \subseteq Ids /\ \A n \in {x.id : x \in S} : inMode(n, mode)
  <2>1. \A n \in DOMAIN best : best[n].id = n /\ n \in Ids
    BY <1>2, <1>3, BestsAre
  <2>2. QED BY <2>1 DEF Matching
<1> HIDE DEF s, S
<1>7. PICK A : Names(UpTo(s, limit), A) /\ A \subseteq {x.id : x \in S}
  BY <1>4, <1>5, PrefixNames
<1>8. A \subseteq Ids /\ \A n \in A : inMode(n, mode)
  BY <1>6, <1>7
<1>9. QED BY <1>1, <1>7, <1>8 DEF s

LEMMA IdsAre ==
  ASSUME NEW s, NEW A, Names(s, A)
  PROVE  /\ IdsOf(s) \in Seq(Ids) /\ Len(IdsOf(s)) = Len(s) /\ \A i \in 1..Len(s) : IdsOf(s)[i] = s[i].id
         /\ NoRepeats(IdsOf(s)) /\ ToSet(IdsOf(s)) = A
<1> DEFINE ids == IdsOf(s)
           n == Len(s)
<1>1. /\ s \in Seq(Ranking) /\ A = {s[i].id : i \in 1..n} /\ n \in Nat /\ DOMAIN s = 1..n
      /\ \A i, j \in 1..n : s[i].id = s[j].id => i = j
  BY DEF Names
<1>2. \A i \in 1..n : s[i].id \in Ids
  BY <1>1, Items
<1>3. ids = [i \in 1..n |-> s[i].id]
  BY <1>1 DEF IdsOf
<1> HIDE DEF ids, n
<1>4. ids \in [1..n -> Ids] /\ DOMAIN ids = 1..n /\ \A i \in 1..n : ids[i] = s[i].id
  BY <1>2, <1>3
<1>5. ids \in Seq(Ids) /\ Len(ids) = n
  BY <1>1, <1>4
<1>6. NoRepeats(ids)
  BY <1>1, <1>4 DEF NoRepeats
<1>7. ToSet(ids) = A
  BY <1>1, <1>4 DEF ToSet
<1>8. QED BY <1>4, <1>5, <1>6, <1>7 DEF ids, n

LEMMA Concatenated ==
  ASSUME NEW T, NEW a \in Seq(T), NEW b \in Seq(T)
  PROVE  /\ a \o b \in Seq(T) /\ Len(a \o b) = Len(a) + Len(b)
         /\ \A i \in 1..Len(a) : (a \o b)[i] = a[i]
         /\ \A i \in (Len(a) + 1)..(Len(a) + Len(b)) : (a \o b)[i] = b[i - Len(a)]
OBVIOUS

LEMMA IdsConcat ==
  ASSUME NEW s, NEW A, Names(s, A), NEW t, NEW B, Names(t, B), A \cap B = {}
  PROVE  IdsOf(s) \o IdsOf(t) = IdsOf(s \o t)
<1> DEFINE all == s \o t
           a == IdsOf(s)
           b == IdsOf(t)
           c == IdsOf(all)
<1>1. Names(all, A \cup B)
  BY NamesConcat
<1>2. s \in Seq(Ranking) /\ t \in Seq(Ranking)
  BY DEF Names
<1>3. /\ Len(all) = Len(s) + Len(t) /\ Len(s) \in Nat /\ Len(t) \in Nat
      /\ \A i \in 1..Len(s) : all[i] = s[i]
      /\ \A i \in (Len(s) + 1)..(Len(s) + Len(t)) : all[i] = t[i - Len(s)]
  BY <1>2
<1>4. /\ a \in Seq(Ids) /\ Len(a) = Len(s) /\ \A i \in 1..Len(s) : a[i] = s[i].id
      /\ b \in Seq(Ids) /\ Len(b) = Len(t) /\ \A i \in 1..Len(t) : b[i] = t[i].id
  BY IdsAre
<1> HIDE DEF all
<1>5. c \in Seq(Ids) /\ Len(c) = Len(all) /\ \A i \in 1..Len(all) : c[i] = all[i].id
  BY <1>1, IdsAre
<1> HIDE DEF a, b, c
<1>6. /\ a \o b \in Seq(Ids) /\ Len(a \o b) = Len(c)
      /\ \A i \in 1..Len(s) : (a \o b)[i] = a[i]
      /\ \A i \in (Len(s) + 1)..(Len(s) + Len(t)) : (a \o b)[i] = b[i - Len(s)]
  <2> DEFINE e == a \o b
  <2>1. /\ e \in Seq(Ids) /\ Len(e) = Len(a) + Len(b)
        /\ \A i \in 1..Len(a) : e[i] = a[i]
        /\ \A i \in (Len(a) + 1)..(Len(a) + Len(b)) : e[i] = b[i - Len(a)]
    BY <1>4, Concatenated
  <2> HIDE DEF e
  <2>2. /\ e \in Seq(Ids) /\ Len(e) = Len(c)
        /\ \A i \in 1..Len(s) : e[i] = a[i]
        /\ \A i \in (Len(s) + 1)..(Len(s) + Len(t)) : e[i] = b[i - Len(s)]
    BY <1>3, <1>4, <1>5, <2>1
  <2>3. QED BY <2>2 DEF e
<1>7. \A i \in 1..Len(c) : i \in 1..Len(s) \/ (i \in (Len(s) + 1)..(Len(s) + Len(t)) /\ i - Len(s) \in 1..Len(t))
  BY <1>3, <1>5
<1>8. \A i \in 1..Len(c) : (a \o b)[i] = c[i]
  BY <1>3, <1>4, <1>5, <1>6, <1>7
<1> DEFINE d == a \o b
<1>9. d \in Seq(Ids) /\ Len(d) = Len(c) /\ \A i \in 1..Len(c) : d[i] = c[i]
  BY <1>6, <1>8
<1> HIDE DEF d
<1>10. d = c
  BY <1>5, <1>9
<1>11. QED BY <1>10 DEF a, b, c, d, all

LEMMA SixtyAtMost ==
  ASSUME NEW k \in Nat, k > 0, NEW c \in Nat, c <= k
  PROVE  (120 * c + k) \div (2 * k) \in 0..60
<1> DEFINE a == 120 * c + k
           b == 2 * k
           q == a \div b
<1>1. a \in Nat /\ b \in Nat /\ b > 0 /\ a < b * 61
  OBVIOUS
<1> HIDE DEF a, b
<1>2. q \in Int /\ b * q <= a /\ a < b * (q + 1)
  BY <1>1
<1> HIDE DEF q
<1>3. ASSUME q < 0 PROVE FALSE
  <2>1. 0 >= (q + 1) + 0 /\ q + 1 \in Int
    BY <1>2, <1>3
  <2>2. b * 0 >= b * (q + 1) + b * 0
    BY <1>1, <2>1, Times
  <2>3. QED BY <1>1, <1>2, <2>2
<1>4. ASSUME q > 60 PROVE FALSE
  <2>1. q >= 61 + 0
    BY <1>2, <1>4
  <2>2. b * q >= b * 61 + b * 0 /\ b * q \in Int
    BY <1>1, <1>2, <2>1, Times
  <2>3. QED BY <1>1, <1>2, <2>2
<1>5. q \in 0..60
  BY <1>2, <1>3, <1>4
<1>6. QED BY <1>5 DEF q, a, b

LEMMA ConfidenceRange ==
  ASSUME NEW task, IsFiniteSet(task), NEW items, NEW grounded
  PROVE  Confidence(task, items, grounded) \in 20..100
<1> DEFINE hay == UNION {Info[n].whole \cup Info[n].part \cup Info[n].across : n \in ToSet(IdsOf(items))}
           k == Cardinality(task)
           c == Cardinality(task \cap hay)
           covered == IF task = {} THEN 0 ELSE (120 * c + k) \div (2 * k)
<1>1. k \in Nat /\ c \in Nat /\ c <= k
  <2>1. task \cap hay \subseteq task
    OBVIOUS
  <2> HIDE DEF hay
  <2>2. IsFiniteSet(task \cap hay) /\ c <= k
    BY <2>1, FS_Subset
  <2>3. QED BY <2>2, FS_CardinalityType
<1>2. task # {} => k > 0
  BY <1>1, FS_EmptySet
<1>3. Confidence(task, items, grounded) = 20 + covered + (IF grounded THEN 20 ELSE 0)
  BY DEF Confidence
<1> HIDE DEF k, c, hay
<1>4. covered \in 0..60
  <2>1. CASE task = {}
    BY <2>1
  <2>2. CASE task # {}
    <3>1. (120 * c + k) \div (2 * k) \in 0..60
      BY <2>2, <1>1, <1>2, SixtyAtMost
    <3>2. QED BY <2>2, <3>1
  <2>3. QED BY <2>1, <2>2
<1> HIDE DEF covered
<1>5. QED BY <1>3, <1>4

-----------------------------------------------------------------------------
(* The pack                                                               *)

\* What is said of p, the pack made of the ranked nodes.
AccountsFor(p, budget, ranked) ==
  LET items == p.mustRead \o p.relatedDocs \o p.tables \o p.tests
  IN /\ NoRepeats(IdsOf(items) \o p.excluded)
     /\ ToSet(IdsOf(items) \o p.excluded)
          = {n \in ToSet(IdsOf(ranked)) : sectionFor(Info[n].type) # "skip"}
     /\ p.tokensUsed = Cost(items)
     /\ p.tokensUsed <= budget \/ p.mustRead \o p.relatedDocs = <<>>
     /\ \A n \in ToSet(p.excluded) : p.tokensUsed + estimateTokens(n) > budget
     /\ p.confidence \in 20..100

LEMMA SectionsAre ==
  \A type : sectionFor(type) \in {"code", "docs", "tables", "tests", "skip"}
BY DEF sectionFor

LEMMA CostOf ==
  ASSUME NEW s, NEW A, Names(s, A)
  PROVE  s \in Seq(Ranking) /\ Cost(s) \in Nat
<1>1. s \in Seq(Ranking)
  BY DEF Names
<1>2. QED BY <1>1, CostConcat

LEMMA PackIs ==
  ASSUME NEW task, IsFiniteSet(task), NEW mode, NEW budget \in Int, NEW ranked, NEW A, Names(ranked, A)
  PROVE  AccountsFor(PackFrom(graph, task, mode, budget, ranked), budget, ranked)
<1> DEFINE p == PackFrom(graph, task, mode, budget, ranked)
           At(sec) == {n \in A : sectionFor(Info[n].type) = sec}
           tables == Part(ranked, "tables")
           tests == Part(ranked, "tests")
           base == Cost(tables \o tests)
           code == Filled(Part(ranked, "code"), base, budget)
           docs == Filled(Part(ranked, "docs"), code.used, budget)
           chosen == code.in \o docs.in
           items == (chosen \o tables) \o tests
           left == code.left \o docs.left
<1>1. /\ p.mustRead = code.in /\ p.relatedDocs = docs.in /\ p.tables = tables /\ p.tests = tests
      /\ p.tokensUsed = docs.used /\ p.excluded = IdsOf(left)
      /\ p.confidence = Confidence(task, items, code.in # <<>> \/ tables # <<>>)
  BY Zenon DEF PackFrom, Assembled
<1>2. Names(tables, At("tables")) /\ Names(tests, At("tests"))
      /\ Names(Part(ranked, "code"), At("code")) /\ Names(Part(ranked, "docs"), At("docs"))
  BY PartIs
<1> DEFINE T == At("tables")
           E == At("tests")
           C == At("code")
           D == At("docs")
<1>3. /\ C \cap D = {} /\ (C \cup D) \cap T = {} /\ ((C \cup D) \cup T) \cap E = {}
      /\ {n \in A : sectionFor(Info[n].type) # "skip"} = ((C \cup D) \cup T) \cup E
  BY SectionsAre
<1>4. Names(tables, T) /\ Names(tests, E) /\ Names(Part(ranked, "code"), C) /\ Names(Part(ranked, "docs"), D)
  BY <1>2
<1> HIDE DEF p, tables, tests, T, E, C, D
<1>5. Cost(tables) \in Nat /\ Cost(tests) \in Nat /\ base = Cost(tables) + Cost(tests) /\ base \in Int
  <2>1. tables \in Seq(Ranking) /\ tests \in Seq(Ranking)
    BY <1>4, CostOf
  <2>2. Cost(tables \o tests) = Cost(tables) + Cost(tests) /\ Cost(tables) \in Nat /\ Cost(tests) \in Nat
    BY <2>1, CostConcat
  <2>3. QED BY <2>2
<1> HIDE DEF base
<1>6. Fits(code, C, base, budget)
  BY <1>4, <1>5, FilledFits
<1> HIDE DEF code
<1>7. code.used \in Int
  BY <1>6 DEF Fits, Filling
<1>8. Fits(docs, D, code.used, budget)
  BY <1>4, <1>7, FilledFits
<1> HIDE DEF docs
<1>9. PICK I, L : /\ Names(code.in, I) /\ Names(code.left, L) /\ I \cup L = C /\ I \cap L = {}
                  /\ \A n \in L : code.used + estimateTokens(n) > budget
  BY <1>6 DEF Fits
<1>10. PICK J, M : /\ Names(docs.in, J) /\ Names(docs.left, M) /\ J \cup M = D /\ J \cap M = {}
                   /\ \A n \in M : docs.used + estimateTokens(n) > budget
  BY <1>8 DEF Fits
<1>11. /\ code.used = base + Cost(code.in) /\ (code.in # <<>> => code.used <= budget)
       /\ docs.used = code.used + Cost(docs.in) /\ (docs.in # <<>> => docs.used <= budget)
       /\ docs.used \in Int /\ Cost(code.in) \in Nat /\ Cost(docs.in) \in Nat
  BY <1>6, <1>8, <1>9, <1>10, CostOf DEF Fits, Filling
<1>12. Names(chosen, I \cup J) /\ Names(left, L \cup M)
  BY <1>3, <1>9, <1>10, NamesConcat
<1>13. Names(chosen \o tables, (I \cup J) \cup T)
  <2>1. (I \cup J) \cap T = {}
    BY <1>3, <1>9, <1>10
  <2> HIDE DEF chosen
  <2>2. QED BY <1>4, <1>12, <2>1, NamesConcat
<1>14. Names(items, ((I \cup J) \cup T) \cup E)
  <2>1. ((I \cup J) \cup T) \cap E = {}
    BY <1>3, <1>9, <1>10
  <2> DEFINE more == chosen \o tables
             U == (I \cup J) \cup T
  <2>2. Names(more, U) /\ U \cap E = {}
    BY <1>13, <2>1
  <2> HIDE DEF more, U
  <2>3. Names(more \o tests, U \cup E)
    BY <1>4, <2>2, NamesConcat
  <2>4. QED BY <2>3 DEF more, U
<1> DEFINE U == ((I \cup J) \cup T) \cup E
           V == L \cup M
<1>15. U \cap V = {} /\ U \cup V = {n \in A : sectionFor(Info[n].type) # "skip"}
  BY <1>3, <1>9, <1>10
<1>16. Names(items, U) /\ Names(left, V)
  BY <1>12, <1>14
<1>17. Cost(items) = docs.used
  <2>1. Cost(chosen) = Cost(code.in) + Cost(docs.in) /\ chosen \in Seq(Ranking)
    <3>1. code.in \in Seq(Ranking) /\ docs.in \in Seq(Ranking)
      BY <1>9, <1>10, CostOf
    <3>2. chosen \in Seq(Ranking)
      BY <1>12, CostOf
    <3>3. QED BY <3>1, <3>2, CostConcat
  <2>2. tables \in Seq(Ranking) /\ tests \in Seq(Ranking)
    BY <1>4, CostOf
  <2> DEFINE more == chosen \o tables
  <2>3. more \in Seq(Ranking)
    BY <1>13, CostOf
  <2> HIDE DEF chosen
  <2>4. Cost(more) = Cost(chosen) + Cost(tables)
    BY <2>1, <2>2, CostConcat
  <2> HIDE DEF more
  <2>5. Cost(more \o tests) = Cost(more) + Cost(tests)
    BY <2>2, <2>3, CostConcat
  <2>6. Cost(items) = Cost(more) + Cost(tests)
    BY <2>5 DEF more
  <2>7. QED BY <2>1, <2>4, <2>6, <1>5, <1>11
<1> HIDE DEF items, left, U, V
<1>18. IdsOf(items) \o IdsOf(left) = IdsOf(items \o left) /\ Names(items \o left, U \cup V)
  BY <1>15, <1>16, IdsConcat, NamesConcat
<1> DEFINE named == IdsOf(items) \o p.excluded
<1>19. NoRepeats(named) /\ ToSet(named) = U \cup V
  <2> DEFINE all == items \o left
  <2>1. named = IdsOf(all)
    BY <1>1, <1>18
  <2>2. Names(all, U \cup V)
    BY <1>18
  <2> HIDE DEF all, named
  <2>3. QED BY <2>1, <2>2, IdsAre
<1>20. ToSet(IdsOf(ranked)) = A /\ ToSet(p.excluded) = V
  BY <1>1, <1>16, IdsAre
<1>21. ToSet(named) = {n \in ToSet(IdsOf(ranked)) : sectionFor(Info[n].type) # "skip"}
  BY <1>15, <1>19, <1>20
<1>22. p.tokensUsed = Cost(items)
  BY <1>1, <1>17
<1>23. p.tokensUsed <= budget \/ p.mustRead \o p.relatedDocs = <<>>
  <2>1. CASE docs.in # <<>>
    BY <2>1, <1>1, <1>11
  <2>2. CASE docs.in = <<>> /\ code.in # <<>>
    <3>1. Cost(docs.in) = 0
      BY <2>2, CostNone
    <3>2. QED BY <2>2, <3>1, <1>1, <1>7, <1>11
  <2>3. CASE docs.in = <<>> /\ code.in = <<>>
    <3>1. p.mustRead = <<>> /\ p.relatedDocs = <<>>
      BY <2>3, <1>1
    <3>2. <<>> \o <<>> = <<>>
      OBVIOUS
    <3>3. QED BY <3>1, <3>2
  <2>4. QED BY <2>1, <2>2, <2>3
<1>24. \A n \in ToSet(p.excluded) : p.tokensUsed + estimateTokens(n) > budget
  <2> SUFFICES ASSUME NEW n \in V PROVE docs.used + estimateTokens(n) > budget
    BY <1>1, <1>20
  <2>1. CASE n \in L
    <3>1. estimateTokens(n) \in Nat
      <4>1. code.left \in Seq(Ranking) /\ L = {code.left[i].id : i \in 1..Len(code.left)}
        BY <1>9 DEF Names
      <4>2. \A i \in 1..Len(code.left) : code.left[i].id \in Ids
        BY <4>1, Items
      <4>3. n \in Ids
        BY <2>1, <4>1, <4>2
      <4>4. QED BY <4>3, TokensCount
    <3>2. code.used + estimateTokens(n) > budget
      BY <2>1, <1>9
    <3>3. QED BY <3>1, <3>2, <1>7, <1>11
  <2>2. CASE n \in M
    BY <2>2, <1>10
  <2>3. QED BY <2>1, <2>2 DEF V
<1>25. p.confidence \in 20..100
  <2> DEFINE grounded == code.in # <<>> \/ tables # <<>>
  <2>1. p.confidence = Confidence(task, items, grounded)
    BY <1>1, Zenon DEF items
  <2> HIDE DEF grounded
  <2>2. QED BY <2>1, ConfidenceRange
<1>26. items = p.mustRead \o p.relatedDocs \o p.tables \o p.tests
  BY <1>1 DEF items
<1>27. AccountsFor(p, budget, ranked)
  <2>1. NoRepeats(IdsOf(items) \o p.excluded)
    BY <1>19
  <2>2. ToSet(IdsOf(items) \o p.excluded) = {n \in ToSet(IdsOf(ranked)) : sectionFor(Info[n].type) # "skip"}
    BY <1>21
  <2>3. QED BY <2>1, <2>2, <1>22, <1>23, <1>24, <1>25, <1>26, Zenon DEF AccountsFor
<1>28. QED BY <1>27 DEF p

LEMMA PackAccounted ==
  ASSUME GraphTyped, NEW task, IsFiniteSet(task), NEW requested \in Modes \cup {"auto"},
         NEW budget \in Int, NEW depth \in Nat
  PROVE  LET p == buildContextPack(graph, task, requested, budget, depth)
         IN  AccountsFor(p, budget, rankContext(graph, task, p.mode, depth, RankLimit))
<1> DEFINE mode == resolveMode(task, requested)
           ranked == rankContext(graph, task, mode, depth, RankLimit)
           p == PackFrom(graph, task, mode, budget, ranked)
<1>1. mode \in Modes
  BY DEF resolveMode, Modes
<1>2. buildContextPack(graph, task, requested, budget, depth) = p
  BY DEF buildContextPack
<1>3. p.mode = mode
  BY Zenon DEF PackFrom, Assembled
<1> HIDE DEF mode
<1>4. PICK A : Names(ranked, A)
  BY <1>1, RankAssumption, RankedNames
<1>5. AccountsFor(p, budget, ranked)
  <2> HIDE DEF ranked
  <2>1. QED BY <1>4, PackIs
<1>6. QED BY <1>2, <1>3, <1>5, Zenon

\* Whatever edges the scans have found, and for every finite task, mode, budget
\* and depth, the pack puts every ranked node in one section or among the
\* excluded, says what its sections cost, keeps to the budget unless the tables
\* and tests alone exceed it, and excludes nothing that would still have fit
\* (buildContextPack.ts:77).
THEOREM PackAccountsForAll ==
  Spec => [](\A task : IsFiniteSet(task) =>
               \A requested \in Modes \cup {"auto"}, budget \in Int, depth \in Nat :
                 LET p == buildContextPack(graph, task, requested, budget, depth)
                 IN  AccountsFor(p, budget, rankContext(graph, task, p.mode, depth, RankLimit)))
<1>1. GraphTyped => \A task : IsFiniteSet(task) =>
               \A requested \in Modes \cup {"auto"}, budget \in Int, depth \in Nat :
                 LET p == buildContextPack(graph, task, requested, budget, depth)
                 IN  AccountsFor(p, budget, rankContext(graph, task, p.mode, depth, RankLimit))
  BY PackAccounted
<1>2. QED BY <1>1, GraphsTyped, PTL

\* The property of the run, which asks it of the tasks and budgets it is given.
THEOREM PackKeepsAccounts == Spec => []PackAccounts
<1>1. GraphTyped => PackAccounts
  <2> SUFFICES ASSUME GraphTyped, NEW task \in Tasks, NEW budget \in Budgets,
                      NEW p \in {buildContextPack(graph, task, "auto", budget, 2)}
               PROVE  AccountsFor(p, budget, rankContext(graph, task, p.mode, 2, RankLimit))
    BY Zenon DEF PackAccounts, AccountsFor
  <2>1. IsFiniteSet(task) /\ budget \in Int /\ 2 \in Nat /\ "auto" \in Modes \cup {"auto"}
    BY TasksAssumption
  <2>2. AccountsFor(buildContextPack(graph, task, "auto", budget, 2), budget,
          rankContext(graph, task, buildContextPack(graph, task, "auto", budget, 2).mode, 2, RankLimit))
    BY <2>1, PackAccounted, Zenon
  <2>3. QED BY <2>2
<1>2. QED BY <1>1, GraphsTyped, PTL

-----------------------------------------------------------------------------
(* What git says, read back                                                *)

LEMMA SameSeq ==
  ASSUME NEW S, NEW s \in Seq(S), NEW t \in Seq(S), Len(s) = Len(t),
         \A i \in 1..Len(s) : s[i] = t[i]
  PROVE  s = t
<1>1. s \in [1..Len(s) -> S] /\ t \in [1..Len(t) -> S]
  OBVIOUS
<1>2. QED BY <1>1

Stop == ""
Token == Paths \cup Letters \cup {Stop}

LEMMA StopsApart == Stop \in Token /\ Stop \notin Letters /\ Stop \notin Paths
<1>1. "" \notin Letters
  BY Zenon DEF Letters
<1>2. "" \notin Paths
  BY PathsAssumption, Zenon
<1>3. QED BY <1>1, <1>2, Zenon DEF Stop, Token

Printing(f, entries) ==
  f = [k \in 0..Len(entries) |-> IF k = 0 THEN <<>> ELSE f[k - 1] \o Line(entries[k])]

LEMMA Lines ==
  ASSUME NEW f \in Change
  PROVE  /\ Line(f) \in Seq(Token) /\ Len(Line(f)) \in {2, 3}
         /\ f.path \in Paths /\ f.status \in Letters
         /\ Line(f)[1] = f.status /\ Line(f)[Len(Line(f))] = f.path
         /\ f.status \in {"R", "C"} => Len(Line(f)) = 3 /\ Line(f)[2] = f.old
         /\ f.status \notin {"R", "C"} => Len(Line(f)) = 2 /\ f.old = NoNode
         /\ f = [path |-> f.path, status |-> f.status, old |-> f.old]
<1>1. /\ f.path \in Paths /\ f.status \in Letters /\ f.old \in Paths \cup {NoNode}
      /\ f.old = NoNode <=> f.status \notin {"R", "C"}
      /\ f = [path |-> f.path, status |-> f.status, old |-> f.old]
  BY DEF Change
<1>2. CASE f.old = NoNode
  <2>1. Line(f) = <<f.status, f.path>>
    BY <1>2 DEF Line
  <2>2. f.status \in Token /\ f.path \in Token /\ f.status \notin {"R", "C"}
    BY <1>1, <1>2 DEF Token
  <2>3. Line(f) \in Seq(Token) /\ Len(Line(f)) = 2 /\ Line(f)[1] = f.status /\ Line(f)[2] = f.path
    BY <2>1, <2>2
  <2>4. QED BY <1>1, <1>2, <2>2, <2>3
<1>3. CASE f.old # NoNode
  <2>1. Line(f) = <<f.status, f.old, f.path>>
    BY <1>3 DEF Line
  <2>2. f.old \in Paths
    BY <1>1, <1>3
  <2>3. f.status \in Token /\ f.path \in Token /\ f.old \in Token /\ f.status \in {"R", "C"}
    BY <1>1, <1>3, <2>2 DEF Token
  <2>4. /\ Line(f) \in Seq(Token) /\ Len(Line(f)) = 3
        /\ Line(f)[1] = f.status /\ Line(f)[2] = f.old /\ Line(f)[3] = f.path
    BY <2>1, <2>3
  <2>5. QED BY <1>1, <2>3, <2>4
<1>4. QED BY <1>2, <1>3

LEMMA Prints ==
  ASSUME NEW entries \in Seq(Change)
  PROVE  \E f : /\ f \in [0..Len(entries) -> Seq(Token)] /\ f[0] = <<>>
                /\ \A k \in 1..Len(entries) : f[k] = f[k - 1] \o Line(entries[k])
                /\ Tokens(entries) = Append(f[Len(entries)], Stop)
<1> DEFINE n == Len(entries)
           State == Seq(Token)
           More(s, k) == s \o Line(entries[k])
           step == [k \in 1..n |-> [s \in State |-> More(s, k)]]
           g == CHOOSE f : Printing(f, entries)
<1>1. n \in Nat /\ \A k \in 1..n : entries[k] \in Change
  OBVIOUS
<1>2. \A k \in 1..n : \A s \in State : More(s, k) \in State
  BY <1>1, Lines
<1>4. <<>> \in State
  OBVIOUS
<1>5. Tokens(entries) = Append(g[n], Stop)
  BY Zenon DEF Tokens, Printing, Stop
<1> HIDE DEF State, More
<1>3. step \in [1..n -> [State -> State]] /\ \A k \in 1..n : \A s \in State : step[k][s] = More(s, k)
  BY <1>2
<1> HIDE DEF step, n, g
<1>6. PICK f : History(f, n, State, <<>>, step)
  BY <1>1, <1>3, <1>4, LoopExists
<1>7. \A k \in 1..n : k - 1 \in 0..n /\ f[k] = More(f[k - 1], k)
  BY <1>1, <1>3, <1>6 DEF History
<1>8. f = [k \in 0..n |-> IF k = 0 THEN <<>> ELSE More(f[k - 1], k)]
  BY <1>1, <1>6, <1>7 DEF History
<1>9. Printing(g, entries)
  BY <1>8 DEF Printing, g, n, More
<1>10. g[0] = <<>> /\ \A k \in 1..n : g[k] = More(g[k - 1], k)
  BY <1>1, <1>9 DEF Printing, n, More
<1>11. Follows(g, n, State, <<>>, step)
  BY <1>3, <1>10 DEF Follows
<1>12. \A k \in 0..n : g[k] \in State
  BY <1>1, <1>3, <1>4, <1>11, LoopStays
<1>13. DOMAIN g = 0..n
  BY <1>9 DEF Printing, n
<1>14. g \in [0..n -> State]
  <2>1. g = [k \in 0..n |-> g[k]]
    BY <1>9 DEF Printing, n
  <2>2. QED BY <1>12, <2>1
<1>15. QED BY <1>5, <1>10, <1>14 DEF n, State, More

\* What is printed for one file stays where it is.
LEMMA PrintedStays ==
  ASSUME NEW n \in Nat, NEW T, NEW f \in [0..n -> Seq(T)], NEW line \in [1..n -> Seq(T)],
         \A k \in 1..n : f[k] = f[k - 1] \o line[k],
         NEW k \in 0..n
  PROVE  Len(f[k]) <= Len(f[n]) /\ \A i \in 1..Len(f[k]) : f[n][i] = f[k][i]
<1> DEFINE S == {j \in 0..(n - k) : /\ Len(f[k]) <= Len(f[k + j])
                                    /\ \A i \in 1..Len(f[k]) : f[k + j][i] = f[k][i]}
<1>0. n - k \in Nat /\ k \in Nat
  OBVIOUS
<1>1. 0 \in S
  <2>1. k + 0 = k /\ 0 \in 0..(n - k) /\ Len(f[k]) \in Nat
    OBVIOUS
  <2>2. QED BY <2>1
<1>2. ASSUME NEW j \in 0..(n - k - 1), j \in S PROVE j + 1 \in S
  <2> DEFINE a == f[k + j]
             b == line[k + (j + 1)]
  <2>1. k + j \in 0..n /\ k + (j + 1) \in 1..n /\ (k + (j + 1)) - 1 = k + j /\ j + 1 \in 0..(n - k)
    BY <1>0
  <2>2. f[k + (j + 1)] = a \o b /\ a \in Seq(T) /\ b \in Seq(T) /\ f[k] \in Seq(T)
    BY <2>1
  <2>3. Len(f[k]) <= Len(a) /\ \A i \in 1..Len(f[k]) : a[i] = f[k][i]
    BY <1>2
  <2> HIDE DEF a, b
  <2>4. /\ Len(a) \in Nat /\ Len(b) \in Nat /\ Len(f[k]) \in Nat /\ Len(a \o b) = Len(a) + Len(b)
        /\ \A i \in 1..Len(a) : (a \o b)[i] = a[i]
    <3>1. Len(a) \in Nat /\ Len(b) \in Nat /\ Len(f[k]) \in Nat
      BY <2>2
    <3>2. Len(a \o b) = Len(a) + Len(b)
      BY <2>2
    <3>3. \A i \in 1..Len(a) : (a \o b)[i] = a[i]
      BY <2>2
    <3>4. QED BY <3>1, <3>2, <3>3
  <2>5. Len(f[k]) <= Len(a \o b) /\ \A i \in 1..Len(f[k]) : (a \o b)[i] = f[k][i]
    BY <2>2, <2>3, <2>4
  <2>6. QED BY <2>1, <2>2, <2>5
<1> HIDE DEF S
<1>3. \A j \in 0..(n - k - 1) : j \in S => j + 1 \in S
  BY <1>2
<1>4. \A j \in 0..(n - k) : j \in S
  BY <1>0, <1>1, <1>3, Induction
<1>5. n - k \in S /\ k + (n - k) = n
  BY <1>0, <1>4
<1>6. QED BY <1>5 DEF S

Entry == [path : Token, status : Letters \cup {"other"}, old : Token \cup {NoNode}]
Reads == [at : Nat \ {0}, files : Seq(Entry)]

Reading(f, parts) ==
  f = [k \in 0..Len(parts) |-> IF k = 0 THEN [at |-> 1, files |-> <<>>] ELSE ReadChange(f[k - 1], parts)]

LEMMA ReadOn ==
  ASSUME NEW parts \in Seq(Token), NEW acc \in Reads
  PROVE  ReadChange(acc, parts) \in Reads
<1> DEFINE code == parts[acc.at]
           moved == code \in {"R", "C"}
           last == acc.at + (IF moved THEN 2 ELSE 1)
<1>1. /\ acc.at \in Nat \ {0} /\ acc.files \in Seq(Entry) /\ acc = [at |-> acc.at, files |-> acc.files]
      /\ Len(parts) \in Nat
  BY DEF Reads
<1>2. CASE acc.at > Len(parts) \/ code = "" \/ last > Len(parts)
  <2>1. ReadChange(acc, parts) = [acc EXCEPT !.at = Len(parts) + 1]
    BY <1>2 DEF ReadChange
  <2>2. QED BY <1>1, <2>1 DEF Reads
<1>3. CASE ~(acc.at > Len(parts) \/ code = "" \/ last > Len(parts))
  <2> DEFINE entry == [path |-> parts[last], status |-> mapStatusLetter(code),
                       old |-> IF moved THEN parts[acc.at + 1] ELSE NoNode]
  <2>1. ReadChange(acc, parts) = [at |-> last + 1, files |-> Append(acc.files, entry)]
    BY <1>3 DEF ReadChange
  <2>8. (moved /\ last = acc.at + 2) \/ (~moved /\ last = acc.at + 1)
    OBVIOUS
  <2>9. last <= Len(parts) /\ acc.at \in Nat \ {0} /\ Len(parts) \in Nat
    <3>1. last \in Nat
      BY <1>1, <2>8
    <3>2. ~(last > Len(parts))
      BY <1>3, Zenon
    <3> HIDE DEF last
    <3>3. QED BY <1>1, <3>1, <3>2
  <2> HIDE DEF moved, code, last
  <2>2. last \in 1..Len(parts) /\ (moved => acc.at + 1 \in 1..Len(parts)) /\ last + 1 \in Nat \ {0}
    BY <2>8, <2>9
  <2>3. mapStatusLetter(code) \in Letters \cup {"other"}
    BY DEF mapStatusLetter, Letters
  <2>4. parts[last] \in Token /\ (moved => parts[acc.at + 1] \in Token)
    BY <2>2
  <2>5. entry \in Entry
    BY <2>3, <2>4 DEF Entry
  <2> HIDE DEF entry, last
  <2>6. Append(acc.files, entry) \in Seq(Entry)
    BY <1>1, <2>5
  <2>7. QED BY <2>1, <2>2, <2>6 DEF Reads
<1>4. QED BY <1>2, <1>3

LEMMA ReadLoop ==
  ASSUME NEW parts \in Seq(Token)
  PROVE  \E f : /\ f \in [0..Len(parts) -> Reads] /\ f[0] = [at |-> 1, files |-> <<>>]
                /\ \A k \in 1..Len(parts) : f[k] = ReadChange(f[k - 1], parts)
                /\ ParseNameStatusZ(parts) = f[Len(parts)].files
<1> DEFINE n == Len(parts)
           z == [at |-> 1, files |-> <<>>]
           step == [k \in 1..n |-> [s \in Reads |-> ReadChange(s, parts)]]
           g == CHOOSE f : Reading(f, parts)
<1>1. n \in Nat
  OBVIOUS
<1>2. \A s \in Reads : ReadChange(s, parts) \in Reads
  BY ReadOn
<1>3. step \in [1..n -> [Reads -> Reads]] /\ \A k \in 1..n : \A s \in Reads : step[k][s] = ReadChange(s, parts)
  BY <1>2
<1>4. z \in Reads
  BY DEF Reads
<1>5. ParseNameStatusZ(parts) = g[n].files
  BY DEF ParseNameStatusZ, Reading
<1> HIDE DEF step, n, g, z
<1>6. PICK f : History(f, n, Reads, z, step)
  BY <1>1, <1>3, <1>4, LoopExists
<1>7. \A k \in 1..n : k - 1 \in 0..n /\ f[k] = ReadChange(f[k - 1], parts)
  BY <1>1, <1>3, <1>6 DEF History
<1>8. f = [k \in 0..n |-> IF k = 0 THEN z ELSE ReadChange(f[k - 1], parts)]
  BY <1>1, <1>6, <1>7 DEF History
<1>9. Reading(g, parts)
  BY <1>8 DEF Reading, g, n, z
<1>10. g[0] = z /\ \A k \in 1..n : g[k] = ReadChange(g[k - 1], parts)
  BY <1>1, <1>9 DEF Reading, n, z
<1>11. Follows(g, n, Reads, z, step)
  BY <1>3, <1>10 DEF Follows
<1>12. \A k \in 0..n : g[k] \in Reads
  BY <1>1, <1>3, <1>4, <1>11, LoopStays
<1>13. g \in [0..n -> Reads]
  <2>1. g = [k \in 0..n |-> g[k]]
    BY <1>9 DEF Reading, n
  <2>2. QED BY <1>12, <2>1
<1>14. QED BY <1>5, <1>10, <1>13 DEF n, z

LEMMA ReadsOne ==
  ASSUME NEW parts \in Seq(Token), NEW acc \in Reads, NEW e \in Change,
         acc.at + Len(Line(e)) - 1 <= Len(parts),
         \A j \in 1..Len(Line(e)) : parts[acc.at + j - 1] = Line(e)[j]
  PROVE  ReadChange(acc, parts) = [at |-> acc.at + Len(Line(e)), files |-> Append(acc.files, e)]
<1> DEFINE n == Len(Line(e))
           code == parts[acc.at]
           moved == code \in {"R", "C"}
           last == acc.at + (IF moved THEN 2 ELSE 1)
           entry == [path |-> parts[last], status |-> mapStatusLetter(code),
                     old |-> IF moved THEN parts[acc.at + 1] ELSE NoNode]
<1>1. acc.at \in Nat \ {0} /\ Len(parts) \in Nat /\ n \in {2, 3}
  BY Lines DEF Reads
<1>2. code = e.status /\ e.status \in Letters
  <2>1. 1 \in 1..n /\ acc.at + 1 - 1 = acc.at
    BY <1>1
  <2>2. code = Line(e)[1]
    BY <2>1
  <2>3. QED BY <2>2, Lines
<1>3. code # "" /\ mapStatusLetter(code) = e.status
  <2>1. code # Stop
    BY <1>2, StopsApart
  <2>2. mapStatusLetter(code) = e.status
    BY <1>2 DEF Letters, mapStatusLetter
  <2>3. QED BY <2>1, <2>2, Zenon DEF Stop
<1>4. parts[acc.at + n - 1] = e.path
  <2>1. \A j \in 1..n : parts[acc.at + j - 1] = Line(e)[j]
    OBVIOUS
  <2>2. n \in {2, 3} => n \in 1..n
    <3> HIDE DEF n
    <3>1. QED OBVIOUS
  <2>3. parts[acc.at + n - 1] = Line(e)[n]
    BY <1>1, <2>1, <2>2, Zenon
  <2>4. QED BY <2>3, Lines
<1>5. /\ moved <=> e.status \in {"R", "C"}
      /\ moved => last = acc.at + 2
      /\ ~moved => last = acc.at + 1
  BY <1>2
<1>6. CASE e.status \in {"R", "C"}
  <2>1. n = 3 /\ Line(e)[2] = e.old
    BY <1>6, Lines
  <2>2. parts[acc.at + 1] = e.old
    <3>1. 2 \in 1..n /\ acc.at + 2 - 1 = acc.at + 1
      BY <1>1, <2>1
    <3>2. QED BY <3>1, <2>1
  <2>3. last = acc.at + n - 1 /\ last + 1 = acc.at + n /\ last <= Len(parts)
    BY <1>1, <1>5, <1>6, <2>1
  <2>4. entry = [path |-> e.path, status |-> e.status, old |-> e.old]
    BY <1>3, <1>4, <1>5, <1>6, <2>2, <2>3
  <2>5. entry = e
    BY <2>4, Lines
  <2>6. ~(acc.at > Len(parts) \/ code = "" \/ last > Len(parts))
    <3>1. ~(last > Len(parts)) /\ ~(acc.at > Len(parts))
      BY <1>1, <1>5, <1>6, <2>3
    <3>2. QED BY <1>3, <3>1, Zenon
  <2>7. ReadChange(acc, parts) = [at |-> last + 1, files |-> Append(acc.files, entry)]
    BY <2>6 DEF ReadChange
  <2>8. QED BY <2>3, <2>5, <2>7
<1>7. CASE e.status \notin {"R", "C"}
  <2>1. n = 2 /\ e.old = NoNode
    BY <1>7, Lines
  <2>3. last = acc.at + n - 1 /\ last + 1 = acc.at + n /\ last <= Len(parts)
    BY <1>1, <1>5, <1>7, <2>1
  <2>4. entry = [path |-> e.path, status |-> e.status, old |-> e.old]
    BY <1>3, <1>4, <1>5, <1>7, <2>1, <2>3
  <2>5. entry = e
    BY <2>4, Lines
  <2>6. ~(acc.at > Len(parts) \/ code = "" \/ last > Len(parts))
    <3>1. ~(last > Len(parts)) /\ ~(acc.at > Len(parts))
      BY <1>1, <1>5, <1>7, <2>3
    <3>2. QED BY <1>3, <3>1, Zenon
  <2>7. ReadChange(acc, parts) = [at |-> last + 1, files |-> Append(acc.files, entry)]
    BY <2>6 DEF ReadChange
  <2>8. QED BY <2>3, <2>5, <2>7
<1>8. QED BY <1>6, <1>7

LEMMA ReadsNoMore ==
  ASSUME NEW parts \in Seq(Token), NEW acc \in Reads, acc.at > Len(parts) \/ parts[acc.at] = Stop
  PROVE  ReadChange(acc, parts).files = acc.files /\ ReadChange(acc, parts).at = Len(parts) + 1
<1>1. ReadChange(acc, parts) = [acc EXCEPT !.at = Len(parts) + 1]
  BY Zenon DEF ReadChange, Stop
<1>2. acc = [at |-> acc.at, files |-> acc.files]
  BY DEF Reads
<1>3. QED BY <1>1, <1>2

\* Every change git has printed is read back as it was.
LEMMA ReadBack ==
  ASSUME NEW entries \in Seq(Change)
  PROVE  ParseNameStatusZ(Tokens(entries)) = entries
<1> DEFINE n == Len(entries)
           parts == Tokens(entries)
           line == [k \in 1..n |-> Line(entries[k])]
<1>1. n \in Nat /\ \A k \in 1..n : entries[k] \in Change
  OBVIOUS
<1>2. PICK f : /\ f \in [0..n -> Seq(Token)] /\ f[0] = <<>>
               /\ \A k \in 1..n : f[k] = f[k - 1] \o Line(entries[k])
               /\ parts = Append(f[n], Stop)
  BY Prints
<1>3. \A k \in 1..n : line[k] = Line(entries[k]) /\ line[k] \in Seq(Token) /\ Len(line[k]) \in {2, 3}
  BY <1>1, Lines
<1>4. line \in [1..n -> Seq(Token)]
  BY <1>3
<1> HIDE DEF line, n
<1>28. f \in [0..n -> Seq(Token)] /\ f[0] = <<>>
  BY <1>2
<1>29. parts = Append(f[n], Stop)
  BY <1>2
<1>30. \A k \in 1..n : f[k] = f[k - 1] \o line[k]
  <2> TAKE k \in 1..n
  <2>1. f[k] = f[k - 1] \o Line(entries[k])
    BY <1>2
  <2>2. line[k] = Line(entries[k])
    BY <1>3
  <2>3. QED BY <2>1, <2>2
<1>5. \A k \in 1..n : k \in 0..n /\ k - 1 \in 0..n
  BY <1>1
<1>6. f[n] \in Seq(Token) /\ Stop \in Token
  BY <1>1, <1>28, StopsApart
<1>7. parts \in Seq(Token) /\ Len(parts) = Len(f[n]) + 1 /\ parts[Len(f[n]) + 1] = Stop
      /\ \A i \in 1..Len(f[n]) : parts[i] = f[n][i]
  <2> DEFINE s == f[n]
  <2>1. s \in Seq(Token) /\ parts = Append(s, Stop)
    BY <1>6, <1>29
  <2> HIDE DEF s, parts
  <2>2. parts \in Seq(Token) /\ Len(parts) = Len(s) + 1 /\ parts[Len(s) + 1] = Stop
    BY <1>6, <2>1
  <2>3. \A i \in 1..Len(s) : parts[i] = s[i]
    BY <1>6, <2>1
  <2>4. QED BY <2>2, <2>3 DEF s
<1>8. PICK g : /\ g \in [0..Len(parts) -> Reads] /\ g[0] = [at |-> 1, files |-> <<>>]
               /\ \A k \in 1..Len(parts) : g[k] = ReadChange(g[k - 1], parts)
               /\ ParseNameStatusZ(parts) = g[Len(parts)].files
  BY <1>7, ReadLoop
<1> HIDE DEF parts
<1>9. \A k \in 1..n : /\ Len(f[k]) = Len(f[k - 1]) + Len(line[k]) /\ Len(f[k]) \in Nat /\ Len(f[k - 1]) \in Nat
                      /\ \A j \in 1..Len(line[k]) : f[k][Len(f[k - 1]) + j] = line[k][j]
  <2> TAKE k \in 1..n
  <2>1. f[k] = f[k - 1] \o line[k] /\ f[k - 1] \in Seq(Token) /\ line[k] \in Seq(Token)
    BY <1>3, <1>5, <1>28, <1>30
  <2> DEFINE a == f[k - 1]
             b == line[k]
  <2>2. a \in Seq(Token) /\ b \in Seq(Token) /\ f[k] = a \o b
    BY <2>1
  <2> HIDE DEF a, b
  <2>3. Len(a) \in Nat /\ Len(b) \in Nat
    BY <2>2
  <2>4. Len(a \o b) = Len(a) + Len(b)
    BY <2>2
  <2>5. \A j \in 1..Len(b) : (a \o b)[Len(a) + j] = b[j]
    BY <2>2, <2>3
  <2>6. Len(f[k]) = Len(a) + Len(b) /\ \A j \in 1..Len(b) : f[k][Len(a) + j] = b[j]
    BY <2>2, <2>4, <2>5
  <2>7. Len(f[k]) \in Nat
    BY <2>3, <2>6
  <2>8. QED BY <2>3, <2>6, <2>7 DEF a, b
<1>10. \A k \in 0..n : Len(f[k]) <= Len(f[n]) /\ \A i \in 1..Len(f[k]) : f[n][i] = f[k][i]
  BY <1>1, <1>4, <1>28, <1>30, PrintedStays
<1> DEFINE Read(k) == /\ Len(f[k]) >= k /\ k <= Len(parts) /\ g[k].at = Len(f[k]) + 1
                      /\ Len(g[k].files) = k /\ \A i \in 1..k : g[k].files[i] = entries[i]
           S == {k \in 0..n : Read(k)}
<1>11. Len(parts) \in Nat /\ Len(f[n]) \in Nat
  BY <1>6, <1>7
<1>12. 0 \in S
  <2>1. Len(f[0]) = 0 /\ g[0].at = 1 /\ g[0].files = <<>>
    BY <1>8, <1>28
  <2>2. QED BY <2>1, <1>1, <1>11
<1>13. ASSUME NEW k \in 0..(n - 1), k \in S PROVE k + 1 \in S
  <2> DEFINE e == entries[k + 1]
             l == Len(line[k + 1])
  <2>1. k + 1 \in 1..n /\ (k + 1) - 1 = k /\ k \in 0..n /\ k + 1 \in 0..n /\ k \in Nat
    BY <1>1
  <2>2. e \in Change /\ line[k + 1] = Line(e) /\ l \in {2, 3}
    BY <1>1, <1>3, <2>1
  <2>3. /\ Len(f[k + 1]) = Len(f[k]) + l /\ Len(f[k]) \in Nat
        /\ \A j \in 1..l : f[k + 1][Len(f[k]) + j] = line[k + 1][j]
    BY <1>9, <2>1
  <2>4. Read(k)
    BY <1>13
  <2>5. Len(f[k + 1]) <= Len(f[n]) /\ \A i \in 1..Len(f[k + 1]) : f[n][i] = f[k + 1][i]
    BY <1>10, <2>1
  <2> HIDE DEF e, l
  <2>6. Len(f[k + 1]) + 1 <= Len(parts) /\ k + 1 <= Len(f[k + 1]) /\ k + 1 <= Len(parts)
    BY <1>7, <1>11, <2>1, <2>2, <2>3, <2>4, <2>5
  <2>7. \A j \in 1..l : parts[g[k].at + j - 1] = Line(e)[j]
    <3> TAKE j \in 1..l
    <3> DEFINE i == Len(f[k]) + j
    <3>1. g[k].at + j - 1 = i /\ i \in 1..Len(f[k + 1]) /\ i \in 1..Len(f[n])
      BY <1>11, <2>2, <2>3, <2>4, <2>5
    <3>2. parts[i] = f[n][i] /\ f[n][i] = f[k + 1][i] /\ f[k + 1][i] = line[k + 1][j]
      BY <1>7, <2>3, <2>5, <3>1
    <3>3. QED BY <2>2, <3>1, <3>2
  <2>8. l = Len(Line(e)) /\ g[k].at + l - 1 <= Len(parts)
    BY <1>11, <2>2, <2>3, <2>4, <2>6 DEF l
  <2>9. g[k] \in Reads /\ g[k + 1] = ReadChange(g[k], parts)
    BY <1>8, <1>11, <2>1, <2>4, <2>6
  <2>10. g[k + 1] = [at |-> g[k].at + l, files |-> Append(g[k].files, e)]
    BY <1>7, <2>2, <2>7, <2>8, <2>9, ReadsOne
  <2>11. g[k].files \in Seq(Entry)
    BY <2>9 DEF Reads
  <2> DEFINE s == g[k].files
  <2>12. s \in Seq(Entry) /\ Len(s) = k /\ \A i \in 1..k : s[i] = entries[i]
    BY <2>4, <2>11
  <2> HIDE DEF s
  <2>13. Len(Append(s, e)) = k + 1 /\ Append(s, e)[k + 1] = e /\ \A i \in 1..k : Append(s, e)[i] = s[i]
    BY <2>1, <2>12
  <2>14. g[k + 1].at = g[k].at + l /\ g[k + 1].files = Append(s, e)
    BY <2>10 DEF s
  <2>15. \A i \in 1..(k + 1) : g[k + 1].files[i] = entries[i]
    BY <2>1, <2>12, <2>13, <2>14 DEF e
  <2>16. g[k + 1].at = Len(f[k + 1]) + 1
    BY <2>2, <2>3, <2>4, <2>14
  <2>17. Read(k + 1)
    BY <2>6, <2>13, <2>14, <2>15, <2>16
  <2>18. QED BY <2>1, <2>17
<1> HIDE DEF S
<1>14. \A k \in 0..(n - 1) : k \in S => k + 1 \in S
  BY <1>13
<1>15. \A k \in 0..n : k \in S
  BY <1>1, <1>12, <1>14, Induction
<1>16. Read(n)
  BY <1>1, <1>15 DEF S
<1> HIDE DEF Read
<1> DEFINE m == Len(parts) - n
           R == {j \in 0..m : /\ g[n + j].files = g[n].files
                              /\ g[n + j].at > Len(parts) \/ parts[g[n + j].at] = Stop}
<1>17. m \in Nat
  BY <1>1, <1>11, <1>16 DEF Read
<1>18. 0 \in R
  <2>1. n + 0 = n /\ parts[g[n].at] = Stop
    BY <1>1, <1>7, <1>16 DEF Read
  <2>2. QED BY <2>1, <1>17
<1>19. ASSUME NEW j \in 0..(m - 1), j \in R PROVE j + 1 \in R
  <2>1. /\ n + (j + 1) \in 1..Len(parts) /\ (n + (j + 1)) - 1 = n + j /\ n + j \in 0..Len(parts)
        /\ j + 1 \in 0..m
    BY <1>1, <1>11, <1>17
  <2>2. g[n + (j + 1)] = ReadChange(g[n + j], parts) /\ g[n + j] \in Reads
    BY <1>8, <2>1
  <2>3. /\ ReadChange(g[n + j], parts).files = g[n + j].files
        /\ ReadChange(g[n + j], parts).at = Len(parts) + 1
    BY <1>7, <1>19, <2>2, ReadsNoMore
  <2>4. g[n + (j + 1)].at > Len(parts)
    BY <1>11, <2>2, <2>3
  <2>5. QED BY <1>19, <2>1, <2>2, <2>3, <2>4
<1> HIDE DEF R, m
<1>20. \A j \in 0..(m - 1) : j \in R => j + 1 \in R
  BY <1>19
<1>21. \A j \in 0..m : j \in R
  BY <1>17, <1>18, <1>20, Induction
<1>22. m \in R /\ n + m = Len(parts)
  <2>1. n + m = Len(parts)
    BY <1>1, <1>11 DEF m
  <2>2. QED BY <1>17, <1>21, <2>1
<1>23. g[Len(parts)].files = g[n].files
  BY <1>22 DEF R
<1>24. g[n] \in Reads
  BY <1>1, <1>8, <1>11, <1>16 DEF Read
<1>25. /\ g[n].files \in Seq(Entry \cup Change) /\ entries \in Seq(Entry \cup Change)
       /\ Len(g[n].files) = Len(entries) /\ \A i \in 1..Len(g[n].files) : g[n].files[i] = entries[i]
  <2>1. g[n].files \in Seq(Entry)
    BY <1>24 DEF Reads
  <2>2. Len(g[n].files) = n /\ \A i \in 1..n : g[n].files[i] = entries[i]
    BY <1>16 DEF Read
  <2>3. QED BY <2>1, <2>2 DEF n
<1>26. g[n].files = entries
  BY <1>25, SameSeq
<1>27. QED BY <1>8, <1>23, <1>26 DEF parts

Keeping(f, parts) ==
  f = [k \in 0..Len(parts) |-> IF k = 0 THEN <<>>
                               ELSE IF parts[k] = "" THEN f[k - 1]
                               ELSE Append(f[k - 1], parts[k])]

\* So is every path it does not track.
LEMMA ListBack ==
  ASSUME NEW untracked \in Seq(Paths)
  PROVE  ParseZList(Append(untracked, "")) = untracked
<1> DEFINE n == Len(untracked)
           parts == Append(untracked, Stop)
           State == Seq(Token)
           Keep(s, k) == IF parts[k] = Stop THEN s ELSE Append(s, parts[k])
           step == [k \in 1..(n + 1) |-> [s \in State |-> Keep(s, k)]]
           g == CHOOSE f : Keeping(f, parts)
<1>1. n \in Nat /\ n + 1 \in Nat /\ Len(parts) = n + 1 /\ parts[n + 1] = Stop
      /\ \A k \in 1..n : parts[k] = untracked[k] /\ untracked[k] \in Paths
  OBVIOUS
<1>2. \A k \in 1..n : parts[k] # Stop /\ parts[k] \in Token
  BY <1>1, StopsApart DEF Token
<1>3. ParseZList(parts) = g[n + 1]
  BY <1>1, Zenon DEF ParseZList, Keeping
<1> HIDE DEF parts, n
<1>4. \A k \in 1..(n + 1) : \A s \in State : Keep(s, k) \in State
  <2> SUFFICES ASSUME NEW k \in 1..(n + 1), NEW s \in State PROVE Keep(s, k) \in State
    OBVIOUS
  <2>1. CASE parts[k] = Stop
    BY <2>1
  <2>2. CASE parts[k] # Stop
    <3>1. k \in 1..n
      BY <1>1, <2>2
    <3>2. parts[k] \in Token
      BY <1>2, <3>1
    <3>3. QED BY <2>2, <3>2
  <2>3. QED BY <2>1, <2>2
<1>5. <<>> \in State
  OBVIOUS
<1> HIDE DEF State, Keep
<1>6. /\ step \in [1..(n + 1) -> [State -> State]]
      /\ \A k \in 1..(n + 1) : \A s \in State : step[k][s] = Keep(s, k)
  BY <1>4
<1> HIDE DEF step, g
<1>7. PICK f : History(f, n + 1, State, <<>>, step)
  BY <1>1, <1>5, <1>6, LoopExists
<1>8. \A k \in 1..(n + 1) : k - 1 \in 0..(n + 1) /\ f[k] = Keep(f[k - 1], k)
  BY <1>1, <1>6, <1>7 DEF History
<1>9. f = [k \in 0..(n + 1) |-> IF k = 0 THEN <<>> ELSE Keep(f[k - 1], k)]
  BY <1>1, <1>7, <1>8 DEF History
<1>10. Keeping(f, parts)
  <2>1. f = [k \in 0..Len(parts) |-> IF k = 0 THEN <<>>
                                     ELSE IF parts[k] = Stop THEN f[k - 1]
                                     ELSE Append(f[k - 1], parts[k])]
    BY <1>1, <1>9 DEF Keep
  <2>2. QED BY <2>1, Zenon DEF Keeping, Stop
<1>11. Keeping(g, parts)
  BY <1>10, Zenon DEF g
<1>12. g = [k \in 0..(n + 1) |-> IF k = 0 THEN <<>> ELSE Keep(g[k - 1], k)]
  <2>1. g = [k \in 0..Len(parts) |-> IF k = 0 THEN <<>>
                                     ELSE IF parts[k] = Stop THEN g[k - 1]
                                     ELSE Append(g[k - 1], parts[k])]
    BY <1>11, Zenon DEF Keeping, Stop
  <2>2. QED BY <1>1, <2>1 DEF Keep
<1>13. g[0] = <<>> /\ \A k \in 1..(n + 1) : g[k] = Keep(g[k - 1], k)
  BY <1>1, <1>12
<1>14. Follows(g, n + 1, State, <<>>, step)
  BY <1>6, <1>13 DEF Follows
<1>15. \A k \in 0..(n + 1) : g[k] \in State
  BY <1>1, <1>5, <1>6, <1>14, LoopStays
<1> DEFINE Same(k) == Len(g[k]) = k /\ \A i \in 1..k : g[k][i] = untracked[i]
           S == {k \in 0..n : Same(k)}
<1>16. 0 \in S
  BY <1>1, <1>13
<1>17. ASSUME NEW k \in 0..(n - 1), k \in S PROVE k + 1 \in S
  <2>1. k + 1 \in 1..n /\ (k + 1) - 1 = k /\ k \in 0..(n + 1) /\ k + 1 \in 0..n /\ k + 1 \in 1..(n + 1) /\ k \in Nat
    BY <1>1
  <2>2. g[k + 1] = Keep(g[k], k + 1)
    BY <1>13, <2>1
  <2>3. parts[k + 1] # Stop /\ parts[k + 1] = untracked[k + 1]
    BY <1>1, <1>2, <2>1
  <2>4. g[k + 1] = Append(g[k], untracked[k + 1])
    BY <2>2, <2>3 DEF Keep
  <2> DEFINE s == g[k]
             x == untracked[k + 1]
  <2>5. s \in Seq(Token) /\ Len(s) = k /\ \A i \in 1..k : s[i] = untracked[i]
    BY <1>15, <1>17, <2>1 DEF State
  <2> HIDE DEF s, x
  <2>6. Len(Append(s, x)) = k + 1 /\ Append(s, x)[k + 1] = x /\ \A i \in 1..k : Append(s, x)[i] = s[i]
    BY <2>1, <2>5
  <2>7. Same(k + 1)
    BY <2>1, <2>4, <2>5, <2>6 DEF s, x
  <2>8. QED BY <2>1, <2>7
<1> HIDE DEF S
<1>18. \A k \in 0..(n - 1) : k \in S => k + 1 \in S
  BY <1>17
<1>19. \A k \in 0..n : k \in S
  BY <1>1, <1>16, <1>18, Induction
<1>20. Same(n)
  BY <1>1, <1>19 DEF S
<1>21. g[n + 1] = g[n]
  <2>1. n + 1 \in 1..(n + 1) /\ (n + 1) - 1 = n
    BY <1>1
  <2>2. g[n + 1] = Keep(g[n], n + 1)
    BY <1>13, <2>1
  <2>3. QED BY <1>1, <2>2 DEF Keep
<1>22. g[n] = untracked
  <2>1. g[n] \in Seq(Token) /\ untracked \in Seq(Token)
    BY <1>1, <1>15 DEF State, Token
  <2>2. Len(g[n]) = Len(untracked) /\ \A i \in 1..Len(g[n]) : g[n][i] = untracked[i]
    BY <1>20 DEF n
  <2>3. QED BY <2>1, <2>2, SameSeq
<1>23. ParseZList(parts) = untracked
  BY <1>3, <1>21, <1>22
<1>24. QED BY <1>23, Zenon DEF parts, Stop

-----------------------------------------------------------------------------
(* Each path once                                                          *)

PathPlace(p) == CHOOSE i \in DOMAIN PathOrder : PathOrder[i] = p

LEMMA PathPlaces ==
  /\ \A p \in Paths : PathPlace(p) \in Nat
  /\ \A p, q \in Paths : PathPlace(p) = PathPlace(q) => p = q
<1>1. \A p \in Paths : \E i \in DOMAIN PathOrder : PathOrder[i] = p
  BY DEF Paths, ToSet
<1>2. DOMAIN PathOrder \subseteq Nat
  <2>1. PathOrder \in Seq(Paths)
    BY PathsAssumption, Zenon
  <2>2. QED BY <2>1
<1>3. \A p \in Paths : PathPlace(p) \in DOMAIN PathOrder /\ PathOrder[PathPlace(p)] = p
  BY <1>1, Zenon DEF PathPlace
<1>4. QED BY <1>2, <1>3

LEMMA PathsInOrder ==
  ASSUME NEW S, IsFiniteSet(S), NEW T, NEW s \in [1..Cardinality(S) -> T],
         \A i \in 1..Cardinality(S) :
           s[i] = CHOOSE x \in S : Cardinality({y \in S : PathBefore(y, x)}) = i - 1,
         \A x \in S : ~ (PathBefore(x, x)),
         \A x, y, z \in S : PathBefore(x, y) /\ PathBefore(y, z) => PathBefore(x, z),
         \A x, y \in S : x # y => PathBefore(x, y) \/ PathBefore(y, x)
  PROVE  Lists(s, S)
<1> DEFINE below == [x \in S |-> {y \in S : PathBefore(y, x)}]
<1>1. below \in [S -> SUBSET S] /\ \A x, y \in S : y \in below[x] <=> PathBefore(y, x)
  OBVIOUS
<1>2. \A x \in S : below[x] = {y \in S : PathBefore(y, x)}
  OBVIOUS
<1> HIDE DEF below
<1>3. StrictOrder(S, below)
  BY <1>1 DEF StrictOrder
<1>4. \A i \in 1..Cardinality(S) : \E x \in S : Cardinality(below[x]) = i - 1
  BY <1>3, Places
<1>5. \A i \in 1..Cardinality(S) : s[i] \in S /\ Cardinality({y \in S : PathBefore(y, s[i])}) = i - 1
  <2> TAKE i \in 1..Cardinality(S)
  <2> DEFINE P(x) == Cardinality({y \in S : PathBefore(y, x)}) = i - 1
  <2>1. \E x \in S : P(x)
    BY <1>2, <1>4, Zenon
  <2>2. s[i] = CHOOSE x \in S : P(x)
    OBVIOUS
  <2> HIDE DEF P
  <2>3. s[i] \in S /\ P(s[i])
    BY <2>1, <2>2, Zenon
  <2>4. QED BY <2>3 DEF P
<1>6. s \in [1..Cardinality(S) -> S]
  BY <1>5
<1>7. \A i \in 1..Cardinality(S) : Cardinality(below[s[i]]) = i - 1
  BY <1>2, <1>5
<1>8. QED BY <1>3, <1>6, <1>7, Listed, Zenon

LEMMA SortedPaths ==
  ASSUME NEW S, IsFiniteSet(S), S \subseteq Paths
  PROVE  Lists(SortBy(S, PathBefore), S)
<1>1. /\ \A x \in S : ~ PathBefore(x, x)
      /\ \A x, y, z \in S : PathBefore(x, y) /\ PathBefore(y, z) => PathBefore(x, z)
      /\ \A x, y \in S : x # y => PathBefore(x, y) \/ PathBefore(y, x)
  <2>1. \A x, y : PathBefore(x, y) <=> PathPlace(x) < PathPlace(y)
    BY Zenon DEF PathBefore, PathPlace
  <2>2. \A x \in S : PathPlace(x) \in Nat
    BY PathPlaces
  <2>3. \A x, y \in S : PathPlace(x) = PathPlace(y) => x = y
    BY PathPlaces
  <2>4. QED BY <2>1, <2>2, <2>3
<1>2. SortBy(S, PathBefore) = [i \in 1..Cardinality(S) |->
                                 CHOOSE x \in S : Cardinality({y \in S : PathBefore(y, x)}) = i - 1]
  BY DEF SortBy
<1> DEFINE s == SortBy(S, PathBefore)
           T == {s[i] : i \in 1..Cardinality(S)}
<1>3. \A i \in 1..Cardinality(S) : s[i] = CHOOSE x \in S : Cardinality({y \in S : PathBefore(y, x)}) = i - 1
  BY <1>2, Zenon
<1>4. s \in [1..Cardinality(S) -> T]
  BY <1>2
<1> HIDE DEF s, T
<1>5. Lists(s, S)
  BY <1>1, <1>3, <1>4, PathsInOrder, Zenon
<1>6. QED BY <1>5 DEF s

\* One entry of each path stays, and it is the first.
LEMMA Deduped ==
  ASSUME NEW files \in Seq(Change)
  PROVE  LET kept == DedupeSorted(files)
         IN /\ kept \in Seq(Change)
            /\ {kept[k].path : k \in DOMAIN kept} = {files[i].path : i \in DOMAIN files}
            /\ \A j, k \in DOMAIN kept : kept[j].path = kept[k].path => j = k
            /\ \A i \in DOMAIN files :
                 (\A j \in DOMAIN files : j < i => files[j].path # files[i].path)
                   => \E k \in DOMAIN kept : kept[k] = files[i]
<1> DEFINE all == {files[i].path : i \in DOMAIN files}
           paths == SortBy(all, PathBefore)
           kept == DedupeSorted(files)
           hits(k) == {i \in DOMAIN files : files[i].path = paths[k]}
           at(k) == CHOOSE i \in hits(k) : \A j \in hits(k) : i <= j
<1>1. DOMAIN files = 1..Len(files) /\ Len(files) \in Nat /\ \A i \in DOMAIN files : files[i] \in Change
  OBVIOUS
<1>2. \A i \in DOMAIN files : files[i].path \in Paths
  BY <1>1 DEF Change
<1>3. IsFiniteSet(all) /\ all \subseteq Paths
  <2> DEFINE p == [i \in 1..Len(files) |-> files[i].path]
  <2>1. p \in Seq(Paths) /\ DOMAIN p = DOMAIN files
    BY <1>1, <1>2
  <2>2. all = {p[i] : i \in DOMAIN p}
    BY <1>1, <2>1
  <2> HIDE DEF p, all
  <2>3. IsFiniteSet({p[i] : i \in DOMAIN p}) /\ {p[i] : i \in DOMAIN p} \subseteq Paths
    BY <2>1, SeqRange, Zenon
  <2>4. QED BY <2>2, <2>3
<1> HIDE DEF all
<1>4. Lists(paths, all)
  BY <1>3, SortedPaths
<1>5. kept = [k \in DOMAIN paths |-> IF hits(k) = {} THEN NoNode ELSE files[at(k)]]
  BY DEF DedupeSorted, First, all
<1> HIDE DEF kept, paths
<1>6. /\ DOMAIN paths = 1..Len(paths) /\ Len(paths) \in Nat
      /\ \A k \in DOMAIN paths : paths[k] \in all
      /\ \A p \in all : \E k \in DOMAIN paths : paths[k] = p
      /\ \A j, k \in DOMAIN paths : paths[j] = paths[k] => j = k
  BY <1>4 DEF Lists
<1>7. \A k \in DOMAIN paths : /\ at(k) \in hits(k) /\ \A j \in hits(k) : at(k) <= j
                              /\ hits(k) # {}
  <2> TAKE k \in DOMAIN paths
  <2> DEFINE h == hits(k)
  <2>1. h # {} /\ h \subseteq Nat
    BY <1>1, <1>6 DEF all
  <2> HIDE DEF h
  <2>2. \E i \in h : \A j \in h : i <= j
    BY <2>1, Least
  <2>3. QED BY <2>1, <2>2, Zenon DEF h
<1>8. \A k \in DOMAIN paths : kept[k] = files[at(k)]
  BY <1>5, <1>7
<1>9. \A k \in DOMAIN paths : at(k) \in DOMAIN files /\ files[at(k)].path = paths[k]
  BY <1>7
<1> HIDE DEF at
<1>10. \A k \in DOMAIN paths : kept[k] \in Change /\ kept[k].path = paths[k]
  BY <1>1, <1>8, <1>9
<1>11. DOMAIN kept = DOMAIN paths
  BY <1>5
<1>12. kept \in Seq(Change)
  <2>1. kept \in [1..Len(paths) -> Change]
    BY <1>5, <1>6, <1>10
  <2>2. QED BY <1>6, <2>1
<1>13. {kept[k].path : k \in DOMAIN kept} = all
  BY <1>6, <1>10, <1>11
<1>14. \A j, k \in DOMAIN kept : kept[j].path = kept[k].path => j = k
  BY <1>6, <1>10, <1>11
<1>15. ASSUME NEW i \in DOMAIN files, \A j \in DOMAIN files : j < i => files[j].path # files[i].path
       PROVE  \E k \in DOMAIN kept : kept[k] = files[i]
  <2>1. PICK k \in DOMAIN paths : paths[k] = files[i].path
    BY <1>6 DEF all
  <2>2. i \in hits(k) /\ at(k) <= i /\ at(k) \in DOMAIN files /\ files[at(k)].path = files[i].path
    BY <1>7, <1>9, <2>1
  <2>3. at(k) = i
    BY <1>1, <1>15, <2>2
  <2>4. QED BY <1>8, <1>11, <2>3
<1>16. QED BY <1>12, <1>13, <1>14, <1>15 DEF kept, all

\* What git reports is read back, each path once.
LEMMA TreeIs ==
  ASSUME NEW report, IsReport(report)
  PROVE  LET files == WorkingTree(report)
             entries == report.entries
         IN /\ files \in Seq(Change)
            /\ \A i, j \in DOMAIN files : files[i].path = files[j].path => i = j
            /\ {files[i].path : i \in DOMAIN files}
                 = {entries[i].path : i \in DOMAIN entries} \cup ToSet(report.untracked)
            /\ \A i \in DOMAIN entries : entries[i] \in ToSet(files)
<1> DEFINE entries == report.entries
           untracked == report.untracked
           diff == Tokens(entries)
           others == Append(untracked, "")
           git == [present |-> TRUE, inside |-> TRUE, base |-> FALSE, head |-> TRUE,
                   diff |-> diff, others |-> others]
           added == [i \in DOMAIN untracked |-> [path |-> untracked[i], status |-> "A", old |-> NoNode]]
           files == WorkingTree(report)
<1>1. /\ entries \in Seq(Change) /\ untracked \in Seq(Paths)
      /\ \A i, j \in DOMAIN entries : entries[i].path = entries[j].path => i = j
  BY DEF IsReport
<1>2. ParseNameStatusZ(diff) = entries /\ ParseZList(others) = untracked
  BY <1>1, ReadBack, ListBack, Zenon
<1>3. diff # Failed /\ others # Failed
  <2>1. Failed \notin Seq(Token)
    BY PathsAssumption, Zenon DEF Token, Stop
  <2>2. diff \in Seq(Token)
    <3>1. PICK f : f \in [0..Len(entries) -> Seq(Token)] /\ diff = Append(f[Len(entries)], Stop)
      BY <1>1, Prints, Zenon
    <3>2. Len(entries) \in 0..Len(entries)
      BY <1>1
    <3>3. f[Len(entries)] \in Seq(Token)
      BY <3>1, <3>2
    <3> HIDE DEF diff
    <3>4. QED BY <3>1, <3>3, StopsApart
  <2>3. others \in Seq(Token)
    <3>1. untracked \in Seq(Token)
      BY <1>1 DEF Token
    <3>2. others = Append(untracked, Stop)
      BY Zenon DEF Stop
    <3> HIDE DEF others, untracked
    <3>3. QED BY <3>1, <3>2, StopsApart
  <2>4. QED BY <2>1, <2>2, <2>3, Zenon
<1>4. files = GitChangedFiles(git, FALSE, TRUE).files
  BY Zenon DEF WorkingTree
<1> HIDE DEF diff, others
<1>5. /\ git.present /\ git.inside /\ git.base = FALSE /\ git.head /\ git.diff = diff /\ git.others = others
  OBVIOUS
<1> HIDE DEF git, entries, untracked, files
<1>6. GitChangedFiles(git, FALSE, TRUE) = [error |-> NoNode, files |-> DedupeSorted(entries \o added)]
  BY <1>2, <1>3, <1>5 DEF GitChangedFiles
<1>7. files = DedupeSorted(entries \o added)
  <2> DEFINE d == DedupeSorted(entries \o added)
             answer == GitChangedFiles(git, FALSE, TRUE)
  <2>1. answer = [error |-> NoNode, files |-> d] /\ files = answer.files
    BY <1>4, <1>6, Zenon
  <2> HIDE DEF d, answer
  <2>2. files = d
    BY <2>1
  <2>3. QED BY <2>2 DEF d
<1>8. added \in Seq(Change) /\ Len(added) = Len(untracked) /\ DOMAIN added = 1..Len(untracked)
      /\ \A i \in 1..Len(untracked) : added[i].path = untracked[i]
  <2>1. DOMAIN untracked = 1..Len(untracked) /\ Len(untracked) \in Nat
        /\ \A i \in DOMAIN untracked : untracked[i] \in Paths
    BY <1>1
  <2>2. \A p \in Paths : [path |-> p, status |-> "A", old |-> NoNode] \in Change
    BY DEF Change, Letters
  <2> HIDE DEF untracked
  <2>3. QED BY <2>1, <2>2
<1> DEFINE all == entries \o added
           n == Len(entries)
           m == Len(untracked)
<1>9. n \in Nat /\ m \in Nat /\ DOMAIN entries = 1..n /\ DOMAIN untracked = 1..m
  BY <1>1
<1> HIDE DEF added
<1>10. Len(added) = m
  BY <1>8
<1>11. all \in Seq(Change) /\ Len(all) = n + m
  BY <1>1, <1>8, <1>10
<1>12. \A i \in 1..n : all[i] = entries[i]
  BY <1>1, <1>8
<1>13. \A i \in 1..m : all[n + i] = added[i]
  BY <1>1, <1>8
<1> HIDE DEF all, n, m
<1>14. DOMAIN all = 1..(n + m)
  BY <1>11
<1>15. {all[i].path : i \in DOMAIN all} = {entries[i].path : i \in DOMAIN entries} \cup ToSet(untracked)
  <2>1. ASSUME NEW i \in DOMAIN all
        PROVE  all[i].path \in {entries[j].path : j \in DOMAIN entries} \cup ToSet(untracked)
    <3>1. CASE i <= n
      BY <1>9, <1>12, <1>14, <3>1
    <3>2. CASE i > n
      <4>1. i - n \in 1..m /\ n + (i - n) = i
        BY <1>9, <1>14, <3>2
      <4>2. all[i].path = untracked[i - n]
        BY <1>8, <1>13, <4>1 DEF m
      <4>3. QED BY <1>9, <4>1, <4>2 DEF ToSet
    <3>3. QED BY <1>9, <1>14, <3>1, <3>2
  <2>2. ASSUME NEW j \in DOMAIN entries PROVE \E i \in DOMAIN all : all[i].path = entries[j].path
    BY <1>9, <1>12, <1>14
  <2>3. ASSUME NEW j \in DOMAIN untracked PROVE \E i \in DOMAIN all : all[i].path = untracked[j]
    <3>1. n + j \in DOMAIN all /\ all[n + j].path = untracked[j]
      BY <1>8, <1>9, <1>13, <1>14 DEF m
    <3>2. QED BY <3>1
  <2>4. \A p \in ToSet(untracked) : \E j \in DOMAIN untracked : p = untracked[j]
    BY DEF ToSet
  <2>5. QED BY <2>1, <2>2, <2>3, <2>4
<1>16. /\ files \in Seq(Change)
       /\ {files[k].path : k \in DOMAIN files} = {all[i].path : i \in DOMAIN all}
       /\ \A j, k \in DOMAIN files : files[j].path = files[k].path => j = k
       /\ \A i \in DOMAIN all : (\A j \in DOMAIN all : j < i => all[j].path # all[i].path)
                                  => \E k \in DOMAIN files : files[k] = all[i]
  <2>1. files = DedupeSorted(all)
    BY <1>7 DEF all
  <2> DEFINE kept == DedupeSorted(all)
  <2>2. /\ kept \in Seq(Change)
        /\ {kept[k].path : k \in DOMAIN kept} = {all[i].path : i \in DOMAIN all}
        /\ \A j, k \in DOMAIN kept : kept[j].path = kept[k].path => j = k
        /\ \A i \in DOMAIN all : (\A j \in DOMAIN all : j < i => all[j].path # all[i].path)
                                   => \E k \in DOMAIN kept : kept[k] = all[i]
    BY <1>11, Deduped
  <2>3. files = kept
    BY <2>1
  <2> HIDE DEF kept
  <2>4. QED BY <2>2, <2>3
<1>17. ASSUME NEW i \in DOMAIN entries PROVE entries[i] \in ToSet(files)
  <2>1. i \in DOMAIN all /\ all[i] = entries[i] /\ i \in 1..n
    BY <1>9, <1>12, <1>14
  <2>2. ASSUME NEW j \in DOMAIN all, j < i PROVE all[j].path # all[i].path
    <3>1. j \in 1..n
      BY <1>9, <1>14, <2>1, <2>2
    <3>2. all[j] = entries[j] /\ j # i
      BY <1>9, <1>12, <2>2, <3>1
    <3>3. QED BY <1>1, <1>9, <2>1, <3>1, <3>2
  <2>3. \E k \in DOMAIN files : files[k] = entries[i]
    BY <1>16, <2>1, <2>2
  <2>4. QED BY <2>3 DEF ToSet
<1>18. QED BY <1>15, <1>16, <1>17 DEF files, entries, untracked

-----------------------------------------------------------------------------
(* The nodes a change concerns                                             *)

LEMMA FilesInOrder ==
  ASSUME NEW S, IsFiniteSet(S), NEW T, NEW s \in [1..Cardinality(S) -> T],
         \A i \in 1..Cardinality(S) :
           s[i] = CHOOSE x \in S : Cardinality({y \in S : FileBefore(y, x)}) = i - 1,
         \A x \in S : ~ (FileBefore(x, x)),
         \A x, y, z \in S : FileBefore(x, y) /\ FileBefore(y, z) => FileBefore(x, z),
         \A x, y \in S : x # y => FileBefore(x, y) \/ FileBefore(y, x)
  PROVE  Lists(s, S)
<1> DEFINE below == [x \in S |-> {y \in S : FileBefore(y, x)}]
<1>1. below \in [S -> SUBSET S] /\ \A x, y \in S : y \in below[x] <=> FileBefore(y, x)
  OBVIOUS
<1>2. \A x \in S : below[x] = {y \in S : FileBefore(y, x)}
  OBVIOUS
<1> HIDE DEF below
<1>3. StrictOrder(S, below)
  BY <1>1 DEF StrictOrder
<1>4. \A i \in 1..Cardinality(S) : \E x \in S : Cardinality(below[x]) = i - 1
  BY <1>3, Places
<1>5. \A i \in 1..Cardinality(S) : s[i] \in S /\ Cardinality({y \in S : FileBefore(y, s[i])}) = i - 1
  <2> TAKE i \in 1..Cardinality(S)
  <2> DEFINE P(x) == Cardinality({y \in S : FileBefore(y, x)}) = i - 1
  <2>1. \E x \in S : P(x)
    BY <1>2, <1>4, Zenon
  <2>2. s[i] = CHOOSE x \in S : P(x)
    OBVIOUS
  <2> HIDE DEF P
  <2>3. s[i] \in S /\ P(s[i])
    BY <2>1, <2>2, Zenon
  <2>4. QED BY <2>3 DEF P
<1>6. s \in [1..Cardinality(S) -> S]
  BY <1>5
<1>7. \A i \in 1..Cardinality(S) : Cardinality(below[s[i]]) = i - 1
  BY <1>2, <1>5
<1>8. QED BY <1>3, <1>6, <1>7, Listed, Zenon

LEMMA SortedByFile ==
  ASSUME NEW S, IsFiniteSet(S), S \subseteq Ids
  PROVE  Lists(SortBy(S, FileBefore), S)
<1>1. /\ \A x \in S : ~ FileBefore(x, x)
      /\ \A x, y, z \in S : FileBefore(x, y) /\ FileBefore(y, z) => FileBefore(x, z)
      /\ \A x, y \in S : x # y => FileBefore(x, y) \/ FileBefore(y, x)
  <2>1. \A x \in S : x \in Nat
    BY IdsAssumption
  <2>2. QED BY <2>1 DEF FileBefore
<1>2. SortBy(S, FileBefore) = [i \in 1..Cardinality(S) |->
                                 CHOOSE x \in S : Cardinality({y \in S : FileBefore(y, x)}) = i - 1]
  BY DEF SortBy
<1> DEFINE s == SortBy(S, FileBefore)
           T == {s[i] : i \in 1..Cardinality(S)}
<1>3. \A i \in 1..Cardinality(S) : s[i] = CHOOSE x \in S : Cardinality({y \in S : FileBefore(y, x)}) = i - 1
  BY <1>2, Zenon
<1>4. s \in [1..Cardinality(S) -> T]
  BY <1>2
<1> HIDE DEF s, T
<1>5. Lists(s, S)
  BY <1>1, <1>3, <1>4, FilesInOrder, Zenon
<1>6. QED BY <1>5 DEF s

LEMMA JoinedSet ==
  ASSUME NEW T, NEW a \in Seq(T), NEW b \in Seq(T)
  PROVE  a \o b \in Seq(T) /\ ToSet(a \o b) = ToSet(a) \cup ToSet(b)
<1>1. a \o b \in Seq(T) /\ Len(a \o b) = Len(a) + Len(b) /\ Len(a) \in Nat /\ Len(b) \in Nat
  OBVIOUS
<1>2. DOMAIN a = 1..Len(a) /\ DOMAIN b = 1..Len(b) /\ DOMAIN (a \o b) = 1..(Len(a) + Len(b))
  OBVIOUS
<1>3. \A i \in 1..Len(a) : (a \o b)[i] = a[i]
  OBVIOUS
<1>4. \A i \in 1..Len(b) : (a \o b)[Len(a) + i] = b[i]
  OBVIOUS
<1> DEFINE c == a \o b
<1>5. DOMAIN c = 1..(Len(a) + Len(b)) /\ (\A i \in 1..Len(a) : c[i] = a[i])
      /\ \A i \in 1..Len(b) : c[Len(a) + i] = b[i]
  BY <1>2, <1>3, <1>4
<1> HIDE DEF c
<1>6. \A i \in DOMAIN c : c[i] \in ToSet(a) \cup ToSet(b)
  <2> TAKE i \in DOMAIN c
  <2>1. CASE i <= Len(a)
    BY <1>1, <1>2, <1>5, <2>1 DEF ToSet
  <2>2. CASE i > Len(a)
    <3>1. i - Len(a) \in 1..Len(b) /\ Len(a) + (i - Len(a)) = i
      BY <1>1, <1>5, <2>2
    <3>2. c[i] = b[i - Len(a)]
      BY <1>5, <3>1
    <3>3. QED BY <1>2, <3>1, <3>2 DEF ToSet
  <2>3. QED BY <1>1, <1>5, <2>1, <2>2
<1>7. \A i \in DOMAIN a : \E j \in DOMAIN c : c[j] = a[i]
  BY <1>1, <1>2, <1>5
<1>8. \A i \in DOMAIN b : \E j \in DOMAIN c : c[j] = b[i]
  <2> TAKE i \in DOMAIN b
  <2>1. Len(a) + i \in DOMAIN c /\ c[Len(a) + i] = b[i]
    BY <1>1, <1>2, <1>5
  <2>2. QED BY <2>1
<1>9. ToSet(c) = ToSet(a) \cup ToSet(b)
  BY <1>6, <1>7, <1>8 DEF ToSet
<1>10. QED BY <1>1, <1>9 DEF c

\* What the program looks up is what the change concerns.
LEMMA HitIs ==
  ASSUME GraphTyped, NEW f \in Change
  PROVE  Hit(graph, f) = Concerned(f) /\ Hit(graph, f) \subseteq Ids
<1>1. graph.ids = Ids
  BY GraphSets
<1>2. f.old = NoNode => \A n \in Ids : Info[n].path # f.old
  <2>1. \A n \in Ids : Info[n].path # NoNode
    BY PathsAssumption, Zenon
  <2>2. QED BY <2>1
<1>3. QED BY <1>1, <1>2 DEF Hit, Lookup, Concerned

Entering(f, files) ==
  f = [k \in 0..Len(files) |->
         IF k = 0 THEN <<>> ELSE f[k - 1] \o SortBy(Hit(graph, files[k]) \ ToSet(f[k - 1]), FileBefore)]

LEMMA SeedsAre ==
  ASSUME GraphTyped, NEW files \in Seq(Change)
  PROVE  /\ SeedList(graph, files) \in Seq(Ids)
         /\ ToSet(SeedList(graph, files)) = UNION {Concerned(files[i]) : i \in DOMAIN files}
<1> DEFINE n == Len(files)
           State == Seq(Ids)
           New(s, k) == SortBy(Hit(graph, files[k]) \ ToSet(s), FileBefore)
           More(s, k) == s \o New(s, k)
           step == [k \in 1..n |-> [s \in State |-> More(s, k)]]
           g == CHOOSE f : Entering(f, files)
<1>1. n \in Nat /\ DOMAIN files = 1..n /\ \A k \in 1..n : files[k] \in Change
  OBVIOUS
<1>2. SeedList(graph, files) = g[n]
  BY DEF SeedList, Entering
<1> HIDE DEF n
<1>3. ASSUME NEW k \in 1..n, NEW s \in State
      PROVE  More(s, k) \in State /\ ToSet(More(s, k)) = ToSet(s) \cup Hit(graph, files[k])
  <2> DEFINE H == Hit(graph, files[k])
             S == H \ ToSet(s)
             t == SortBy(S, FileBefore)
  <2>1. H \subseteq Ids
    BY <1>1, HitIs
  <2> HIDE DEF H
  <2>2. S \subseteq Ids /\ IsFiniteSet(S)
    <3>1. S \subseteq Ids
      BY <2>1
    <3>2. QED BY <3>1, IdsAssumption, FS_Subset
  <2> HIDE DEF S
  <2>3. Lists(t, S)
    BY <2>2, SortedByFile
  <2> HIDE DEF t
  <2>4. t \in Seq(Ids) /\ ToSet(t) = S
    BY <2>2, <2>3 DEF Lists, ToSet
  <2>5. s \o t \in Seq(Ids) /\ ToSet(s \o t) = ToSet(s) \cup ToSet(t)
    BY <2>4, JoinedSet
  <2>6. More(s, k) = s \o t
    BY DEF t, S, H
  <2> HIDE DEF More, New
  <2>7. QED BY <2>4, <2>5, <2>6 DEF S, H
<1>4. <<>> \in State /\ ToSet(<<>>) = {}
  BY DEF ToSet
<1> HIDE DEF State, More, New
<1>5. step \in [1..n -> [State -> State]] /\ \A k \in 1..n : \A s \in State : step[k][s] = More(s, k)
  BY <1>3
<1> HIDE DEF step, g
<1>6. PICK f : History(f, n, State, <<>>, step)
  BY <1>1, <1>4, <1>5, LoopExists
<1>7. \A k \in 1..n : k - 1 \in 0..n /\ f[k] = More(f[k - 1], k)
  BY <1>1, <1>5, <1>6 DEF History
<1>8. f = [k \in 0..n |-> IF k = 0 THEN <<>> ELSE More(f[k - 1], k)]
  BY <1>1, <1>6, <1>7 DEF History
<1>9. Entering(f, files)
  BY <1>8 DEF Entering, More, New, n
<1>10. Entering(g, files)
  BY <1>9, Zenon DEF g
<1>11. g = [k \in 0..n |-> IF k = 0 THEN <<>> ELSE More(g[k - 1], k)]
  BY <1>10 DEF Entering, More, New, n
<1>12. g[0] = <<>> /\ \A k \in 1..n : g[k] = More(g[k - 1], k)
  BY <1>1, <1>11
<1>13. Follows(g, n, State, <<>>, step)
  BY <1>5, <1>12 DEF Follows
<1>14. \A k \in 0..n : g[k] \in State
  BY <1>1, <1>4, <1>5, <1>13, LoopStays
<1> DEFINE So(k) == UNION {Hit(graph, files[i]) : i \in 1..k}
           S == {k \in 0..n : ToSet(g[k]) = So(k)}
<1>15. 0 \in S
  <2>1. 1..0 = {}
    OBVIOUS
  <2>2. QED BY <1>1, <1>4, <1>12, <2>1
<1>16. ASSUME NEW k \in 0..(n - 1), k \in S PROVE k + 1 \in S
  <2>1. k + 1 \in 1..n /\ (k + 1) - 1 = k /\ k \in 0..n /\ k + 1 \in 0..n /\ 1..(k + 1) = 1..k \cup {k + 1}
    BY <1>1
  <2>2. ToSet(g[k + 1]) = ToSet(g[k]) \cup Hit(graph, files[k + 1])
    BY <1>3, <1>12, <1>14, <2>1
  <2>3. ToSet(g[k]) = So(k)
    BY <1>16
  <2>4. So(k + 1) = So(k) \cup Hit(graph, files[k + 1])
    BY <2>1
  <2>5. QED BY <2>1, <2>2, <2>3, <2>4
<1> HIDE DEF S
<1>17. \A k \in 0..(n - 1) : k \in S => k + 1 \in S
  BY <1>16
<1>18. \A k \in 0..n : k \in S
  BY <1>1, <1>15, <1>17, Induction
<1>19. ToSet(g[n]) = So(n)
  BY <1>1, <1>18 DEF S
<1>20. So(n) = UNION {Concerned(files[i]) : i \in DOMAIN files}
  <2>1. \A i \in 1..n : Hit(graph, files[i]) = Concerned(files[i])
    BY <1>1, HitIs
  <2>2. QED BY <1>1, <2>1
<1>21. g[n] \in Seq(Ids)
  BY <1>1, <1>14 DEF State
<1>22. QED BY <1>2, <1>19, <1>20, <1>21

-----------------------------------------------------------------------------
(* The flags                                                               *)

Kinds == {"auth", "tenant-isolation", "data-write", "referential-integrity", "schema"}
Risk == [level : {"high", "medium"}, kind : Kinds, node : Ids \cup {NoNode}]

All(s, level) == s \in Seq(Risk) /\ \A i \in DOMAIN s : s[i].level = level

\* The high flags, then the medium ones.
Graded(s) ==
  /\ s \in Seq(Risk)
  /\ \E h \in 0..Len(s) : \A i \in DOMAIN s : s[i].level = IF i <= h THEN "high" ELSE "medium"

LEMMA FlagIs ==
  ASSUME NEW scope \in Seq(Ids), NEW nodes, NEW level \in {"high", "medium"}, NEW kind \in Kinds
  PROVE  All(Flag(level, kind, scope, nodes), level)
<1> DEFINE hits == {i \in DOMAIN scope : scope[i] \in nodes}
           at == CHOOSE i \in hits : \A j \in hits : i <= j
           first == First(scope, LAMBDA n : n \in nodes)
           flag == Flag(level, kind, scope, nodes)
<1>1. CASE nodes \cap ToSet(scope) = {}
  <2>1. flag = <<>>
    BY <1>1 DEF Flag
  <2>2. QED BY <2>1 DEF All
<1>2. CASE nodes \cap ToSet(scope) # {}
  <2>1. hits # {} /\ hits \subseteq Nat /\ hits \subseteq DOMAIN scope
    BY <1>2 DEF ToSet
  <2>2. first = scope[at]
    BY <2>1 DEF First
  <2>3. at \in hits
    <3> HIDE DEF hits
    <3>1. QED BY <2>1, FirstPlace
  <2>4. first \in Ids
    BY <2>1, <2>2, <2>3
  <2>5. flag = <<[level |-> level, kind |-> kind, node |-> first]>>
    BY <1>2 DEF Flag
  <2> HIDE DEF flag, first
  <2> DEFINE x == [level |-> level, kind |-> kind, node |-> first]
  <2>6. x \in Risk /\ x.level = level /\ flag = <<x>>
    BY <2>4, <2>5 DEF Risk
  <2> HIDE DEF x
  <2>7. All(flag, level)
    BY <2>6 DEF All
  <2>8. QED BY <2>7 DEF flag
<1>3. QED BY <1>1, <1>2

LEMMA HighFirst ==
  ASSUME NEW a, NEW b, All(a, "high"), All(b, "high")
  PROVE  Graded(a \o b)
<1> DEFINE c == a \o b
<1>1. a \in Seq(Risk) /\ b \in Seq(Risk)
  BY DEF All
<1>2. c \in Seq(Risk) /\ ToSet(c) = ToSet(a) \cup ToSet(b)
  BY <1>1, JoinedSet
<1>3. \A x \in ToSet(a) \cup ToSet(b) : x.level = "high"
  BY DEF All, ToSet
<1> HIDE DEF c
<1>4. \A i \in DOMAIN c : c[i] \in ToSet(c) /\ i <= Len(c)
  BY <1>2 DEF ToSet
<1>5. Len(c) \in 0..Len(c)
  BY <1>2
<1>6. \A i \in DOMAIN c : c[i].level = IF i <= Len(c) THEN "high" ELSE "medium"
  BY <1>2, <1>3, <1>4
<1>7. Graded(c)
  BY <1>2, <1>5, <1>6 DEF Graded
<1>8. QED BY <1>7 DEF c

LEMMA MediumAfter ==
  ASSUME NEW a, NEW b, Graded(a), All(b, "medium")
  PROVE  Graded(a \o b)
<1> DEFINE c == a \o b
<1>1. a \in Seq(Risk) /\ b \in Seq(Risk)
  BY DEF All, Graded
<1>2. PICK h \in 0..Len(a) : \A i \in DOMAIN a : a[i].level = IF i <= h THEN "high" ELSE "medium"
  BY DEF Graded
<1>3. /\ c \in Seq(Risk) /\ Len(c) = Len(a) + Len(b) /\ Len(a) \in Nat /\ Len(b) \in Nat
      /\ DOMAIN a = 1..Len(a) /\ DOMAIN b = 1..Len(b) /\ DOMAIN c = 1..(Len(a) + Len(b))
  BY <1>1
<1>4. \A i \in 1..Len(a) : c[i] = a[i]
  BY <1>1
<1>5. \A i \in 1..Len(b) : c[Len(a) + i] = b[i]
  BY <1>1
<1> HIDE DEF c
<1>6. h \in 0..Len(c)
  BY <1>3
<1>7. ASSUME NEW i \in DOMAIN c PROVE c[i].level = IF i <= h THEN "high" ELSE "medium"
  <2>1. CASE i <= Len(a)
    BY <1>2, <1>3, <1>4, <2>1
  <2>2. CASE i > Len(a)
    <3>1. i - Len(a) \in 1..Len(b) /\ Len(a) + (i - Len(a)) = i /\ ~(i <= h)
      BY <1>3, <2>2
    <3>2. c[i] = b[i - Len(a)] /\ b[i - Len(a)].level = "medium"
      BY <1>3, <1>5, <3>1 DEF All
    <3>3. QED BY <3>1, <3>2
  <2>3. QED BY <1>3, <2>1, <2>2
<1>8. Graded(c)
  BY <1>3, <1>6, <1>7 DEF Graded
<1>9. QED BY <1>8 DEF c

LEMMA RisksAre ==
  ASSUME GraphTyped, NEW scope \in Seq(Ids)
  PROVE  LET risks == ScoreRisks(graph, scope)
         IN /\ risks \in Seq(Risk)
            /\ \A e \in EdgesOf(graph) :
                 e.type = "references" /\ {Info[e.from].type, Info[e.to].type} = {"table"}
                   /\ {e.from, e.to} \subseteq ToSet(scope)
                 => \E i \in DOMAIN risks : risks[i].kind = "referential-integrity" /\ risks[i].node = e.from
            /\ \A i, j \in DOMAIN risks : risks[i].level = "high" /\ risks[j].level = "medium" => i < j
<1> DEFINE codeish == {n \in ToSet(scope) \cap graph.ids : Info[n].layer \in {"code", "data"}}
           keys == ForeignKeys(graph, ToSet(scope))
           K == {e \in EdgesOf(graph) : /\ e.type = "references" /\ {e.from, e.to} \subseteq ToSet(scope)
                                        /\ {Info[e.from].type, Info[e.to].type} = {"table"}}
           auth == Flag("high", "auth", scope, {n \in codeish : Info[n].auth})
           tenant == Flag("high", "tenant-isolation", scope, {n \in codeish : Info[n].tenant})
           writes == Flag("medium", "data-write", scope,
                          {n \in codeish : Info[n].type \in {"function", "route"} /\ Info[n].writes})
           foreign == [i \in DOMAIN keys |-> [level |-> "medium", kind |-> "referential-integrity",
                                              node |-> keys[i].from]]
           schema == IF \E n \in codeish : Info[n].type \in {"table", "migration"}
                     THEN <<[level |-> "medium", kind |-> "schema", node |-> NoNode]>> ELSE <<>>
           risks == ScoreRisks(graph, scope)
<1>1. risks = auth \o tenant \o writes \o foreign \o schema
  BY DEF ScoreRisks
<1>2. All(auth, "high") /\ All(tenant, "high") /\ All(writes, "medium")
  BY FlagIs DEF Kinds
<1>3. K \subseteq Edge /\ IsFiniteSet(K)
  <2>1. K \in SUBSET EdgesOf(graph)
    OBVIOUS
  <2> HIDE DEF K
  <2>2. QED BY <2>1, GraphSets, FS_Subset
<1>4. Lists(keys, K)
  <2>1. keys = SortedEdges(K)
    BY DEF ForeignKeys
  <2> HIDE DEF K
  <2>2. QED BY <1>3, <2>1, SortedEdgeLists
<1> HIDE DEF K, keys
<1>5. /\ DOMAIN keys = 1..Len(keys) /\ Len(keys) \in Nat /\ (\A i \in DOMAIN keys : keys[i].from \in Ids)
      /\ \A e \in K : \E i \in DOMAIN keys : keys[i] = e
  BY <1>3, <1>4, EdgeFields DEF Lists
<1>6. All(foreign, "medium")
  <2>1. \A i \in 1..Len(keys) : foreign[i] \in Risk /\ foreign[i].level = "medium"
    BY <1>5 DEF Risk, Kinds
  <2>2. foreign \in [1..Len(keys) -> Risk]
    BY <1>5, <2>1
  <2>3. foreign \in Seq(Risk) /\ DOMAIN foreign = 1..Len(keys)
    BY <1>5, <2>2
  <2> HIDE DEF foreign
  <2>4. QED BY <2>1, <2>3 DEF All
<1>7. All(schema, "medium")
  <2> DEFINE x == [level |-> "medium", kind |-> "schema", node |-> NoNode]
  <2>1. x \in Risk /\ x.level = "medium"
    BY DEF Risk, Kinds
  <2>2. schema = <<x>> \/ schema = <<>>
    OBVIOUS
  <2> HIDE DEF x, schema
  <2>3. All(<<x>>, "medium")
    BY <2>1 DEF All
  <2>4. All(<<>>, "medium")
    BY DEF All
  <2>5. QED BY <2>2, <2>3, <2>4
<1>8. \A e \in K : \E x \in ToSet(foreign) : x.kind = "referential-integrity" /\ x.node = e.from
  <2> TAKE e \in K
  <2>1. PICK i \in DOMAIN keys : keys[i] = e
    BY <1>5
  <2>2. foreign[i].kind = "referential-integrity" /\ foreign[i].node = e.from /\ i \in DOMAIN foreign
    BY <2>1
  <2> HIDE DEF foreign
  <2>3. QED BY <2>2 DEF ToSet
<1> HIDE DEF auth, tenant, writes, foreign, schema, risks
<1> DEFINE a == auth \o tenant
           b == a \o writes
           c == b \o foreign
           d == c \o schema
<1>9. Graded(a)
  BY <1>2, HighFirst
<1> HIDE DEF a
<1>10. Graded(b)
  BY <1>2, <1>9, MediumAfter
<1> HIDE DEF b
<1>11. Graded(c) /\ ToSet(foreign) \subseteq ToSet(c)
  <2>1. b \in Seq(Risk) /\ foreign \in Seq(Risk)
    BY <1>6, <1>10 DEF Graded, All
  <2>2. ToSet(c) = ToSet(b) \cup ToSet(foreign)
    BY <2>1, JoinedSet
  <2>3. QED BY <1>6, <1>10, <2>2, MediumAfter
<1> HIDE DEF c
<1>12. Graded(d) /\ ToSet(foreign) \subseteq ToSet(d)
  <2>1. c \in Seq(Risk) /\ schema \in Seq(Risk)
    BY <1>7, <1>11 DEF Graded, All
  <2>2. ToSet(d) = ToSet(c) \cup ToSet(schema)
    BY <2>1, JoinedSet
  <2>3. QED BY <1>7, <1>11, <2>2, MediumAfter
<1>13. risks = d
  BY <1>1 DEF a, b, c
<1> HIDE DEF d
<1>14. risks \in Seq(Risk)
  BY <1>12, <1>13 DEF Graded
<1>15. \A e \in K : \E i \in DOMAIN risks : risks[i].kind = "referential-integrity" /\ risks[i].node = e.from
  <2> TAKE e \in K
  <2>1. PICK x \in ToSet(foreign) : x.kind = "referential-integrity" /\ x.node = e.from
    BY <1>8
  <2>2. \E i \in DOMAIN risks : risks[i] = x
    BY <1>12, <1>13, <2>1 DEF ToSet
  <2>3. QED BY <2>1, <2>2
<1>16. \A e \in EdgesOf(graph) :
         e.type = "references" /\ {Info[e.from].type, Info[e.to].type} = {"table"}
           /\ {e.from, e.to} \subseteq ToSet(scope) => e \in K
  BY DEF K
<1>17. ASSUME NEW i \in DOMAIN risks, NEW j \in DOMAIN risks,
              risks[i].level = "high", risks[j].level = "medium"
       PROVE  i < j
  <2>1. PICK h \in 0..Len(risks) :
          \A k \in DOMAIN risks : risks[k].level = IF k <= h THEN "high" ELSE "medium"
    BY <1>12, <1>13 DEF Graded
  <2>2. i <= h
    BY <1>17, <2>1
  <2>3. ~(j <= h)
    BY <1>17, <2>1
  <2>4. i \in Nat /\ j \in Nat /\ h \in Nat
    BY <1>14
  <2>5. QED BY <2>2, <2>3, <2>4
<1>18. QED BY <1>14, <1>15, <1>16, <1>17 DEF risks

-----------------------------------------------------------------------------
(* The impact                                                              *)

\* r says all there is to say of the files that git reports.
Complete(report, files, r, depth) ==
  LET paths == {report.entries[i].path : i \in DOMAIN report.entries} \cup ToSet(report.untracked)
      concerned == UNION {Concerned(files[i]) : i \in DOMAIN files}
      downstream == Dependents(concerned, depth) \ concerned
      scope == r.changed \cup ToSet(r.impacted)
  IN /\ NoRepeats([i \in DOMAIN files |-> files[i].path])
     /\ {files[i].path : i \in DOMAIN files} = paths
     /\ \A i \in DOMAIN report.entries : report.entries[i] \in ToSet(files)
     /\ r.changed = concerned
     /\ r.unmapped = {files[i].path : i \in {j \in DOMAIN files : Concerned(files[j]) = {}}}
     /\ ToSet(r.impacted) \subseteq downstream
     /\ ~r.truncated => r.recheck = {Info[n].path : n \in downstream} \ paths
     /\ scope \cap (r.docs \cup r.tables \cup r.tests) = {}
     /\ \A e \in EdgesOf(graph) :
          e.type = "references" /\ {Info[e.from].type, Info[e.to].type} = {"table"}
            /\ {e.from, e.to} \subseteq scope
          => \E i \in DOMAIN r.risks : r.risks[i].kind = "referential-integrity" /\ r.risks[i].node = e.from
     /\ \A i, j \in DOMAIN r.risks : r.risks[i].level = "high" /\ r.risks[j].level = "medium" => i < j

NothingMissed(report, depth, cap) ==
  LET files == WorkingTree(report)
  IN  Complete(report, files, AnalyzeChangeImpact(graph, files, depth, cap), depth)

LEMMA ReachTyped ==
  ASSUME GraphTyped, NEW seeds \in SUBSET Ids, NEW depth \in Nat, NEW cap \in Nat
  PROVE  ReverseReachable(graph, seeds, depth, cap).nodes \in Seq(Reached)
<1>1. PICK layer : ReachRun(layer, seeds, depth, cap)
  BY ReachLoop
<1> DEFINE acc == layer[depth]
           r == ReverseReachable(graph, seeds, depth, cap)
<1>2. r = [nodes |-> acc.out, truncated |-> acc.truncated]
  BY <1>1 DEF ReachRun
<1>3. Layered(acc, seeds, depth, cap)
  BY <1>1, ReachLayered
<1>4. acc.out \in Seq(Reached)
  BY <1>3 DEF Layered, Honest, Walked
<1> HIDE DEF r
<1>5. r.nodes = acc.out
  BY <1>2
<1>6. QED BY <1>4, <1>5 DEF r

LEMMA OneImpact ==
  ASSUME GraphTyped, NEW report, IsReport(report), NEW depth \in Nat, NEW cap \in Nat
  PROVE  NothingMissed(report, depth, cap)
<1> DEFINE files == WorkingTree(report)
           entries == report.entries
           paths == {entries[i].path : i \in DOMAIN entries} \cup ToSet(report.untracked)
           concerned == UNION {Concerned(files[i]) : i \in DOMAIN files}
           downstream == Dependents(concerned, depth) \ concerned
           seeds == SeedList(graph, files)
           reach == ReverseReachable(graph, ToSet(seeds), depth, cap)
           r == AnalyzeChangeImpact(graph, files, depth, cap)
           reached == [i \in DOMAIN reach.nodes |-> reach.nodes[i].id]
           scope == ToSet(seeds) \cup ToSet(reached)
<1>1. /\ files \in Seq(Change)
      /\ \A i, j \in DOMAIN files : files[i].path = files[j].path => i = j
      /\ {files[i].path : i \in DOMAIN files} = paths
      /\ \A i \in DOMAIN entries : entries[i] \in ToSet(files)
  BY TreeIs
<1>2. r = ImpactOf(graph, files, seeds, reach)
  BY Zenon DEF AnalyzeChangeImpact, ImpactFrom
<1> HIDE DEF files, r
<1>3. seeds \in Seq(Ids) /\ ToSet(seeds) = concerned
  BY <1>1, SeedsAre
<1>4. ToSet(seeds) \in SUBSET Ids
  <2> HIDE DEF seeds
  <2>1. QED BY <1>3 DEF ToSet
<1>5. ExactAnswer(reach, concerned, depth, cap)
  BY <1>3, <1>4, OneAnswer
<1>6. reach.nodes \in Seq(Reached)
  BY <1>4, ReachTyped
<1> HIDE DEF seeds, reach, concerned
<1>7. DOMAIN reach.nodes = 1..Len(reach.nodes) /\ Len(reach.nodes) \in Nat
      /\ \A i \in DOMAIN reach.nodes : reach.nodes[i].id \in Ids
  <2> DEFINE s == reach.nodes
  <2>1. s \in Seq(Reached)
    BY <1>6
  <2> HIDE DEF s
  <2>2. DOMAIN s = 1..Len(s) /\ Len(s) \in Nat /\ \A i \in DOMAIN s : s[i] \in Reached
    BY <2>1
  <2>3. \A x \in Reached : x.id \in Ids
    BY DEF Reached
  <2>4. QED BY <2>2, <2>3 DEF s
<1>8. reached \in Seq(Ids) /\ ToSet(reached) = {reach.nodes[i].id : i \in DOMAIN reach.nodes}
  <2> DEFINE s == reach.nodes
  <2>1. DOMAIN s = 1..Len(s) /\ Len(s) \in Nat /\ \A i \in DOMAIN s : s[i].id \in Ids
    BY <1>7
  <2> HIDE DEF s
  <2>2. [i \in DOMAIN s |-> s[i].id] \in Seq(Ids)
    BY <2>1
  <2>3. reached = [i \in DOMAIN s |-> s[i].id]
    BY DEF s
  <2>4. ToSet(reached) = {s[i].id : i \in DOMAIN s}
    BY <2>3 DEF ToSet
  <2>5. QED BY <2>2, <2>3, <2>4 DEF s
<1>9. /\ ToSet(reached) \subseteq downstream
      /\ ~reach.truncated => ToSet(reached) = downstream
  BY <1>5, <1>8 DEF ExactAnswer
<1> HIDE DEF reached
<1>10. seeds \o reached \in Seq(Ids) /\ ToSet(seeds \o reached) = scope
  BY <1>3, <1>8, JoinedSet
<1> DEFINE list == seeds \o reached
           risks == ScoreRisks(graph, list)
           hitless == {files[i].path : i \in {j \in DOMAIN files : Hit(graph, files[j]) = {}}}
           recheck == {Info[n].path : n \in ToSet(reached)} \ {files[i].path : i \in DOMAIN files}
           docs == Boundary(graph, scope, {"doc", "section"})
           tables == Boundary(graph, scope, {"table", "migration"})
           tests == Boundary(graph, scope, {"test"})
<1>11. r = [unmapped |-> hitless, changed |-> ToSet(seeds), impacted |-> reached,
            truncated |-> reach.truncated, recheck |-> recheck, docs |-> docs,
            tables |-> tables, tests |-> tests, risks |-> risks]
  BY <1>2 DEF ImpactOf, reached
<1>12. hitless = {files[i].path : i \in {j \in DOMAIN files : Concerned(files[j]) = {}}}
  <2>1. \A j \in DOMAIN files : Hit(graph, files[j]) = Concerned(files[j])
    BY <1>1, HitIs
  <2>2. QED BY <2>1
<1>13. scope \cap (docs \cup tables \cup tests) = {}
  BY DEF Boundary
<1>14. /\ \A e \in EdgesOf(graph) :
            e.type = "references" /\ {Info[e.from].type, Info[e.to].type} = {"table"}
              /\ {e.from, e.to} \subseteq ToSet(list)
            => \E i \in DOMAIN risks : risks[i].kind = "referential-integrity" /\ risks[i].node = e.from
       /\ \A i, j \in DOMAIN risks : risks[i].level = "high" /\ risks[j].level = "medium" => i < j
  BY <1>10, RisksAre
<1>15. ~reach.truncated => recheck = {Info[n].path : n \in downstream} \ paths
  BY <1>1, <1>9
<1> HIDE DEF risks, hitless, recheck, docs, tables, tests, list, scope, paths, downstream
<1>16. /\ r.unmapped = hitless /\ r.changed = ToSet(seeds) /\ r.impacted = reached
       /\ r.truncated = reach.truncated /\ r.recheck = recheck /\ r.docs = docs
       /\ r.tables = tables /\ r.tests = tests /\ r.risks = risks
  BY <1>11
<1>17. r.changed = concerned /\ r.changed \cup ToSet(r.impacted) = scope /\ ToSet(list) = scope
  BY <1>3, <1>10, <1>16 DEF scope, list
<1>18. NoRepeats([i \in DOMAIN files |-> files[i].path])
  BY <1>1 DEF NoRepeats
<1>19. /\ r.unmapped = {files[i].path : i \in {j \in DOMAIN files : Concerned(files[j]) = {}}}
       /\ ToSet(r.impacted) \subseteq downstream
       /\ ~r.truncated => r.recheck = {Info[n].path : n \in downstream} \ paths
       /\ (r.changed \cup ToSet(r.impacted)) \cap (r.docs \cup r.tables \cup r.tests) = {}
  BY <1>9, <1>12, <1>13, <1>15, <1>16, <1>17
<1>20. /\ \A e \in EdgesOf(graph) :
            e.type = "references" /\ {Info[e.from].type, Info[e.to].type} = {"table"}
              /\ {e.from, e.to} \subseteq r.changed \cup ToSet(r.impacted)
            => \E i \in DOMAIN r.risks : r.risks[i].kind = "referential-integrity" /\ r.risks[i].node = e.from
       /\ \A i, j \in DOMAIN r.risks : r.risks[i].level = "high" /\ r.risks[j].level = "medium" => i < j
  BY <1>14, <1>16, <1>17
<1>21. Complete(report, files, r, depth)
  BY <1>1, <1>17, <1>18, <1>19, <1>20, Zenon DEF Complete, paths, concerned, downstream, entries
<1>22. QED BY <1>21, Zenon DEF NothingMissed, files, r

\* Whatever git reports, over any graph, depth and cap: every reported path is
\* counted once and by its own status; what a change concerns is what the graph
\* has of it; and every file that depends on it within the depth is listed,
\* unless it changed itself or the result says that it was cut off
\* (changeImpact.ts:75).
THEOREM ImpactForAll ==
  Spec => [](\A report : IsReport(report) =>
               \A depth \in Nat, cap \in Nat : NothingMissed(report, depth, cap))
<1>1. GraphTyped => \A report : IsReport(report) =>
                      \A depth \in Nat, cap \in Nat : NothingMissed(report, depth, cap)
  BY OneImpact
<1>2. QED BY <1>1, GraphsTyped, PTL

\* The property of the run, over its few reports, depths and caps.
THEOREM ImpactComplete == Spec => []ImpactMissesNothing
<1>1. GraphTyped => ImpactMissesNothing
  <2> SUFFICES ASSUME GraphTyped, NEW report \in GitReports, NEW depth \in {1, 3},
                      NEW cap \in {1, Cardinality(Ids)}, NEW files \in {WorkingTree(report)},
                      NEW r \in {AnalyzeChangeImpact(graph, files, depth, cap)}
               PROVE  Complete(report, files, r, depth)
    BY Zenon DEF ImpactMissesNothing, Complete
  <2>1. IsReport(report)
    BY ReportsAssumption
  <2>2. depth \in Nat /\ cap \in Nat
    BY IdsAssumption, FS_CardinalityType
  <2>3. NothingMissed(report, depth, cap)
    BY <2>1, <2>2, OneImpact
  <2>4. files = WorkingTree(report) /\ r = AnalyzeChangeImpact(graph, files, depth, cap)
    OBVIOUS
  <2>5. QED BY <2>3, <2>4, Zenon DEF NothingMissed
<1>2. QED BY <1>1, GraphsTyped, PTL

-----------------------------------------------------------------------------
(* What is handed on, and what is checked of it                            *)

\* Lists of evidence that say nothing twice and are not too long.
Proofs(max) == {s \in Seq(Evidence) : Len(s) <= 1 + max /\ NoRepeats(s)}

\* Such a list that has only what there is, and all of it unless it is full.
Grounds(s, places, max) ==
  /\ s \in Proofs(max) /\ ToSet(s) \subseteq places
  /\ Len(s) = 1 + max \/ places \subseteq ToSet(s)

LEMMA EvidenceIs ==
  ASSUME GraphTyped, NEW n \in Ids, NEW withGraph \in BOOLEAN, NEW max \in Nat
  PROVE  Grounds(EvidenceOf(graph, withGraph, n, max), PlacesOf(n, withGraph), max)
<1> DEFINE edges == IF withGraph THEN graph.edges ELSE <<>>
           k == Len(edges)
           own == <<"node", n>>
           none == IF Info[n].path = NoPath THEN <<>> ELSE <<own>>
           Refused(s, i) == \/ n \notin {edges[i].from, edges[i].to} \/ Place[edges[i]] = NoPath
                            \/ Len(s) >= 1 + max \/ Place[edges[i]] \in ToSet(s)
           More(s, i) == IF Refused(s, i) THEN s ELSE Append(s, Place[edges[i]])
           States == Proofs(max)
           step == [i \in 1..k |-> [s \in States |-> More(s, i)]]
           Run(f) == f = [i \in 0..k |-> IF i = 0 THEN none ELSE More(f[i - 1], i)]
           shown == CHOOSE f : Run(f)
           At(i) == {Place[edges[j]] : j \in {l \in 1..i : n \in {edges[l].from, edges[l].to}}} \ {NoPath}
           Upto(i) == ToSet(none) \cup At(i)
<1>1. edges \in Seq(Edge) /\ k \in Nat /\ DOMAIN edges = 1..k /\ \A i \in 1..k : edges[i] \in Edge
  <2>1. edges \in Seq(Edge)
    BY DEF GraphTyped
  <2> HIDE DEF edges
  <2>2. QED BY <2>1
<1>2. EvidenceOf(graph, withGraph, n, max) = shown[k]
  BY Zenon DEF EvidenceOf
<1>3. ToSet(edges) = IF withGraph THEN EdgesOf(graph) ELSE {}
  BY DEF EdgesOf, ToSet
<1> HIDE DEF edges
<1>4. none \in States
  <2>1. own \in Evidence \/ own = NoPath
    BY DEF Evidence
  <2>2. CASE Info[n].path = NoPath
    <3>1. none = <<>> /\ <<>> \in Seq(Evidence) /\ Len(<<>>) = 0 /\ DOMAIN <<>> = {}
      BY <2>2
    <3> HIDE DEF none
    <3>2. QED BY <3>1 DEF Proofs, NoRepeats
  <2>3. CASE Info[n].path # NoPath
    <3>1. own \in Evidence
      BY <2>1, PlacesAssumption
    <3> HIDE DEF own
    <3>2. none = <<own>> /\ <<own>> \in Seq(Evidence) /\ Len(<<own>>) = 1 /\ DOMAIN <<own>> = {1}
      BY <2>3, <3>1
    <3> HIDE DEF none
    <3>3. QED BY <3>2 DEF Proofs, NoRepeats
  <2>4. QED BY <2>2, <2>3
<1>5. ASSUME NEW i \in 1..k, NEW s \in States
      PROVE  /\ More(s, i) \in States
             /\ (ToSet(s) \subseteq Upto(i - 1) /\ (Len(s) = 1 + max \/ Upto(i - 1) \subseteq ToSet(s)))
                => (ToSet(More(s, i)) \subseteq Upto(i)
                    /\ (Len(More(s, i)) = 1 + max \/ Upto(i) \subseteq ToSet(More(s, i))))
  <2> DEFINE e == Place[edges[i]]
             met == n \in {edges[i].from, edges[i].to}
             t == Append(s, e)
  <2>1. s \in Seq(Evidence) /\ Len(s) <= 1 + max /\ NoRepeats(s) /\ Len(s) \in Nat
    BY DEF Proofs
  <2>2. Upto(i) = Upto(i - 1) \cup (IF met THEN {e} \ {NoPath} ELSE {})
    <3>1. \A j : j \in 1..i <=> j \in 1..(i - 1) \/ j = i
      BY <1>1
    <3> HIDE DEF none
    <3>2. QED BY <3>1
  <2> HIDE DEF Upto, At
  <2>3. CASE Refused(s, i)
    <3>1. More(s, i) = s
      BY <2>3
    <3>2. ~met \/ e = NoPath \/ Len(s) = 1 + max \/ e \in ToSet(s)
      BY <2>1, <2>3
    <3> HIDE DEF More, met, e
    <3>3. QED BY <2>1, <2>2, <3>1, <3>2
  <2>4. CASE ~Refused(s, i)
    <3>1. e \in Evidence
      BY <1>1, <2>4 DEF Evidence
    <3>2. e \notin ToSet(s) /\ Len(s) < 1 + max /\ met /\ e # NoPath
      BY <2>1, <2>4
    <3>3. More(s, i) = t
      BY <2>4
    <3> HIDE DEF e, met, More
    <3>4. /\ t \in Seq(Evidence) /\ t # <<>> /\ Len(t) = Len(s) + 1 /\ DOMAIN t = 1..Len(t)
          /\ DOMAIN s = 1..Len(s) /\ t[Len(s) + 1] = e /\ \A j \in 1..Len(s) : t[j] = s[j]
      BY <2>1, <3>1
    <3> HIDE DEF t
    <3>5. \A j \in 1..Len(t) : j \in 1..Len(s) \/ j = Len(s) + 1
      BY <2>1, <3>4
    <3>6. \A j \in 1..Len(s) : s[j] # e
      BY <3>2, <3>4 DEF ToSet
    <3>7. NoRepeats(t)
      BY <2>1, <3>4, <3>5, <3>6 DEF NoRepeats
    <3>8. t \in States
      BY <2>1, <3>2, <3>4, <3>7 DEF Proofs
    <3>9. ToSet(t) = ToSet(s) \cup {e}
      <4>1. \A j \in 1..Len(s) : j \in 1..Len(t)
        BY <2>1, <3>4
      <4>2. Len(s) + 1 \in 1..Len(t)
        BY <2>1, <3>4
      <4>3. QED BY <3>4, <3>5, <4>1, <4>2 DEF ToSet
    <3>10. QED BY <2>1, <2>2, <3>2, <3>3, <3>8, <3>9
  <2>5. QED BY <2>3, <2>4
<1>6. none \in States /\ \A i \in 1..k : \A s \in States : More(s, i) \in States
  BY <1>4, <1>5
<1>7. Upto(0) = ToSet(none)
  OBVIOUS
<1>8. Upto(k) = PlacesOf(n, withGraph)
  <2>1. ToSet(none) = {<<"node", m>> : m \in {l \in {n} : Info[l].path # NoPath}}
    <3>1. CASE Info[n].path = NoPath
      BY <3>1 DEF ToSet
    <3>2. CASE Info[n].path # NoPath
      <4>1. none = <<own>> /\ DOMAIN <<own>> = {1} /\ <<own>>[1] = own
        BY <3>2
      <4>2. ToSet(none) = {own}
        BY <4>1 DEF ToSet
      <4>3. QED BY <4>2, <3>2
    <3>3. QED BY <3>1, <3>2
  <2>2. NoPath \notin ToSet(none)
    BY <2>1, PlacesAssumption
  <2>3. At(k) = {Place[e] : e \in {d \in ToSet(edges) : n \in {d.from, d.to}}} \ {NoPath}
    BY <1>1 DEF ToSet
  <2>4. {d \in ToSet(edges) : n \in {d.from, d.to}}
          = {d \in EdgesOf(graph) : withGraph /\ n \in {d.from, d.to}}
    BY <1>3
  <2> HIDE DEF none, At
  <2>5. QED BY <2>1, <2>2, <2>3, <2>4 DEF PlacesOf
<1> DEFINE Holds(i, s) == /\ ToSet(s) \subseteq Upto(i)
                          /\ Len(s) = 1 + max \/ Upto(i) \subseteq ToSet(s)
<1>9. Holds(0, none) /\ \A i \in 1..k : \A s \in States : Holds(i - 1, s) => Holds(i, More(s, i))
  BY <1>5, <1>7
<1> HIDE DEF k, More, States, none, Refused, Upto, At, Holds
<1>10. /\ step \in [1..k -> [States -> States]]
       /\ \A i \in 1..k : \A s \in States : step[i][s] = More(s, i)
  BY <1>6
<1> HIDE DEF step
<1>11. PICK f : History(f, k, States, none, step)
  BY <1>1, <1>6, <1>10, LoopExists
<1>12. \A i \in 1..k : i - 1 \in 0..k /\ f[i] = More(f[i - 1], i)
  BY <1>1, <1>10, <1>11 DEF History
<1>13. Run(f)
  BY <1>1, <1>11, <1>12 DEF History
<1>14. Run(shown)
  BY <1>13, Zenon
<1>15. \A h : Run(h) => h[0] = none /\ \A i \in 1..k : h[i] = More(h[i - 1], i)
  BY <1>1
<1> HIDE DEF Run, shown
<1>16. Follows(shown, k, States, none, step)
  BY <1>10, <1>14, <1>15 DEF Follows
<1>17. \A i \in 0..k : shown[i] \in States
  BY <1>1, <1>6, <1>10, <1>16, LoopStays
<1> DEFINE S == {i \in 0..k : Holds(i, shown[i])}
<1>18. 0 \in S
  BY <1>1, <1>9, <1>14, <1>15
<1>19. \A i \in 0..(k - 1) : i \in S => i + 1 \in S
  <2> SUFFICES ASSUME NEW i \in 0..(k - 1), Holds(i, shown[i]) PROVE i + 1 \in S
    OBVIOUS
  <2>1. i + 1 \in 1..k /\ i + 1 \in 0..k /\ (i + 1) - 1 = i /\ i \in 0..k
    BY <1>1
  <2>2. shown[i] \in States /\ shown[i + 1] = More(shown[i], i + 1)
    BY <2>1, <1>14, <1>15, <1>17
  <2>3. Holds(i + 1, More(shown[i], i + 1))
    BY <2>1, <2>2, <1>9
  <2>4. QED BY <2>1, <2>2, <2>3
<1> HIDE DEF S
<1>20. \A i \in 0..k : i \in S
  BY <1>1, <1>18, <1>19, Induction
<1>21. Holds(k, shown[k]) /\ shown[k] \in States
  BY <1>1, <1>17, <1>20 DEF S
<1>22. QED BY <1>2, <1>8, <1>21 DEF Holds, Grounds, States

\* What has a section has a kind the protocol knows, and a layer.
LEMMA KindsAre ==
  \A type : sectionFor(type) # "skip" => type \in NodeKinds /\ layerForNodeType(type) \in Layers
<1> SUFFICES ASSUME NEW type, sectionFor(type) # "skip"
             PROVE  type \in NodeKinds /\ layerForNodeType(type) \in Layers
  OBVIOUS
<1>1. type \in {"file", "function", "class", "route", "symbol", "env", "doc", "section",
                "table", "migration", "test"}
  BY DEF sectionFor
<1>2. type \in NodeKinds
  BY <1>1 DEF NodeKinds
<1>3. layerForNodeType(type) \in Layers
  BY <1>1 DEF layerForNodeType, Layers
<1>4. QED BY <1>2, <1>3

\* Nodes that may be in a pack.
Packable == {n \in Ids : sectionFor(Info[n].type) # "skip" /\ Info[n].layer # "visual"}

SoundItem(x, withGraph, max) ==
  x \in UcpItem /\ x.position >= 1 /\ Grounds(x.evidence, PlacesOf(x.id, withGraph), max)

LEMMA ItemIs ==
  ASSUME GraphTyped, NEW r \in Ranking, r.id \in Packable, NEW position \in Nat, position >= 1,
         NEW withGraph \in BOOLEAN, NEW max \in Nat
  PROVE  SoundItem(UniversalItem(graph, withGraph, r, position, max), withGraph, max)
<1> DEFINE x == UniversalItem(graph, withGraph, r, position, max)
           layer == IF withGraph /\ r.id \in graph.ids THEN Info[r.id].layer
                    ELSE layerForNodeType(Info[r.id].type)
           evidence == EvidenceOf(graph, withGraph, r.id, max)
<1>1. r.id \in Ids /\ r.score \in Int
  BY DEF Ranking
<1>2. Info[r.id].type \in NodeKinds /\ layerForNodeType(Info[r.id].type) \in Layers
  BY KindsAre DEF Packable
<1>3. layer \in Layers
  BY <1>1, <1>2, LayersAssumption
<1>4. Grounds(evidence, PlacesOf(r.id, withGraph), max)
  BY <1>1, EvidenceIs
<1>5. evidence \in Seq(Evidence)
  BY <1>4 DEF Grounds, Proofs
<1>6. estimateTokens(r.id) \in Nat
  BY <1>1, TokensCount
<1>7. x = [id |-> r.id, text |-> "text", kind |-> Info[r.id].type, layer |-> layer,
           position |-> position, score |-> r.score, evidence |-> evidence,
           tokensEstimate |-> estimateTokens(r.id)]
  BY Zenon DEF UniversalItem
<1> HIDE DEF layer, evidence, x
<1>8. x \in UcpItem
  BY <1>1, <1>2, <1>3, <1>5, <1>6, <1>7 DEF UcpItem
<1>9. QED BY <1>4, <1>7, <1>8 DEF SoundItem, x

LEMMA SectionIs ==
  ASSUME GraphTyped, NEW items, NEW A, Names(items, A), A \subseteq Packable,
         NEW withGraph \in BOOLEAN, NEW max \in Nat, NEW id, NEW role
  PROVE  LET s == UniversalSection(graph, withGraph, id, role, items, max)
         IN  /\ s = [id |-> id, text |-> "text", role |-> role, items |-> s.items]
             /\ s.items \in Seq(UcpItem)
             /\ \A i \in DOMAIN s.items : SoundItem(s.items[i], withGraph, max)
<1> DEFINE its == [i \in DOMAIN items |-> UniversalItem(graph, withGraph, items[i], i, max)]
<1>1. /\ Len(items) \in Nat /\ DOMAIN items = 1..Len(items)
      /\ \A i \in 1..Len(items) : items[i] \in Ranking /\ items[i].id \in Packable
  <2>1. items \in Seq(Ranking) /\ A = {items[i].id : i \in 1..Len(items)}
    BY DEF Names
  <2>2. QED BY <2>1
<1>2. ASSUME NEW i \in 1..Len(items) PROVE SoundItem(its[i], withGraph, max)
  <2>1. i \in Nat /\ i >= 1 /\ i \in DOMAIN items
    BY <1>1
  <2>2. SoundItem(UniversalItem(graph, withGraph, items[i], i, max), withGraph, max)
    BY <2>1, <1>1, ItemIs
  <2>3. QED BY <2>1, <2>2
<1>3. DOMAIN its = 1..Len(items) /\ its = [i \in 1..Len(items) |-> its[i]]
  BY <1>1
<1>4. UniversalSection(graph, withGraph, id, role, items, max) 
       = [id |-> id, text |-> "text", role |-> role, items |-> its]
  BY Zenon DEF UniversalSection
<1> HIDE DEF its
<1>5. \A i \in 1..Len(items) : its[i] \in UcpItem
  BY <1>2 DEF SoundItem
<1>6. its \in Seq(UcpItem)
  BY <1>1, <1>3, <1>5
<1>7. QED BY <1>2, <1>3, <1>4, <1>6

SoundParts(p, budget) ==
  /\ p.mode \in Modes /\ p.confidence \in 20..100 /\ p.budget = budget /\ p.tokensUsed \in Nat
  /\ p.risks \in Seq(UcpRisk) /\ p.excluded \in Seq(Ids)
  /\ \E A, B, C, D : /\ Names(p.mustRead, A) /\ A \subseteq Packable
                    /\ Names(p.relatedDocs, B) /\ B \subseteq Packable
                    /\ Names(p.tables, C) /\ C \subseteq Packable
                    /\ Names(p.tests, D) /\ D \subseteq Packable

LEMMA PackParts ==
  ASSUME GraphTyped, NEW task, IsFiniteSet(task), NEW requested \in Modes \cup {"auto"},
         NEW budget \in Nat, NEW depth \in Nat
  PROVE  SoundParts(buildContextPack(graph, task, requested, budget, depth), budget)
<1> DEFINE mode == resolveMode(task, requested)
           ranked == rankContext(graph, task, mode, depth, RankLimit)
           p == PackFrom(graph, task, mode, budget, ranked)
           tables == Part(ranked, "tables")
           tests == Part(ranked, "tests")
           base == Cost(tables \o tests)
           code == Filled(Part(ranked, "code"), base, budget)
           docs == Filled(Part(ranked, "docs"), code.used, budget)
           items == code.in \o docs.in \o tables \o tests
           left == code.left \o docs.left
<1>1. mode \in Modes
  BY DEF resolveMode, Modes
<1>2. buildContextPack(graph, task, requested, budget, depth) = p
  BY DEF buildContextPack
<1>3. /\ p.mode = mode /\ p.budget = budget /\ p.tokensUsed = docs.used
      /\ p.mustRead = code.in /\ p.relatedDocs = docs.in /\ p.tables = tables /\ p.tests = tests
      /\ p.risks = ScoreRisks(graph, IdsOf(items)) /\ p.excluded = IdsOf(left)
  BY Zenon DEF PackFrom, Assembled
<1>4. p.confidence \in 20..100
  <2>0. budget \in Int
    OBVIOUS
  <2>1. AccountsFor(buildContextPack(graph, task, requested, budget, depth), budget,
          rankContext(graph, task, buildContextPack(graph, task, requested, budget, depth).mode, depth, RankLimit))
    BY <2>0, PackAccounted, Zenon
  <2> HIDE DEF p
  <2>2. QED BY <2>1, <1>2, Zenon DEF AccountsFor
<1> HIDE DEF mode, p
<1>5. PICK N : Names(ranked, N) /\ N \subseteq Ids /\ \A n \in N : inMode(n, mode)
  BY <1>1, RankAssumption, RankedNames
<1> DEFINE At(sec) == {n \in N : sectionFor(Info[n].type) = sec}
           T == At("tables")
           E == At("tests")
           C == At("code")
           D == At("docs")
<1>6. Names(tables, T) /\ Names(tests, E) /\ Names(Part(ranked, "code"), C) /\ Names(Part(ranked, "docs"), D)
  <2> HIDE DEF ranked
  <2>1. QED BY <1>5, PartIs
<1>7. T \subseteq Packable /\ E \subseteq Packable /\ C \subseteq Packable /\ D \subseteq Packable
      /\ T \cap E = {} /\ C \cap D = {} /\ (C \cup D) \cap T = {} /\ ((C \cup D) \cup T) \cap E = {}
  <2>1. \A n \in N : Info[n].layer # "visual"
    BY <1>5 DEF inMode
  <2>2. QED BY <2>1, <1>5 DEF Packable
<1> HIDE DEF tables, tests, T, E, C, D
<1>8. base \in Nat
  <2>1. Names(tables \o tests, T \cup E)
    BY <1>6, <1>7, NamesConcat
  <2>2. QED BY <2>1, CostOf
<1> HIDE DEF base
<1>9. base \in Int /\ budget \in Int
  BY <1>8
<1>10. Fits(code, C, base, budget)
  BY <1>6, <1>9, FilledFits
<1> HIDE DEF code
<1>11. code.used \in Int
  BY <1>10 DEF Fits, Filling
<1>12. Fits(docs, D, code.used, budget)
  BY <1>6, <1>9, <1>11, FilledFits
<1> HIDE DEF docs
<1>13. PICK I, L : Names(code.in, I) /\ Names(code.left, L) /\ I \cup L = C
  BY <1>10 DEF Fits
<1>14. PICK J, M : Names(docs.in, J) /\ Names(docs.left, M) /\ J \cup M = D
  BY <1>12 DEF Fits
<1>15. docs.used \in Nat
  <2>1. Cost(code.in) \in Nat /\ Cost(docs.in) \in Nat
    BY <1>13, <1>14, CostOf
  <2>2. code.used = base + Cost(code.in) /\ docs.used = code.used + Cost(docs.in)
    BY <1>10, <1>12 DEF Fits
  <2>3. QED BY <2>1, <2>2, <1>8
<1>16. IdsOf(left) \in Seq(Ids)
  <2>1. L \cap M = {}
    BY <1>7, <1>13, <1>14
  <2>2. Names(left, L \cup M)
    BY <2>1, <1>13, <1>14, NamesConcat
  <2>3. QED BY <2>2, IdsAre
<1>17. IdsOf(items) \in Seq(Ids)
  <2> DEFINE chosen == code.in \o docs.in
             more == chosen \o tables
  <2>1. I \cap J = {} /\ (I \cup J) \cap T = {} /\ ((I \cup J) \cup T) \cap E = {}
    BY <1>7, <1>13, <1>14
  <2>2. Names(chosen, I \cup J)
    BY <2>1, <1>13, <1>14, NamesConcat
  <2> HIDE DEF chosen
  <2>3. Names(more, (I \cup J) \cup T)
    BY <2>1, <2>2, <1>6, NamesConcat
  <2> HIDE DEF more
  <2>4. Names(more \o tests, ((I \cup J) \cup T) \cup E)
    BY <2>1, <2>3, <1>6, NamesConcat
  <2>5. IdsOf(more \o tests) \in Seq(Ids)
    BY <2>4, IdsAre
  <2>6. QED BY <2>5 DEF more, chosen
<1>18. p.risks \in Seq(UcpRisk)
  <2> DEFINE scope == IdsOf(items)
  <2> HIDE DEF scope
  <2>1. ScoreRisks(graph, scope) \in Seq(Risk)
    BY <1>17, RisksAre DEF scope
  <2>2. Risk = UcpRisk
    BY DEF Risk, UcpRisk, RiskKinds, Kinds
  <2>3. QED BY <2>1, <2>2, <1>3 DEF scope
<1>19. I \subseteq Packable /\ J \subseteq Packable
  BY <1>7, <1>13, <1>14
<1>20. /\ p.mode \in Modes /\ p.confidence \in 20..100 /\ p.budget = budget /\ p.tokensUsed \in Nat
       /\ p.risks \in Seq(UcpRisk) /\ p.excluded \in Seq(Ids)
       /\ Names(p.mustRead, I) /\ Names(p.relatedDocs, J) /\ Names(p.tables, T) /\ Names(p.tests, E)
  BY <1>1, <1>3, <1>4, <1>6, <1>13, <1>14, <1>15, <1>16, <1>18
<1>21. SoundParts(p, budget)
  BY <1>7, <1>19, <1>20, Zenon DEF SoundParts
<1>22. QED BY <1>2, <1>21

UniversalPack ==
  [protocolVersion : {CONTEXT_PROTOCOL_VERSION}, text : {"text"}, mode : Modes, confidence : 20..100,
   budget : [limit : Nat, used : Nat], capabilities : {KAWN_PROTOCOL_CAPABILITIES},
   sections : Seq(UcpSection), risks : Seq(UcpRisk), excluded : Seq(Ids)]

SoundPack(u, withGraph, max) ==
  /\ u \in UniversalPack /\ Len(u.sections) = 4
  /\ \A i, j \in 1..4 : u.sections[i].id = u.sections[j].id => i = j
  /\ \A i \in 1..4 : \A k \in DOMAIN u.sections[i].items :
       SoundItem(u.sections[i].items[k], withGraph, max)

LEMMA UniversalIs ==
  ASSUME GraphTyped, NEW task, IsFiniteSet(task), NEW requested \in Modes \cup {"auto"},
         NEW budget \in Nat, NEW depth \in Nat, NEW withGraph \in BOOLEAN, NEW max \in Nat
  PROVE  SoundPack(toUniversalPack(buildContextPack(graph, task, requested, budget, depth),
                                   graph, withGraph, max), withGraph, max)
<1> DEFINE p == buildContextPack(graph, task, requested, budget, depth)
           u == toUniversalPack(p, graph, withGraph, max)
           Section(id, role, items) == UniversalSection(graph, withGraph, id, role, items, max)
           s1 == Section("must_read", "primary", p.mustRead)
           s2 == Section("related_docs", "supporting", p.relatedDocs)
           s3 == Section("tables", "data", p.tables)
           s4 == Section("tests", "verification", p.tests)
           all == <<s1, s2, s3, s4>>
<1>1. SoundParts(p, budget)
  BY PackParts
<1> HIDE DEF p
<1>2. PICK A, B, C, D : /\ Names(p.mustRead, A) /\ A \subseteq Packable
                        /\ Names(p.relatedDocs, B) /\ B \subseteq Packable
                        /\ Names(p.tables, C) /\ C \subseteq Packable
                        /\ Names(p.tests, D) /\ D \subseteq Packable
  BY <1>1 DEF SoundParts
<1> DEFINE Fine(s, id, role) ==
             /\ s = [id |-> id, text |-> "text", role |-> role, items |-> s.items]
             /\ s.items \in Seq(UcpItem)
             /\ \A i \in DOMAIN s.items : SoundItem(s.items[i], withGraph, max)
<1>3. /\ Fine(s1, "must_read", "primary") /\ Fine(s2, "related_docs", "supporting")
      /\ Fine(s3, "tables", "data") /\ Fine(s4, "tests", "verification")
  <2>1. ASSUME NEW items, NEW S, Names(items, S), S \subseteq Packable, NEW id, NEW role
        PROVE  Fine(Section(id, role, items), id, role)
    BY <2>1, SectionIs, Zenon
  <2>2. Fine(s1, "must_read", "primary")
    BY <1>2, <2>1
  <2>3. Fine(s2, "related_docs", "supporting")
    BY <1>2, <2>1
  <2>4. Fine(s3, "tables", "data")
    BY <1>2, <2>1
  <2>5. Fine(s4, "tests", "verification")
    BY <1>2, <2>1
  <2>6. QED BY <2>2, <2>3, <2>4, <2>5
<1>4. u = [protocolVersion |-> CONTEXT_PROTOCOL_VERSION, text |-> "text", mode |-> p.mode, confidence |-> p.confidence,
           budget |-> [limit |-> p.budget, used |-> p.tokensUsed],
           capabilities |-> KAWN_PROTOCOL_CAPABILITIES, sections |-> all,
           risks |-> p.risks, excluded |-> p.excluded]
  BY Zenon DEF toUniversalPack
<1>5. /\ s1.id = "must_read" /\ s2.id = "related_docs" /\ s3.id = "tables" /\ s4.id = "tests"
      /\ s1 \in UcpSection /\ s2 \in UcpSection /\ s3 \in UcpSection /\ s4 \in UcpSection
  <2> HIDE DEF s1, s2, s3, s4
  <2>1. s1.id = "must_read" /\ s2.id = "related_docs" /\ s3.id = "tables" /\ s4.id = "tests"
    BY <1>3
  <2>2. s1 \in UcpSection
    BY <1>3 DEF UcpSection, SectionIds, Roles
  <2>3. s2 \in UcpSection
    BY <1>3 DEF UcpSection, SectionIds, Roles
  <2>4. s3 \in UcpSection
    BY <1>3 DEF UcpSection, SectionIds, Roles
  <2>5. s4 \in UcpSection
    BY <1>3 DEF UcpSection, SectionIds, Roles
  <2>6. QED BY <2>1, <2>2, <2>3, <2>4, <2>5
<1>6. \A k \in DOMAIN s1.items : SoundItem(s1.items[k], withGraph, max)
  BY <1>3
<1>7. \A k \in DOMAIN s2.items : SoundItem(s2.items[k], withGraph, max)
  BY <1>3
<1>8. \A k \in DOMAIN s3.items : SoundItem(s3.items[k], withGraph, max)
  BY <1>3
<1>9. \A k \in DOMAIN s4.items : SoundItem(s4.items[k], withGraph, max)
  BY <1>3
<1> HIDE DEF s1, s2, s3, s4
<1>10. /\ all \in Seq(UcpSection) /\ Len(all) = 4
       /\ all[1] = s1 /\ all[2] = s2 /\ all[3] = s3 /\ all[4] = s4
  BY <1>5
<1> HIDE DEF all, u
<1>11. u \in UniversalPack /\ u.sections = all
  BY <1>1, <1>4, <1>10 DEF UniversalPack, SoundParts
<1>12. \A i \in 1..4 : i = 1 \/ i = 2 \/ i = 3 \/ i = 4
  OBVIOUS
<1>13. \A i, j \in 1..4 : all[i].id = all[j].id => i = j
  BY <1>5, <1>10, <1>12
<1>14. \A i \in 1..4 : \A k \in DOMAIN all[i].items : SoundItem(all[i].items[k], withGraph, max)
  BY <1>6, <1>7, <1>8, <1>9, <1>10, <1>12, Zenon
<1>15. SoundPack(u, withGraph, max)
  BY <1>10, <1>11, <1>13, <1>14, Zenon DEF SoundPack
<1>16. QED BY <1>15 DEF u, p

-----------------------------------------------------------------------------
(* What the consumer makes of it                                           *)

LEMMA ItemIsValid ==
  ASSUME NEW x, NEW withGraph, NEW max \in Nat, SoundItem(x, withGraph, max)
  PROVE  validateItem(x) <=> PlacesOf(x.id, withGraph) # {}
<1> DEFINE places == PlacesOf(x.id, withGraph)
           F == {"id", "text", "kind", "layer", "position", "score", "evidence", "tokensEstimate"}
<1>1. /\ x.kind \in NodeKinds /\ x.layer \in Layers /\ x.tokensEstimate \in Nat /\ x.position \in Nat
      /\ x.score \in Int /\ x.evidence \in Seq(Evidence) /\ x.position >= 1 /\ x.id \in Ids
      /\ x.text = "text"
  BY DEF SoundItem, UcpItem
<1>2. Typed(x, F)
  <2>1. /\ x.id # Malformed /\ x.text # Malformed /\ x.kind # Malformed /\ x.layer # Malformed
        /\ x.position # Malformed /\ x.score # Malformed /\ x.evidence # Malformed
        /\ x.tokensEstimate # Malformed
    BY <1>1, MalformedAssumption
  <2>2. QED BY <2>1 DEF Typed
<1>3. \A i \in DOMAIN x.evidence : x.evidence[i] # Malformed
  BY <1>1, MalformedAssumption
<1>4. x.tokensEstimate >= 0
  BY <1>1
<1>5. x.evidence # <<>> <=> places # {}
  <2>1. /\ x.evidence \in Seq(Evidence) /\ ToSet(x.evidence) \subseteq places
        /\ Len(x.evidence) = 1 + max \/ places \subseteq ToSet(x.evidence)
    BY DEF SoundItem, Grounds, Proofs
  <2> DEFINE s == x.evidence
  <2> HIDE DEF places, s
  <2>2. s \in Seq(Evidence) /\ ToSet(s) \subseteq places /\ (Len(s) = 1 + max \/ places \subseteq ToSet(s))
    BY <2>1 DEF s
  <2>3. s = <<>> => Len(s) = 0 /\ ToSet(s) = {} /\ 0 # 1 + max
    BY <2>2 DEF ToSet
  <2>4. s # <<>> => s[1] \in ToSet(s)
    BY <2>2 DEF ToSet
  <2>5. QED BY <2>2, <2>3, <2>4 DEF s
<1>6. validateItem(x) <=> x.evidence # <<>>
  BY <1>1, <1>2, <1>3, <1>4, Zenon DEF validateItem
<1>7. QED BY <1>5, <1>6

LEMMA CapabilitiesValid ==
  \A v \in Int \X Int :
    /\ isProtocolCompatible(v, CONTEXT_PROTOCOL_VERSION) <=> v[1] = 1
    /\ validateCapabilities(KAWN_PROTOCOL_CAPABILITIES, v) <=> v[1] = 1
<1> SUFFICES ASSUME NEW v \in Int \X Int
             PROVE  /\ isProtocolCompatible(v, CONTEXT_PROTOCOL_VERSION) <=> v[1] = 1
                    /\ validateCapabilities(KAWN_PROTOCOL_CAPABILITIES, v) <=> v[1] = 1
  OBVIOUS
<1> DEFINE c == KAWN_PROTOCOL_CAPABILITIES
           own == CONTEXT_PROTOCOL_VERSION
<1>1. own \in Int \X Int /\ own[1] = 1
  BY DEF CONTEXT_PROTOCOL_VERSION
<1>2. v # Malformed /\ own # Malformed
  BY <1>1, MalformedAssumption
<1>3. /\ isProtocolCompatible(v, own) <=> v[1] = 1
      /\ isProtocolCompatible(own, v) <=> v[1] = 1
  BY <1>1, <1>2 DEF isProtocolCompatible
<1>4. /\ c.protocolVersion = own /\ c.nodeKinds = NodeKinds /\ c.layers = Layers
      /\ c.flags = [f \in Flags |-> TRUE]
  BY DEF KAWN_PROTOCOL_CAPABILITIES
<1>5. /\ c.protocolVersion # Malformed /\ c.nodeKinds # Malformed /\ c.layers # Malformed
      /\ c.flags # Malformed /\ \A f \in Flags : c.flags[f] # Malformed
  BY <1>2, <1>4, MalformedAssumption
<1> HIDE DEF c, own
<1>6. Typed(c, {"protocolVersion", "flags", "nodeKinds", "layers"})
  BY <1>5 DEF Typed
<1>7. validateCapabilities(c, v) <=> v[1] = 1
  BY <1>3, <1>4, <1>5, <1>6 DEF validateCapabilities
<1>8. QED BY <1>3, <1>7 DEF c, own

LEMMA IsAccepted ==
  ASSUME NEW u, NEW withGraph, NEW max \in Nat, SoundPack(u, withGraph, max), NEW v \in Int \X Int
  PROVE  validateUniversalPack([u EXCEPT !.protocolVersion = v])
           <=> (\A x \in ItemsOf(u) : PlacesOf(x.id, withGraph) # {}) /\ v[1] = 1
<1> DEFINE p == [u EXCEPT !.protocolVersion = v]
           F == {"protocolVersion", "text", "mode", "confidence", "budget", "capabilities",
                 "sections", "risks", "excluded"}
           grounded == \A x \in ItemsOf(u) : PlacesOf(x.id, withGraph) # {}
<1>1. /\ u \in UniversalPack /\ Len(u.sections) = 4
      /\ \A i, j \in 1..4 : u.sections[i].id = u.sections[j].id => i = j
      /\ \A i \in 1..4 : \A k \in DOMAIN u.sections[i].items :
           SoundItem(u.sections[i].items[k], withGraph, max)
  BY Zenon DEF SoundPack
<1>2. /\ p.protocolVersion = v /\ p.text = "text" /\ p.mode = u.mode /\ p.confidence = u.confidence
      /\ p.budget = u.budget /\ p.capabilities = KAWN_PROTOCOL_CAPABILITIES
      /\ p.sections = u.sections /\ p.risks = u.risks /\ p.excluded = u.excluded
  BY <1>1 DEF UniversalPack
<1>3. /\ u.mode \in Modes /\ u.confidence \in 20..100 /\ u.budget \in [limit : Nat, used : Nat]
      /\ u.sections \in Seq(UcpSection) /\ u.risks \in Seq(UcpRisk) /\ u.excluded \in Seq(Ids)
      /\ DOMAIN u.sections = 1..4
  BY <1>1 DEF UniversalPack
<1> HIDE DEF p
<1>4. Typed(p, F)
  <2>1. u.confidence \in Int /\ u.budget \in [limit : Int, used : Int]
    <3>1. \A b \in [limit : Nat, used : Nat] : b \in [limit : Int, used : Int]
      OBVIOUS
    <3>2. \A c \in 20..100 : c \in Int
      OBVIOUS
    <3>3. QED BY <1>3, <3>1, <3>2, Zenon
  <2>2. u.confidence # Malformed /\ u.budget # Malformed
    BY <2>1, MalformedAssumption
  <2>3. v # Malformed /\ "text" # Malformed /\ KAWN_PROTOCOL_CAPABILITIES # Malformed
    BY MalformedAssumption
  <2>4. u.mode # Malformed /\ u.sections # Malformed /\ u.risks # Malformed /\ u.excluded # Malformed
    BY <1>3, MalformedAssumption
  <2>5. QED BY <1>2, <2>2, <2>3, <2>4 DEF Typed
<1>5. p.mode \in Modes /\ p.confidence \in 0..100
  BY <1>2, <1>3
<1>6. Typed(p.budget, {"limit", "used"}) /\ p.budget.limit >= 0 /\ p.budget.used >= 0
  <2>1. u.budget.limit \in Nat /\ u.budget.used \in Nat
    BY <1>3
  <2>2. u.budget.limit # Malformed /\ u.budget.used # Malformed
    BY <2>1, MalformedAssumption
  <2>3. u.budget.limit >= 0 /\ u.budget.used >= 0
    BY <2>1
  <2>4. QED BY <1>2, <2>2, <2>3 DEF Typed
<1>7. /\ isProtocolCompatible(p.protocolVersion, CONTEXT_PROTOCOL_VERSION) <=> v[1] = 1
      /\ validateCapabilities(p.capabilities, p.protocolVersion) <=> v[1] = 1
  BY <1>2, CapabilitiesValid
<1>8. ASSUME NEW i \in 1..4
      PROVE  validateSection(u.sections[i])
               <=> \A k \in DOMAIN u.sections[i].items :
                     PlacesOf(u.sections[i].items[k].id, withGraph) # {}
  <2> DEFINE sec == u.sections[i]
  <2>1. sec \in UcpSection
    BY <1>3
  <2>2. /\ sec.id \in SectionIds /\ sec.text = "text" /\ sec.role \in Roles /\ sec.items \in Seq(UcpItem)
    BY <2>1 DEF UcpSection
  <2>3. \A k \in DOMAIN sec.items : SoundItem(sec.items[k], withGraph, max)
    BY <1>1
  <2> HIDE DEF sec
  <2>4. sec.id # Malformed /\ sec.text # Malformed /\ sec.role # Malformed /\ sec.items # Malformed
    BY <2>2, MalformedAssumption
  <2>5. Typed(sec, {"id", "text", "role", "items"})
    BY <2>4 DEF Typed
  <2>6. \A k \in DOMAIN sec.items : validateItem(sec.items[k]) <=> PlacesOf(sec.items[k].id, withGraph) # {}
    BY <2>3, ItemIsValid
  <2>7. validateSection(sec) <=> \A k \in DOMAIN sec.items : PlacesOf(sec.items[k].id, withGraph) # {}
    BY <2>2, <2>5, <2>6, Zenon DEF validateSection
  <2>8. QED BY <2>7 DEF sec
<1>9. (\A i \in DOMAIN p.sections : validateSection(p.sections[i])) <=> grounded
  <2>1. \A x : x \in ItemsOf(u) <=> \E i \in 1..4 : \E k \in DOMAIN u.sections[i].items :
                                       x = u.sections[i].items[k]
    BY <1>3 DEF ItemsOf, ToSet
  <2>2. ASSUME grounded, NEW i \in DOMAIN p.sections PROVE validateSection(p.sections[i])
    <3>1. i \in 1..4
      BY <1>2, <1>3
    <3>2. \A k \in DOMAIN u.sections[i].items : u.sections[i].items[k] \in ItemsOf(u)
      BY <2>1, <3>1
    <3>3. validateSection(u.sections[i])
      BY <1>8, <2>2, <3>1, <3>2
    <3>4. QED BY <1>2, <3>3
  <2>3. ASSUME \A i \in DOMAIN p.sections : validateSection(p.sections[i]), NEW x \in ItemsOf(u)
        PROVE  PlacesOf(x.id, withGraph) # {}
    <3>1. PICK i \in 1..4 : \E k \in DOMAIN u.sections[i].items : x = u.sections[i].items[k]
      BY <2>1
    <3>2. validateSection(u.sections[i])
      BY <1>2, <1>3, <2>3
    <3>3. \A k \in DOMAIN u.sections[i].items : PlacesOf(u.sections[i].items[k].id, withGraph) # {}
      BY <1>8, <3>2
    <3>4. QED BY <3>1, <3>3
  <2>4. QED BY <2>2, <2>3
<1>10. \A i, j \in DOMAIN p.sections : p.sections[i].id = p.sections[j].id => i = j
  BY <1>1, <1>2, <1>3
<1>11. \A i \in DOMAIN p.risks : validateRisk(p.risks[i])
  <2> SUFFICES ASSUME NEW i \in DOMAIN u.risks PROVE validateRisk(u.risks[i])
    BY <1>2
  <2> DEFINE r == u.risks[i]
  <2>1. r \in UcpRisk
    BY <1>3
  <2> HIDE DEF r
  <2>2. r.level \in {"high", "medium"} /\ r.kind \in RiskKinds /\ r.node \in Ids \cup {NoNode}
    BY <2>1 DEF UcpRisk
  <2>3. r.level # Malformed /\ r.kind # Malformed /\ r.node # Malformed
    BY <2>2, MalformedAssumption
  <2>4. validateRisk(r)
    BY <2>2, <2>3 DEF validateRisk, Typed
  <2>5. QED BY <2>4 DEF r
<1>12. \A i \in DOMAIN p.excluded : p.excluded[i] # Malformed
  BY <1>2, <1>3, MalformedAssumption
<1> HIDE DEF grounded
<1>13. validateUniversalPack(p) <=> grounded /\ v[1] = 1
  BY <1>4, <1>5, <1>6, <1>7, <1>9, <1>10, <1>11, <1>12, Zenon DEF validateUniversalPack
<1>14. QED BY <1>13 DEF p, grounded

-----------------------------------------------------------------------------
(* Each kind of damage leaves something wrong that the consumer looks at   *)

LEMMA SpoiltShows ==
  ASSUME NEW x, NEW d \in Spoilt(x)
  PROVE  DOMAIN d = DOMAIN x /\ \E f \in DOMAIN x : d[f] = Malformed
BY DEF Spoilt

LEMMA SpoiltItem ==
  ASSUME NEW x \in UcpItem,
         NEW d \in Spoilt(x) \cup {[x EXCEPT !.evidence = e] : e \in Spoilt(x.evidence)}
  PROVE  ~validateItem(d)
<1>1. DOMAIN x = {"id", "text", "kind", "layer", "position", "score", "evidence", "tokensEstimate"}
  BY DEF UcpItem
<1>2. CASE d \in Spoilt(x)
  BY <1>1, <1>2, SpoiltShows DEF validateItem, Typed
<1>3. ASSUME NEW e \in Spoilt(x.evidence), d = [x EXCEPT !.evidence = e]
      PROVE  ~validateItem(d)
  <2>1. d.evidence = e
    BY <1>1, <1>3
  <2>2. \E i \in DOMAIN e : e[i] = Malformed
    BY SpoiltShows
  <2>3. QED BY <2>1, <2>2 DEF validateItem
<1>4. QED BY <1>2, <1>3

LEMMA SpoiltCapabilities ==
  LET c == KAWN_PROTOCOL_CAPABILITIES
  IN \A d \in Spoilt(c) \cup {[c EXCEPT !.flags = f] : f \in Spoilt(c.flags)} :
       \A v : ~validateCapabilities(d, v)
<1> DEFINE c == KAWN_PROTOCOL_CAPABILITIES
<1> SUFFICES ASSUME NEW d \in Spoilt(c) \cup {[c EXCEPT !.flags = f] : f \in Spoilt(c.flags)}, NEW v
             PROVE  ~validateCapabilities(d, v)
  OBVIOUS
<1>1. DOMAIN c = {"protocolVersion", "flags", "nodeKinds", "layers"} /\ DOMAIN c.flags = Flags
  BY DEF KAWN_PROTOCOL_CAPABILITIES
<1> HIDE DEF c
<1>2. CASE d \in Spoilt(c)
  BY <1>1, <1>2, SpoiltShows DEF validateCapabilities, Typed
<1>3. ASSUME NEW f \in Spoilt(c.flags), d = [c EXCEPT !.flags = f]
      PROVE  ~validateCapabilities(d, v)
  <2>1. d.flags = f
    BY <1>1, <1>3
  <2>2. \E g \in Flags : f[g] = Malformed
    BY <1>1, SpoiltShows
  <2>3. QED BY <2>1, <2>2 DEF validateCapabilities
<1>4. QED BY <1>2, <1>3

LEMMA DamageShows ==
  ASSUME NEW u, NEW withGraph, NEW max, SoundPack(u, withGraph, max), NEW d \in Damaged(u)
  PROVE  ~validateUniversalPack(d)
<1> DEFINE Caps == Spoilt(u.capabilities)
                     \cup {[u.capabilities EXCEPT !.flags = f] : f \in Spoilt(u.capabilities.flags)}
           Worse(item) == Spoilt(item) \cup {[item EXCEPT !.evidence = e] : e \in Spoilt(item.evidence)}
           Budgeted(b) == [u EXCEPT !.budget = b]
           Able(c) == [u EXCEPT !.capabilities = c]
           Sectioned(s, x) == [u EXCEPT !.sections[s] = x]
           Placed(s, i, x) == [u EXCEPT !.sections[s].items[i] = x]
           Risky(i, r) == [u EXCEPT !.risks[i] = r]
           Without(e) == [u EXCEPT !.excluded = e]
<1>1. /\ u \in UniversalPack /\ u.budget \in [limit : Nat, used : Nat]
      /\ u.capabilities = KAWN_PROTOCOL_CAPABILITIES /\ u.sections \in Seq(UcpSection)
      /\ u.risks \in Seq(UcpRisk)
      /\ DOMAIN u = {"protocolVersion", "text", "mode", "confidence", "budget", "capabilities",
                     "sections", "risks", "excluded"}
  BY DEF SoundPack, UniversalPack
<1>2. CASE d \in Spoilt(u)
  BY <1>1, <1>2, SpoiltShows DEF validateUniversalPack, Typed
<1>3. ASSUME NEW b \in Spoilt(u.budget), d = Budgeted(b) PROVE ~validateUniversalPack(d)
  <2>1. d.budget = b
    BY <1>1, <1>3
  <2>2. DOMAIN u.budget = {"limit", "used"}
    BY <1>1
  <2>3. \E f \in {"limit", "used"} : b[f] = Malformed
    BY <2>2, SpoiltShows
  <2>4. QED BY <2>1, <2>3 DEF validateUniversalPack, Typed
<1>4. ASSUME NEW c \in Caps, d = Able(c) PROVE ~validateUniversalPack(d)
  <2>1. d.capabilities = c
    BY <1>1, <1>4
  <2>2. ~validateCapabilities(c, d.protocolVersion)
    BY <1>1, SpoiltCapabilities, Zenon
  <2>3. QED BY <2>1, <2>2 DEF validateUniversalPack
<1>5. ASSUME NEW s \in DOMAIN u.sections, NEW y, ~validateSection(y), d.sections = [u.sections EXCEPT ![s] = y]
      PROVE  ~validateUniversalPack(d)
  <2>1. s \in DOMAIN d.sections /\ d.sections[s] = y
    BY <1>5
  <2>2. QED BY <2>1, <1>5 DEF validateUniversalPack
<1>6. ASSUME NEW s \in DOMAIN u.sections, NEW x \in Spoilt(u.sections[s]), d = Sectioned(s, x)
      PROVE  ~validateUniversalPack(d)
  <2>1. u.sections[s] \in UcpSection
    BY <1>1
  <2>2. DOMAIN u.sections[s] = {"id", "text", "role", "items"}
    BY <2>1 DEF UcpSection
  <2>3. ~validateSection(x)
    BY <2>2, SpoiltShows DEF validateSection, Typed
  <2>4. d.sections = [u.sections EXCEPT ![s] = x]
    BY <1>1, <1>6
  <2>5. QED BY <2>3, <2>4, <1>5
<1>7. ASSUME NEW s \in DOMAIN u.sections, NEW i \in DOMAIN u.sections[s].items,
             NEW x \in Worse(u.sections[s].items[i]), d = Placed(s, i, x)
      PROVE  ~validateUniversalPack(d)
  <2> DEFINE sec == u.sections[s]
             items == sec.items
             new == [items EXCEPT ![i] = x]
             y == [sec EXCEPT !.items = new]
  <2>1. sec \in UcpSection
    BY <1>1
  <2>2. items \in Seq(UcpItem) /\ "items" \in DOMAIN sec
    BY <2>1 DEF UcpSection
  <2>3. items[i] \in UcpItem
    BY <2>2
  <2>4. ~validateItem(x)
    BY <2>3, SpoiltItem
  <2>5. d.sections = [u.sections EXCEPT ![s] = y]
    BY <1>1, <1>7, Zenon DEF UniversalPack
  <2>6. i \in DOMAIN new /\ new[i] = x
    OBVIOUS
  <2> HIDE DEF items, new
  <2>7. y.items = new
    BY <2>2
  <2> HIDE DEF y
  <2>8. ~validateSection(y)
    BY <2>4, <2>6, <2>7 DEF validateSection
  <2>9. QED BY <2>5, <2>8, <1>5
<1>8. ASSUME NEW i \in DOMAIN u.risks, NEW r \in Spoilt(u.risks[i]), d = Risky(i, r)
      PROVE  ~validateUniversalPack(d)
  <2>1. u.risks[i] \in UcpRisk
    BY <1>1
  <2>2. DOMAIN u.risks[i] = {"level", "node", "kind"}
    BY <2>1 DEF UcpRisk
  <2>3. ~validateRisk(r)
    BY <2>2, SpoiltShows DEF validateRisk, Typed
  <2>4. d.risks = [u.risks EXCEPT ![i] = r]
    BY <1>1, <1>8
  <2>5. i \in DOMAIN d.risks /\ d.risks[i] = r
    BY <2>4
  <2>6. QED BY <2>3, <2>5 DEF validateUniversalPack
<1>9. ASSUME NEW e \in Spoilt(u.excluded), d = Without(e) PROVE ~validateUniversalPack(d)
  <2>1. d.excluded = e
    BY <1>1, <1>9
  <2>2. \E i \in DOMAIN e : e[i] = Malformed
    BY SpoiltShows
  <2>3. QED BY <2>1, <2>2 DEF validateUniversalPack
<1> DEFINE A == {Budgeted(b) : b \in Spoilt(u.budget)}
           B == {Able(c) : c \in Caps}
           C == UNION {{Sectioned(s, x) : x \in Spoilt(u.sections[s])} : s \in DOMAIN u.sections}
           D == UNION {UNION {{Placed(s, i, x) : x \in Worse(u.sections[s].items[i])}
                              : i \in DOMAIN u.sections[s].items} : s \in DOMAIN u.sections}
           E == UNION {{Risky(i, r) : r \in Spoilt(u.risks[i])} : i \in DOMAIN u.risks}
           F == {Without(e) : e \in Spoilt(u.excluded)}
<1>10. d \in Spoilt(u) \/ d \in A \/ d \in B \/ d \in C \/ d \in D \/ d \in E \/ d \in F
  <2>1. d \in Spoilt(u) \cup A \cup B \cup C \cup D \cup E \cup F
    BY Zenon DEF Damaged
  <2> HIDE DEF A, B, C, D, E, F
  <2>2. QED BY <2>1
<1> HIDE DEF Caps, Worse, Budgeted, Able, Sectioned, Placed, Risky, Without
<1>11. /\ d \in A => \E b \in Spoilt(u.budget) : d = Budgeted(b)
       /\ d \in B => \E c \in Caps : d = Able(c)
       /\ d \in C => \E s \in DOMAIN u.sections : \E x \in Spoilt(u.sections[s]) : d = Sectioned(s, x)
       /\ d \in D => \E s \in DOMAIN u.sections : \E i \in DOMAIN u.sections[s].items :
                       \E x \in Worse(u.sections[s].items[i]) : d = Placed(s, i, x)
       /\ d \in E => \E i \in DOMAIN u.risks : \E r \in Spoilt(u.risks[i]) : d = Risky(i, r)
       /\ d \in F => \E e \in Spoilt(u.excluded) : d = Without(e)
  <2>1. d \in A => \E b \in Spoilt(u.budget) : d = Budgeted(b)
    OBVIOUS
  <2>2. d \in B => \E c \in Caps : d = Able(c)
    OBVIOUS
  <2>3. d \in C => \E s \in DOMAIN u.sections : \E x \in Spoilt(u.sections[s]) : d = Sectioned(s, x)
    OBVIOUS
  <2>4. d \in D => \E s \in DOMAIN u.sections : \E i \in DOMAIN u.sections[s].items :
                     \E x \in Worse(u.sections[s].items[i]) : d = Placed(s, i, x)
    <3> DEFINE At(s, i) == {Placed(s, i, x) : x \in Worse(u.sections[s].items[i])}
    <3>1. D = UNION {UNION {At(s, i) : i \in DOMAIN u.sections[s].items} : s \in DOMAIN u.sections}
      BY Zenon
    <3>2. \A s, i : d \in At(s, i) => \E x \in Worse(u.sections[s].items[i]) : d = Placed(s, i, x)
      OBVIOUS
    <3> HIDE DEF At, D
    <3>3. d \in D => \E s \in DOMAIN u.sections : \E i \in DOMAIN u.sections[s].items : d \in At(s, i)
      BY <3>1
    <3>4. QED BY <3>2, <3>3, Zenon
  <2>5. d \in E => \E i \in DOMAIN u.risks : \E r \in Spoilt(u.risks[i]) : d = Risky(i, r)
    OBVIOUS
  <2>6. d \in F => \E e \in Spoilt(u.excluded) : d = Without(e)
    OBVIOUS
  <2> HIDE DEF A, B, C, D, E, F
  <2>7. QED BY <2>1, <2>2, <2>3, <2>4, <2>5, <2>6
<1> HIDE DEF A, B, C, D, E, F
<1>12. QED BY <1>2, <1>3, <1>4, <1>6, <1>7, <1>8, <1>9, <1>10, <1>11, Zenon

LEMMA SoundIsTrusted ==
  ASSUME NEW u, NEW withGraph \in BOOLEAN, NEW max \in Nat, SoundPack(u, withGraph, max),
         NEW versions \in SUBSET (Int \X Int), NEW needs
  PROVE  TrustedPack(u, withGraph, max, versions, needs)
<1> DEFINE items == ItemsOf(u)
           grounded == \A x \in items : PlacesOf(x.id, withGraph) # {}
<1>1. \A v \in versions : validateUniversalPack([u EXCEPT !.protocolVersion = v])
                            <=> grounded /\ v[1] = CONTEXT_PROTOCOL_VERSION[1]
  <2>1. CONTEXT_PROTOCOL_VERSION[1] = 1
    BY DEF CONTEXT_PROTOCOL_VERSION
  <2>2. \A v \in Int \X Int : validateUniversalPack([u EXCEPT !.protocolVersion = v])
                                <=> grounded /\ v[1] = 1
    BY IsAccepted
  <2> HIDE DEF grounded
  <2>3. QED BY <2>1, <2>2
<1>2. \A d \in Damaged(u) : ~validateUniversalPack(d)
  BY DamageShows
<1>3. \A x \in items : SoundItem(x, withGraph, max)
  <2>1. DOMAIN u.sections = 1..4
    BY DEF SoundPack, UniversalPack
  <2> SUFFICES ASSUME NEW s \in 1..4, NEW x \in ToSet(u.sections[s].items)
               PROVE  SoundItem(x, withGraph, max)
    BY <2>1 DEF ItemsOf
  <2>2. PICK k \in DOMAIN u.sections[s].items : x = u.sections[s].items[k]
    BY DEF ToSet
  <2>3. QED BY <2>2 DEF SoundPack
<1> HIDE DEF items
<1>4. ASSUME NEW wanted \in needs, NEW v \in versions, negotiate(u.capabilities, wanted, v)
      PROVE  /\ wanted.nodeKinds # NoNode => {x.kind : x \in items} \subseteq wanted.nodeKinds
             /\ wanted.layers # NoNode => {x.layer : x \in items} \subseteq wanted.layers
  <2>1. u.capabilities.nodeKinds = NodeKinds /\ u.capabilities.layers = Layers
    BY DEF SoundPack, UniversalPack, KAWN_PROTOCOL_CAPABILITIES
  <2>2. /\ wanted.nodeKinds # NoNode => NodeKinds \subseteq wanted.nodeKinds
        /\ wanted.layers # NoNode => Layers \subseteq wanted.layers
    BY <1>4, <2>1 DEF negotiate
  <2>3. \A x \in items : x.kind \in NodeKinds /\ x.layer \in Layers
    <3>1. \A x \in UcpItem : x.kind \in NodeKinds /\ x.layer \in Layers
      BY DEF UcpItem
    <3>2. QED BY <1>3, <3>1 DEF SoundItem
  <2>4. QED BY <2>2, <2>3
<1>5. \A x \in items :
        /\ ToSet(x.evidence) \subseteq PlacesOf(x.id, withGraph) /\ NoRepeats(x.evidence)
        /\ Len(x.evidence) <= 1 + max
        /\ Len(x.evidence) = 1 + max \/ PlacesOf(x.id, withGraph) \subseteq ToSet(x.evidence)
  BY <1>3 DEF SoundItem, Grounds, Proofs
<1>6. QED BY <1>1, <1>2, <1>4, <1>5, Zenon DEF TrustedPack, items

\* Of whatever graph and finite task, mode, budget and depth, with the graph at
\* hand or without, the pack kawn hands over is accepted by readers of its major
\* version exactly when there is evidence for each item, and refused when any one
\* field has come to be of another type; its items keep to the kinds and layers
\* that a consumer agreed on, whatever it asked for; and the evidence of an item
\* is what there is of it, each once, or as much of it as was asked for
\* (fromContextPack.ts:43, validate.ts:42, negotiate.ts:49).
THEOREM TrustForAll ==
  Spec => [](\A task : IsFiniteSet(task) =>
               \A requested \in Modes \cup {"auto"}, budget \in Nat, depth \in Nat,
                  withGraph \in BOOLEAN, max \in Nat, versions \in SUBSET (Int \X Int) :
                 \A needs :
                   TrustedPack(toUniversalPack(buildContextPack(graph, task, requested, budget, depth),
                                               graph, withGraph, max),
                               withGraph, max, versions, needs))
<1>1. GraphTyped => \A task : IsFiniteSet(task) =>
               \A requested \in Modes \cup {"auto"}, budget \in Nat, depth \in Nat,
                  withGraph \in BOOLEAN, max \in Nat, versions \in SUBSET (Int \X Int) :
                 \A needs :
                   TrustedPack(toUniversalPack(buildContextPack(graph, task, requested, budget, depth),
                                               graph, withGraph, max),
                               withGraph, max, versions, needs)
  BY UniversalIs, SoundIsTrusted
<1>2. QED BY <1>1, GraphsTyped, PTL

\* The property of the run, which asks it of the tasks and limits it is given.
THEOREM PacksTrusted == Spec => []PacksAreTrusted
<1>1. GraphTyped => PacksAreTrusted
  <2> SUFFICES ASSUME GraphTyped, NEW task \in Tasks, NEW withGraph \in BOOLEAN, NEW max \in {0, 2}
               PROVE  TrustedPack(toUniversalPack(buildContextPack(graph, task, "auto", 100, 2),
                                                  graph, withGraph, max),
                                  withGraph, max, {1, 2} \X {0, 3}, Needs)
    BY Zenon DEF PacksAreTrusted
  <2>1. IsFiniteSet(task) /\ 100 \in Nat /\ 2 \in Nat /\ max \in Nat /\ "auto" \in Modes \cup {"auto"}
    BY TasksAssumption
  <2>2. \A requested \in Modes \cup {"auto"}, budget \in Nat, depth \in Nat :
          SoundPack(toUniversalPack(buildContextPack(graph, task, requested, budget, depth),
                                    graph, withGraph, max), withGraph, max)
    BY <2>1, UniversalIs
  <2>3. SoundPack(toUniversalPack(buildContextPack(graph, task, "auto", 100, 2),
                                  graph, withGraph, max), withGraph, max)
    BY <2>1, <2>2
  <2>4. {1, 2} \X {0, 3} \in SUBSET (Int \X Int)
    OBVIOUS
  <2>5. QED BY <2>1, <2>3, <2>4, SoundIsTrusted
<1>2. QED BY <1>1, GraphsTyped, PTL
=============================================================================

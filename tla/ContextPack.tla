----------------------------- MODULE ContextPack -----------------------------
(***************************************************************************)
(* The Context Pack of a task: which nodes matter to it                     *)
(* (context/rankContext.ts), what reading them costs                       *)
(* (context/tokenBudget.ts), and what fits the budget                       *)
(* (context/buildContextPack.ts).                                           *)
(*                                                                         *)
(* A task is its set of keywords.  Of a node's label and path the model     *)
(* keeps which keywords they contain: as a whole word, as part of a word,   *)
(* or only across a camelCase boundary.  Scores are multiplied by the       *)
(* largest degree, which makes them integers.                              *)
(***************************************************************************)
EXTENDS ChangeImpact, Integers

CONSTANTS
  DataWords, TestWords, DocWords,   \* the words resolveMode listens to
  RankLimit                         \* RANK_LIMIT

ASSUME RankAssumption == RankLimit \in Nat

\* No node has a negative number of lines (0: none are known) or of characters.
ASSUME SizesAssumption == \A n \in Ids : Info[n].lines \in Nat /\ Info[n].chars \in Nat

Modes == {"code", "docs", "data", "tests", "all"}

-----------------------------------------------------------------------------
(* Ranking                                                                 *)

keywordScore(n, task) == 2 * Cardinality(task \cap Info[n].whole)
                           + Cardinality(task \cap Info[n].part)

inMode(n, mode) ==
  /\ Info[n].layer # "visual"
  /\ CASE mode = "docs"  -> Info[n].layer = "docs"
       [] mode = "code"  -> Info[n].layer # "docs"
       [] mode = "data"  -> Info[n].layer \in {"data", "code"}
       [] mode = "tests" -> Info[n].layer \in {"test", "code"}
       [] OTHER          -> TRUE

resolveMode(task, mode) ==
  LET data == task \cap DataWords # {}
      test == task \cap TestWords # {}
      doc  == task \cap DocWords # {}
  IN IF mode # "auto" THEN mode
     ELSE IF data /\ ~test /\ ~doc THEN "data"
     ELSE IF test /\ ~data /\ ~doc THEN "tests"
     ELSE IF doc /\ ~data /\ ~test THEN "docs"
     ELSE "all"

\* A loop counts twice.
degree(g, n) == Cardinality({e \in EdgesOf(g) : e.from = n}) + Cardinality({e \in EdgesOf(g) : e.to = n})

maxDeg(g) == CHOOSE d \in {1} \cup {degree(g, n) : n \in Ids} :
               \A c \in {1} \cup {degree(g, n) : n \in Ids} : c <= d

specificity(n) == CASE Info[n].type \in {"function", "route", "class"} -> 3
                    [] Info[n].type = "symbol" -> 2
                    [] OTHER -> 0

\* A fault: the generic-document penalty is as large as a keyword.
scoreNodeHarsh(g, n, kw, depth, maxDepth) ==
  maxDeg(g) * (10 * kw + 2 * (maxDepth - depth + 1) + specificity(n)
               - (IF Info[n].layer = "docs" THEN 12 ELSE 0))
  + (IF kw > 0 THEN 2 ELSE -3) * degree(g, n)

\* maxDeg times the score of the source.
scoreNode(g, n, kw, depth, maxDepth) ==
  LET penalty == CASE Info[n].layer # "docs" -> 0
                   [] Info[n].layer = "docs" /\ kw <= 0 -> 6
                   [] OTHER -> IF Info[n].generic THEN 4 ELSE 0
  IN maxDeg(g) * (10 * kw + 2 * (maxDepth - depth + 1) + specificity(n) - penalty)
     + (IF kw > 0 THEN 2 ELSE -3) * degree(g, n)

Rank(g, n, task, depth, maxDepth, via) ==
  [id |-> n, kw |-> keywordScore(n, task), depth |-> depth, via |-> via,
   score |-> scoreNode(g, n, keywordScore(n, task), depth, maxDepth)]

\* best is a function on the nodes considered so far.
consider(best, r) ==
  IF r.id \in DOMAIN best /\ r.score <= best[r.id].score THEN best
  ELSE [n \in DOMAIN best \cup {r.id} |-> IF n = r.id THEN r ELSE best[n]]

Seeds(g, task, mode) == {n \in g.ids : inMode(n, mode) /\ keywordScore(n, task) > 0}

\* A neighbour is met: acc.next is the frontier being built.
Weigh(g, task, depth, maxDepth, acc, nb) ==
  IF nb[1] \notin g.ids \/ Info[nb[1]].layer = "visual" THEN acc
  ELSE [best |-> consider(acc.best, Rank(g, nb[1], task, depth, maxDepth, nb[2])),
        visited |-> acc.visited \cup {nb[1]},
        next |-> IF nb[1] \in acc.visited THEN acc.next ELSE Append(acc.next, nb[1])]

Widen(g, task, depth, maxDepth, acc, id) ==
  LET nbs == Neighbors(g, id)
      wide[i \in 0..Len(nbs)] ==
        IF i = 0 THEN acc ELSE Weigh(g, task, depth, maxDepth, wide[i - 1], nbs[i])
  IN wide[Len(nbs)]

\* One round of the expansion.
Round(g, task, depth, maxDepth, acc) ==
  LET done[i \in 0..Len(acc.next)] ==
        IF i = 0 THEN [acc EXCEPT !.next = <<>>]
        ELSE Widen(g, task, depth, maxDepth, done[i - 1], acc.next[i])
  IN done[Len(acc.next)]

\* Score, then depth, then id.
RankBefore(a, b) == \/ a.score > b.score
                    \/ a.score = b.score /\ a.depth < b.depth
                    \/ a.score = b.score /\ a.depth = b.depth /\ a.id < b.id

\* The best rank of every node that was met within maxDepth of a seed.
Expand(g, task, seeds, maxDepth) ==
  LET round[d \in 0..maxDepth] ==
        IF d = 0 THEN [best |-> [n \in seeds |-> Rank(g, n, task, 0, maxDepth, "seed")],
                       visited |-> seeds, next |-> Sorted(seeds)]
        ELSE Round(g, task, d, maxDepth, round[d - 1])
  IN round[maxDepth].best

BestFirst(best, mode) ==
  SortBy({best[n] : n \in {m \in DOMAIN best : inMode(m, mode)}}, RankBefore)

UpTo(seq, limit) == IF limit = 0 \/ Len(seq) <= limit THEN seq ELSE SubSeq(seq, 1, limit)

rankContext(g, task, requested, maxDepth, limit) ==
  LET mode == resolveMode(task, requested)
  IN UpTo(BestFirst(Expand(g, task, Seeds(g, task, mode), maxDepth), mode), limit)

queryGraph(g, task, mode, limit) == rankContext(g, task, mode, 1, limit)

-----------------------------------------------------------------------------
(* The pack                                                                *)

\* 64 characters a line, four characters a token; a file without lines
\* counts as 40 of them.
estimateTokens(n) ==
  LET chars == CASE Info[n].lines > 0 -> 64 * Info[n].lines
                 [] Info[n].lines = 0 /\ Info[n].type = "file" -> 40 * 64
                 [] OTHER -> Info[n].chars + 64
  IN IF (chars + 3) \div 4 < 8 THEN 8 ELSE (chars + 3) \div 4

sectionFor(type) ==
  CASE type \in {"file", "function", "class", "route", "symbol", "env"} -> "code"
    [] type \in {"doc", "section"} -> "docs"
    [] type \in {"table", "migration"} -> "tables"
    [] type = "test" -> "tests"
    [] OTHER -> "skip"

\* A fault: the section ends at the first item that does not fit.
FillUntilFull(acc, r, budget) ==
  IF acc.left = <<>> /\ acc.used + estimateTokens(r.id) <= budget
  THEN [acc EXCEPT !.in = Append(@, r), !.used = @ + estimateTokens(r.id)]
  ELSE [acc EXCEPT !.left = Append(@, r)]

\* An item goes in when it still fits; later, smaller ones may fit after it.
Fill(acc, r, budget) ==
  IF acc.used + estimateTokens(r.id) <= budget
  THEN [acc EXCEPT !.in = Append(@, r), !.used = @ + estimateTokens(r.id)]
  ELSE [acc EXCEPT !.left = Append(@, r)]

Cost(items) ==
  LET sum[i \in 0..Len(items)] == IF i = 0 THEN 0 ELSE sum[i - 1] + estimateTokens(items[i].id)
  IN sum[Len(items)]

IdsOf(items) == [i \in DOMAIN items |-> items[i].id]

\* A hundredth of the confidence: how much of the task the items mention, and
\* whether there is code or a table among them.
Confidence(task, items, grounded) ==
  LET hay     == UNION {Info[n].whole \cup Info[n].part \cup Info[n].across : n \in ToSet(IdsOf(items))}
      covered == IF task = {} THEN 0
                 ELSE (120 * Cardinality(task \cap hay) + Cardinality(task)) \div (2 * Cardinality(task))
  IN 20 + covered + (IF grounded THEN 20 ELSE 0)

\* One section filled, after `used` tokens have been spent.
Filled(items, used, budget) ==
  LET filled[i \in 0..Len(items)] ==
        IF i = 0 THEN [in |-> <<>>, left |-> <<>>, used |-> used]
        ELSE Fill(filled[i - 1], items[i], budget)
  IN filled[Len(items)]

\* The ranked items of one section.
Part(ranked, s) ==
  LET part[i \in 0..Len(ranked)] ==
        IF i = 0 THEN <<>>
        ELSE IF sectionFor(Info[ranked[i].id].type) = s THEN Append(part[i - 1], ranked[i])
        ELSE part[i - 1]
  IN part[Len(ranked)]

\* The pack of its four sections; code and docs are as they were filled.
Assembled(g, task, mode, budget, code, docs, tables, tests) ==
  LET items == code.in \o docs.in \o tables \o tests
  IN [mode |-> mode, budget |-> budget, tokensUsed |-> docs.used,
      mustRead |-> code.in, relatedDocs |-> docs.in, tables |-> tables, tests |-> tests,
      excluded |-> IdsOf(code.left \o docs.left),
      risks |-> ScoreRisks(g, IdsOf(items)),
      confidence |-> Confidence(task, items, code.in # <<>> \/ tables # <<>>)]

\* Tables and tests come first, and are never dropped; then code, then docs.
PackFrom(g, task, mode, budget, ranked) ==
  LET tables == Part(ranked, "tables")
      tests  == Part(ranked, "tests")
      code   == Filled(Part(ranked, "code"), Cost(tables \o tests), budget)
  IN Assembled(g, task, mode, budget, code, Filled(Part(ranked, "docs"), code.used, budget),
               tables, tests)

buildContextPack(g, task, requested, budget, maxDepth) ==
  LET mode == resolveMode(task, requested)
  IN PackFrom(g, task, mode, budget, rankContext(g, task, mode, maxDepth, RankLimit))
=============================================================================

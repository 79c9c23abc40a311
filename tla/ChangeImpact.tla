---------------------------- MODULE ChangeImpact ----------------------------
(***************************************************************************)
(* `kawn impact` and `kawn pr-impact`: what git says has changed            *)
(* (git/changedFiles.ts), laid over the graph of the last scan              *)
(* (impact/changeImpact.ts), with risk flags (impact/riskScore.ts).         *)
(*                                                                         *)
(* Git's answers come as NUL-separated tokens.  A status token is its first *)
(* letter; a path is a name, which may look like a status.                  *)
(***************************************************************************)
EXTENDS GraphQueries

CONSTANTS
  PathOrder,    \* the paths, in the order of localeCompare
  Failed        \* a git command that exits with an error

Paths == ToSet(PathOrder)
Letters == {"A", "M", "D", "T", "R", "C"}

\* Every path has one place in the order; a path is neither empty nor undefined.
ASSUME PathsAssumption ==
  /\ PathOrder \in Seq(Paths) /\ \A i, j \in DOMAIN PathOrder : PathOrder[i] = PathOrder[j] => i = j
  /\ "" \notin Paths /\ NoNode \notin Paths /\ Failed \notin Seq(Paths \cup Letters \cup {""})
  /\ \A n \in Ids : Info[n].path # NoNode

PathBefore(p, q) == (CHOOSE i \in DOMAIN PathOrder : PathOrder[i] = p)
                      < (CHOOSE i \in DOMAIN PathOrder : PathOrder[i] = q)

-----------------------------------------------------------------------------
(* What has changed                                                        *)

mapStatusLetter(letter) == IF letter \in Letters THEN letter ELSE "other"

\* A turn of the loop: a status, and one path, or two when the status is a rename
\* or a copy.  At an empty token, and where a path is missing, the loop ends.
ReadChange(acc, parts) ==
  LET code == parts[acc.at]
      moved == code \in {"R", "C"}
      last == acc.at + (IF moved THEN 2 ELSE 1)
  IN IF acc.at > Len(parts) \/ code = "" \/ last > Len(parts)
     THEN [acc EXCEPT !.at = Len(parts) + 1]
     ELSE [at |-> last + 1,
           files |-> Append(acc.files, [path |-> parts[last], status |-> mapStatusLetter(code),
                                        old |-> IF moved THEN parts[acc.at + 1] ELSE NoNode])]

ParseNameStatusZ(parts) ==
  LET read[k \in 0..Len(parts)] == IF k = 0 THEN [at |-> 1, files |-> <<>>]
                                   ELSE ReadChange(read[k - 1], parts)
  IN read[Len(parts)].files

ParseZList(parts) ==
  LET kept[k \in 0..Len(parts)] == IF k = 0 THEN <<>>
                                   ELSE IF parts[k] = "" THEN kept[k - 1]
                                   ELSE Append(kept[k - 1], parts[k])
  IN kept[Len(parts)]

\* The first entry of a path stays; sorted by path.
DedupeSorted(files) ==
  LET paths == SortBy({files[i].path : i \in DOMAIN files}, PathBefore)
  IN [k \in DOMAIN paths |-> First(files, LAMBDA f : f.path = paths[k])]

\* What execFileSync gets from git: [present, inside, base, head : BOOLEAN,
\* diff, others : tokens or Failed].
GitChangedFiles(git, base, includeUntracked) ==
  LET throw(code) == [error |-> code, files |-> <<>>]
      changes(files) == [error |-> NoNode, files |-> DedupeSorted(files)]
      untracked == IF includeUntracked /\ git.others # Failed
                   THEN LET list == ParseZList(git.others)
                        IN [i \in DOMAIN list |-> [path |-> list[i], status |-> "A", old |-> NoNode]]
                   ELSE <<>>
  IN CASE ~git.present            -> throw("git-missing")
       [] git.present /\ ~git.inside -> throw("not-a-repo")
       [] OTHER ->
          IF base /\ ~(git.base /\ git.head) THEN throw("bad-ref")
          ELSE IF ~base /\ ~git.head THEN throw("no-head")
          ELSE IF git.diff = Failed THEN throw("git-failed")
          ELSE changes(ParseNameStatusZ(git.diff) \o (IF base THEN <<>> ELSE untracked))

-----------------------------------------------------------------------------
(* What it touches                                                         *)

Lookup(g, path) == {n \in g.ids : Info[n].path = path}

\* A fault: a rename is always looked up under its new path.
HitNewPath(g, f) == Lookup(g, f.path)

\* The old path counts only while the graph has nothing at the new one.
Hit(g, f) == IF Lookup(g, f.path) # {} \/ f.old = NoNode THEN Lookup(g, f.path)
             ELSE Lookup(g, f.old)

\* The file node first, then the symbols by id.
FileBefore(a, b) == \/ Info[a].type = "file" /\ Info[b].type # "file"
                    \/ (Info[a].type = "file") = (Info[b].type = "file") /\ a < b

\* The order in which ids enter the set of seeds.
SeedList(g, files) ==
  LET entered[k \in 0..Len(files)] ==
        IF k = 0 THEN <<>>
        ELSE entered[k - 1] \o SortBy(Hit(g, files[k]) \ ToSet(entered[k - 1]), FileBefore)
  IN entered[Len(files)]

\* A flag names the first node of the scope that shows its signal.
Flag(level, kind, scope, nodes) ==
  IF nodes \cap ToSet(scope) = {} THEN <<>>
  ELSE <<[level |-> level, kind |-> kind, node |-> First(scope, LAMBDA n : n \in nodes)]>>

ForeignKeys(g, nodes) ==
  SortedEdges({e \in EdgesOf(g) : /\ e.type = "references" /\ {e.from, e.to} \subseteq nodes
                                  /\ {Info[e.from].type, Info[e.to].type} = {"table"}})

\* One flag for each kind of signal, and one for each foreign key; high ones first.
ScoreRisks(g, scope) ==
  LET codeish == {n \in ToSet(scope) \cap g.ids : Info[n].layer \in {"code", "data"}}
      keys == ForeignKeys(g, ToSet(scope))
  IN Flag("high", "auth", scope, {n \in codeish : Info[n].auth})
     \o Flag("high", "tenant-isolation", scope, {n \in codeish : Info[n].tenant})
     \o Flag("medium", "data-write", scope,
             {n \in codeish : Info[n].type \in {"function", "route"} /\ Info[n].writes})
     \o [i \in DOMAIN keys |-> [level |-> "medium", kind |-> "referential-integrity", node |-> keys[i].from]]
     \o (IF \E n \in codeish : Info[n].type \in {"table", "migration"}
         THEN <<[level |-> "medium", kind |-> "schema", node |-> NoNode]>> ELSE <<>>)

\* Nodes just outside the scope that an edge connects to it.
Boundary(g, scope, types) ==
  {n \in g.ids \ scope : /\ Info[n].type \in types
                         /\ \E e \in EdgesOf(g) : \/ e.from = n /\ e.to \in scope
                                                  \/ e.to = n /\ e.from \in scope}

\* What is said of the files, once the seeds and what reaches them are known.
ImpactOf(g, files, seeds, reach) ==
  LET reached == [i \in DOMAIN reach.nodes |-> reach.nodes[i].id]
      scope   == ToSet(seeds) \cup ToSet(reached)
  IN [unmapped  |-> {files[i].path : i \in {j \in DOMAIN files : Hit(g, files[j]) = {}}},
      changed   |-> ToSet(seeds),
      impacted  |-> reached,
      truncated |-> reach.truncated,
      recheck   |-> {Info[n].path : n \in ToSet(reached)} \ {files[i].path : i \in DOMAIN files},
      docs      |-> Boundary(g, scope, {"doc", "section"}),
      tables    |-> Boundary(g, scope, {"table", "migration"}),
      tests     |-> Boundary(g, scope, {"test"}),
      risks     |-> ScoreRisks(g, seeds \o reached)]

ImpactFrom(g, files, seeds, maxDepth, maxNodes) ==
  ImpactOf(g, files, seeds, ReverseReachable(g, ToSet(seeds), maxDepth, maxNodes))

AnalyzeChangeImpact(g, files, maxDepth, maxNodes) ==
  ImpactFrom(g, files, SeedList(g, files), maxDepth, maxNodes)
=============================================================================

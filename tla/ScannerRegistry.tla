--------------------------- MODULE ScannerRegistry ---------------------------
(***************************************************************************)
(* A scan from the walk to the graph: plugins register in any order, each  *)
(* file goes to the first plugin that claims it, the plugins scan in        *)
(* order, then finalize in order, and buildGraph merges what they gave.     *)
(* A file may be unreadable, and any call of a plugin may throw or return   *)
(* nonsense; at most MaxFaults of that happens in a behaviour.  A file is   *)
(* known by its place in the walk, a plugin by its place among the sorted.  *)
(***************************************************************************)
EXTENDS FileScanners, Integers

CONSTANTS
  Offered,     \* plugins a host registers: [id, rank, order, ok, kind]; rank orders the ids
  Repos,       \* sequence of [files, ignore]; files in the order of the walk
  MaxBytes,    \* DEFAULT_MAX_FILE_BYTES
  MaxFaults,
  Foreign(_),  \* what the third-party plugin returns for a file
  NoFile

VARIABLES
  repo,         \* the repository being scanned
  registered,   \* plugins, in registration order
  phase,        \* "register", "detect", "scan", "finalize", "build", "done"
  done,         \* files, then plugins, the phase is through with
  assignment,   \* [input -> place of the plugin that owns it, or NoOwner]
  allNodes, allEdges,
  own,          \* set of data payloads of the docs plugin
  workspacePackages,
  diagnostics,  \* set of [code, plugin, file]
  lost,         \* what faults took away so far: set of [step, plugin, file]
  graph

pipelineVars == <<repo, registered, phase, done, assignment, allNodes, allEdges, own,
                  workspacePackages, diagnostics, lost, graph>>

-----------------------------------------------------------------------------
(* The walk                                                                *)

DEFAULT_DIRS == {"node_modules", ".git", ".kawn", ".athar", "dist", "build", ".next", "out",
                 "coverage", ".turbo", ".cache", ".vercel", "vendor"}

\* A bare name is a directory anywhere; "dir/*" and "dir" are paths from the root.
isIgnoredPath(path, rules) ==
  \E r \in rules : CASE r.form = "name" -> FALSE
                     [] r.form = "glob" -> Last(path) \in r.names
                     [] OTHER           -> IsPrefix(r.path, path)
IgnoredDirs(rules) == DEFAULT_DIRS \cup {r.name : r \in {x \in rules : x.form = "name"}}

Walked(path, rules) ==
  /\ \A i \in 1..(Len(path) - 1) : /\ path[i] \notin IgnoredDirs(rules)
                                   /\ ~isIgnoredPath(SubSeq(path, 1, i), rules)
  /\ ~isIgnoredPath(path, rules)

CodeExts == {".ts", ".tsx", ".js", ".jsx", ".mjs", ".cjs"}
classifyFile(f) == CASE Last(f.path) = "package.json" -> "packageJson"
                     [] f.ext = ".sql" -> "sql"
                     [] f.ext \in {".md", ".mdx"} -> "docs"
                     [] f.ext \in CodeExts \cup {".py"} -> "code"
                     [] OTHER -> "ignore"                    \* .d.ts, .pyi, binaries

Unreadable(f) == [step |-> "read", plugin |-> None, file |-> f.path] \in lost

\* The files scanRepo reads and hands to the registry.
Readable(r) == {i \in DOMAIN Repos[r].files : /\ Walked(Repos[r].files[i].path, Repos[r].ignore)
                                             /\ classifyFile(Repos[r].files[i]) # "ignore"}
fileAt(i) == Repos[repo].files[i]
inputs == {i \in Readable(repo) : ~Unreadable(fileAt(i))}

-----------------------------------------------------------------------------
(* The registry                                                            *)

BeforeById(p, q) == p.rank < q.rank           \* a fault: the order is not looked at
Before(p, q) == \/ p.order < q.order
                \/ p.order = q.order /\ p.rank < q.rank
ByOrderOnly == SortSeq(registered, LAMBDA p, q : p.order < q.order)  \* a fault: the tie is not broken
ordered ==
  LET plugins == ToSet(registered)
      Earlier(p) == {q \in plugins : Before(q, p)}
  IN [k \in 1..Cardinality(plugins) |-> CHOOSE p \in plugins : Cardinality(Earlier(p)) = k - 1]

\* detect of each plugin.
Claims(p, f) == CASE p.kind = "package" -> Last(f.path) = "package.json"
                  [] p.kind = "code"    -> f.ext \in CodeExts
                  [] p.kind = "python"  -> f.ext = ".py"
                  [] p.kind = "docs"    -> f.ext \in {".md", ".mdx"}
                  [] OTHER              -> f.ext = ".sql"     \* sql, and the third party's

\* The id of a plugin is its place among the ids, its order a finite number, and the
\* package plugin (order 0) goes before the code plugin (order 1).
ASSUME OfferedAssumption ==
  /\ None \notin Offered
  /\ \A p \in Offered : p.order \in Int /\ p.rank \in Int
  /\ \A p, q \in Offered : p.rank = q.rank <=> p.id = q.id
  /\ \A p, q \in Offered : p.kind = "package" /\ q.kind = "code" => p.order < q.order

\* What the parsers hand over: lists of statements, decorators, clauses and headings.
Parsed(f) ==
  /\ f.ext \in CodeExts \cup {".py", ".sql"} => IsSequence(f.body)
  /\ f.ext = ".py" => \A s \in ToSet(f.body) : s.k = "function" =>
                         /\ IsSequence(s.decorators)
                         /\ \A d \in ToSet(s.decorators) : IsSequence(d.methods)
  /\ f.ext \in {".md", ".mdx"} => IsSequence(f.body.headings)

\* The walk meets a path once.
ASSUME ReposAssumption ==
  /\ MaxBytes \in Nat
  /\ \A r \in DOMAIN Repos :
       /\ IsSequence(Repos[r].files)
       /\ \A f \in ToSet(Repos[r].files) : f.size \in Nat /\ Parsed(f)
       /\ \A i, j \in DOMAIN Repos[r].files :
            Repos[r].files[i].path = Repos[r].files[j].path => i = j

\* A third party's plugin for SQL gives a list of nodes, and no packages.
ASSUME ForeignAssumption ==
  \A r \in DOMAIN Repos : \A f \in ToSet(Repos[r].files) :
    f.ext = ".sql" => /\ IsSequence(Foreign(f).nodes)
                      /\ \A n \in ToSet(Foreign(f).nodes) : n.type # "package"

\* It gives tables, and what lies between them.
ASSUME TablesAssumption ==
  \A r \in DOMAIN Repos : \A f \in ToSet(Repos[r].files) :
    f.ext = ".sql" => /\ \A n \in ToSet(Foreign(f).nodes) : /\ n.type = "table"
                                                            /\ n.id = None \/ n.id[1] = "table"
                      /\ \A e \in Foreign(f).edges : e[1] = "references"

\* Paths are lists of names; null is no id.
ASSUME PathsAssumption ==
  \A r \in DOMAIN Repos : \A f \in ToSet(Repos[r].files) :
    /\ IsSequence(f.path) /\ f.path # <<>>
    /\ \A name \in ToSet(f.path) : Len(name) \in Nat \ {0}
    /\ fileId(f.path) # None
    /\ f.ext \in CodeExts => \A s \in ToSet(f.body) : SymbolId(f.path, s) # None

Diag(code, p, f) == [code |-> code, plugin |-> p, file |-> f]
Lost(step, p, f) == [step |-> step, plugin |-> p, file |-> f]
MayFail == Cardinality(lost) < MaxFaults

NoOwner == 0
Owned == {i \in inputs : assignment[i] # NoOwner}
knownFiles == {fileAt(i).path : i \in inputs}
importTargets == {fileAt(i).path : i \in {j \in Owned : registered[assignment[j]].kind = "code"}}

ScanOf(p, f, names) ==
  CASE p.kind = "package" -> scanPackageJson(f)
    [] p.kind = "code"    -> scanCode(f, importTargets, names)
    [] p.kind = "python"  -> scanPython(f, knownFiles)
    [] p.kind = "sql"     -> scanSql(f)
    [] p.kind = "docs"    -> scanDocs(f)
    [] OTHER              -> Foreign(f)

HasFinalize(p) == p.kind \in {"package", "docs"}
FinalizeOf(p, nodes, docs) ==
  IF p.kind = "package" THEN derivePackageEdges(nodes) ELSE linkDocsToCode(docs, nodes)

\* The first node of each id.
FirstOfItsId(nodes) ==
  {i \in DOMAIN nodes : \A j \in DOMAIN nodes : nodes[j].id = nodes[i].id => i <= j}

\* Nodes and edges without an id are dropped, and the first node of an id is kept.
validateContribution(c) ==
  [nodes |-> Picked(c.nodes, {i \in FirstOfItsId(c.nodes) : c.nodes[i].id # None}),
   edges |-> {e \in c.edges : e[2] # None /\ e[3] # None},
   data  |-> c.data]

PipelineInit ==
  /\ repo \in DOMAIN Repos
  /\ registered = <<>> /\ phase = "register" /\ done = {}
  /\ assignment = <<>> /\ allNodes = <<>> /\ allEdges = {} /\ own = {}
  /\ workspacePackages = {} /\ diagnostics = {} /\ graph = None
  /\ \/ lost = {}
     \/ MaxFaults > 0 /\ \E i \in Readable(repo) : lost = {Lost("read", None, fileAt(i).path)}

\* A plugin that is invalid, or whose id is taken, is rejected with a diagnostic.
Register(p) ==
  /\ phase = "register"
  /\ p \notin ToSet(registered)
  /\ Diag("rejected", p.id, p.kind) \notin diagnostics
  /\ IF p.ok /\ \A q \in ToSet(registered) : q.id # p.id
     THEN registered' = Append(registered, p) /\ UNCHANGED diagnostics
     ELSE /\ diagnostics' = diagnostics \cup {Diag("rejected", p.id, p.kind)}
          /\ UNCHANGED registered
  /\ UNCHANGED <<repo, phase, done, assignment, allNodes, allEdges, own, workspacePackages, lost, graph>>

StartScan ==
  /\ phase = "register"
  /\ \A p \in Offered : p \in ToSet(registered) \/ Diag("rejected", p.id, p.kind) \in diagnostics
  /\ phase' = "detect"
  /\ registered' = ordered                         \* only the sorted copy is used from here
  /\ assignment' = [i \in inputs |-> NoOwner]
  /\ UNCHANGED <<repo, done, allNodes, allEdges, own, workspacePackages, diagnostics, lost, graph>>

\* The first plugin in order that claims the file, of those whose detect does not throw.
Owner(f, thrown) ==
  LET claimants == {k \in DOMAIN registered : Claims(registered[k], f)} \ thrown
  IN IF claimants = {} THEN NoOwner ELSE CHOOSE k \in claimants : \A l \in claimants : k <= l

\* A detect that throws is passed over.
DetectFile(i) ==
  LET f == fileAt(i)
  IN IF f.size > MaxBytes
     THEN /\ diagnostics' = diagnostics \cup {Diag("file_too_large", None, f.path)}
          /\ UNCHANGED <<assignment, lost>>
     ELSE \/ /\ assignment' = [assignment EXCEPT ![i] = Owner(f, {})]
             /\ UNCHANGED <<diagnostics, lost>>
          \/ /\ MayFail
             /\ \E k \in DOMAIN registered :
                  /\ Owner(f, {}) = k
                  /\ assignment' = [assignment EXCEPT ![i] = Owner(f, {k})]
                  /\ diagnostics' = diagnostics \cup {Diag("detect_threw", registered[k].id, f.path)}
                  /\ lost' = lost \cup {Lost("detect", registered[k].id, f.path)}

Detect ==
  /\ phase = "detect"
  /\ \E i \in inputs \ done : /\ \A j \in inputs \ done : i <= j
                              /\ DetectFile(i)
                              /\ done' = done \cup {i}
  /\ UNCHANGED <<repo, registered, phase, allNodes, allEdges, own, workspacePackages, graph>>

EndDetect ==
  /\ phase = "detect" /\ inputs \subseteq done
  /\ phase' = "scan" /\ done' = {}
  /\ UNCHANGED <<repo, registered, assignment, allNodes, allEdges, own, workspacePackages, diagnostics, lost, graph>>

PackageNodes(nodes) == {n \in ToSet(nodes) : n.type = "package"}

\* A contribution joins the shared accumulation.
Accumulate(p, raw) ==
  LET c == validateContribution(raw)
  IN /\ allNodes' = allNodes \o c.nodes
     /\ allEdges' = allEdges \cup c.edges
     /\ own' = own \cup {d \in {c.data} : p.kind = "docs" /\ d # NoData}
     /\ workspacePackages' = workspacePackages \cup {n.label : n \in PackageNodes(c.nodes)}

ScanFile(p, f) ==
  \/ /\ Accumulate(p, ScanOf(p, f, workspacePackages))
     /\ UNCHANGED <<diagnostics, lost>>
  \/ /\ MayFail                                    \* the scan throws
     /\ diagnostics' = diagnostics \cup {Diag("scan_threw", p.id, f.path)}
     /\ lost' = lost \cup {Lost("scan", p.id, f.path)}
     /\ UNCHANGED <<allNodes, allEdges, own, workspacePackages>>
  \/ /\ MayFail                                    \* ... or returns something else
     /\ Accumulate(p, Nothing)                      \* what is no object counts as empty
     /\ diagnostics' = diagnostics \cup {Diag("malformed_contribution", p.id, NoFile)}
     /\ lost' = lost \cup {Lost("scan", p.id, f.path)}

\* Plugin by plugin, and the files of each in the order of the walk.
ScansFirst(i, j) == \/ assignment[i] < assignment[j]
                    \/ assignment[i] = assignment[j] /\ i <= j

Scan ==
  /\ phase = "scan"
  /\ \E i \in Owned \ done : /\ \A j \in Owned \ done : ScansFirst(i, j)
                             /\ ScanFile(registered[assignment[i]], fileAt(i))
                             /\ done' = done \cup {i}
  /\ UNCHANGED <<repo, registered, phase, assignment, graph>>

EndScan ==
  /\ phase = "scan" /\ Owned \subseteq done
  /\ phase' = "finalize" /\ done' = {}
  /\ UNCHANGED <<repo, registered, assignment, allNodes, allEdges, own, workspacePackages, diagnostics, lost, graph>>

finalizers == {k \in DOMAIN registered : HasFinalize(registered[k])}

\* The two plugins that have a finalize return edges and no nodes, or throw, or
\* return nonsense, which is validated to nothing.
FinalizePlugin(p) ==
  \/ /\ allEdges' = allEdges \cup FinalizeOf(p, allNodes, own)
     /\ UNCHANGED <<diagnostics, lost>>
  \/ /\ MayFail
     /\ \E code \in {"finalize_threw", "malformed_contribution"} :
          diagnostics' = diagnostics \cup {Diag(code, p.id, NoFile)}
     /\ lost' = lost \cup {Lost("finalize", p.id, NoFile)}
     /\ UNCHANGED allEdges

\* finalize of the next plugin that has one, against every node there is.
Finalize ==
  /\ phase = "finalize"
  /\ \E k \in finalizers \ done : /\ \A l \in finalizers \ done : k <= l
                                  /\ FinalizePlugin(registered[k])
                                  /\ done' = done \cup {k}
  /\ UNCHANGED <<repo, registered, phase, assignment, allNodes, own, workspacePackages, graph>>

\* The first node of an id is kept, and an edge with both its ends.
buildGraph(nodes, edges) ==
  [nodes |-> {nodes[i] : i \in FirstOfItsId(nodes)},
   edges |-> {e \in edges : e[2] \in IdsOf(nodes) /\ e[3] \in IdsOf(nodes)}]

Build ==
  /\ phase = "finalize" /\ finalizers \subseteq done
  /\ phase' = "done"
  /\ graph' = buildGraph(allNodes, allEdges)
  /\ UNCHANGED <<repo, registered, done, assignment, allNodes, allEdges, own, workspacePackages,
                 diagnostics, lost>>

PipelineNext == \/ \E p \in Offered : Register(p)
                \/ StartScan \/ Detect \/ EndDetect \/ Scan \/ EndScan \/ Finalize \/ Build

PipelineSpec == PipelineInit /\ [][PipelineNext]_pipelineVars
-----------------------------------------------------------------------------
(* What a scan promises                                                    *)

\* The owner a file should have: of the plugins that claim it and whose detect
\* did not throw, the one no other precedes.
OwnerOf(f) ==
  LET claimants == {p \in ToSet(registered) : /\ Claims(p, f) /\ f.size <= MaxBytes
                                              /\ Lost("detect", p.id, f.path) \notin lost}
  IN IF claimants = {} THEN None
     ELSE CHOOSE p \in claimants : \A q \in claimants \ {p} : Before(p, q)

KeptFiles == {f \in {fileAt(i) : i \in inputs} : /\ OwnerOf(f) # None
                                                /\ Lost("scan", OwnerOf(f).id, f.path) \notin lost}
KeptBy(kind) == {f \in KeptFiles : OwnerOf(f).kind = kind}
PackageNames == UNION {{n.label : n \in ToSet(validateContribution(scanPackageJson(f)).nodes)}
                         : f \in KeptBy("package")}
ContributionOf(f) == validateContribution(ScanOf(OwnerOf(f), f, PackageNames))
KeptFinalizers == {p \in ToSet(registered) : /\ HasFinalize(p)
                                             /\ Lost("finalize", p.id, NoFile) \notin lost}

\* One file or plugin that fails costs its own results and nothing else, and the order
\* of registration decides nothing: the graph is the union of what each file's rightful
\* owner gives for it and of what the finalizers derive, less the dangling edges.
FailureCostsItsOwn ==
  phase = "done" =>
    \A nodes \in {UNION {ToSet(ContributionOf(f).nodes) : f \in KeptFiles}} :
    \A ids \in {{n.id : n \in nodes}} :
    \A docs \in {{ContributionOf(f).data : f \in KeptBy("docs")}} :
    \A edges \in {(UNION {ContributionOf(f).edges : f \in KeptFiles})
                 \cup (UNION {FinalizeOf(p, allNodes, docs) : p \in KeptFinalizers})} :
      /\ {n.id : n \in graph.nodes} = ids
      /\ Cardinality(graph.nodes) = Cardinality(ids)
      /\ graph.nodes \subseteq nodes
      /\ graph.edges = {e \in edges : e[2] \in ids /\ e[3] \in ids}

\* A file belongs to one package at most, and to the innermost one: no package's
\* directory holds the file and lies deeper.
MembershipIsDeepest ==
  phase = "done" =>
    LET memberships == {e \in graph.edges : e[1] = "belongs_to" /\ e[3][1] = "package"}
        Holds(p, e) == p \in PackageNodes(allNodes) /\ IsPrefix(p.dir, e[2][2])
    IN \A e \in memberships :
         /\ \A d \in memberships : d[2] = e[2] => d = e
         /\ \E p \in PackageNodes(allNodes) :
              /\ p.id = e[3] /\ Holds(p, e)
              /\ \A q \in PackageNodes(allNodes) : Holds(q, e) => Len(q.dir) <= Len(p.dir)

\* The imports of workspace packages are linked whichever file came first: plugins run
\* in an order that lets the code scanner see every package of the graph.
WorkspaceImportsLinked ==
  phase = "done" =>
    \A f \in KeptBy("code") : \A s \in ToSet(f.body) :
      /\ s.k = "import" /\ s.spec[1] \notin {".", ".."}
      /\ packageId(s.spec[1]) \in {n.id : n \in graph.nodes}
      => E("imports", fileId(f.path), packageId(s.spec[1])) \in graph.edges

\* What the imports of a code file bind: [local, exported, from].
Bindings(f) ==
  UNION {{[local |-> n.local, exported |-> n.exported,
           from |-> resolveLocalImport(f.path, s.spec, importTargets)] : n \in s.names}
           : s \in {x \in ToSet(f.body) : x.k = "import"}}

\* A call of a function imported by name, in the body of a top-level function, is an
\* edge between the two, whatever order the two files were scanned in; the file has one
\* import of that name and no definition, and no class of the caller's name.
CallsLinkAcrossFiles ==
  phase = "done" =>
    \A f \in KeptBy("code") : \A b \in Bindings(f) : \A s \in ToSet(f.body) :
      /\ b.from # None /\ s.k \in {"function", "const"}
      /\ [inner |-> None, callee |-> b.local] \in s.calls
      /\ \A c \in Bindings(f) : c.local = b.local => c = b
      /\ \A t \in ToSet(f.body) : t.name # b.local /\ (t.name = s.name => t.k # "class")
      /\ SymbolId(f.path, s) # functionId(b.from, b.exported)
      /\ functionId(b.from, b.exported) \in {n.id : n \in graph.nodes}
      => E("calls", SymbolId(f.path, s), functionId(b.from, b.exported)) \in graph.edges

\* Callers are attributed to the enclosing function or class (extractCalls.ts:9), in
\* nested functions as in Python (extractPyCalls.ts:12): the call of a top-level
\* function anywhere inside another one of its file is an edge of the graph.
NestedCallsKept ==
  phase = "done" =>
    \A f \in KeptBy("code") : \A s, t \in ToSet(f.body) :
      /\ s.k = "function" /\ t.k = "function" /\ s # t
      /\ \E c \in s.calls : c.callee = t.name
      => E("calls", SymbolId(f.path, s), SymbolId(f.path, t)) \in graph.edges

\* One section node per heading (scanDocs.ts:32).
OneSectionPerHeading ==
  phase = "done" =>
    \A f \in KeptBy("docs") :
      Cardinality({n \in graph.nodes : n.type = "section" /\ n.path = f.path})
        = Len(f.body.headings)
=============================================================================

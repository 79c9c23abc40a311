----------------------------- MODULE GraphStore -----------------------------
(***************************************************************************)
(* The `.kawn/` store of one repository: git and the working tree on one   *)
(* side, any number of `kawn scan` / `kawn update` processes on the other, *)
(* and the three files a scan leaves behind (graph.json, report.md,        *)
(* manifest.json).                                                         *)
(*                                                                         *)
(* A scan is not atomic.  It lists the tree, reads the files one by one,   *)
(* stamps and serializes the graph, truncates and fills graph.json, then   *)
(* report.md, asks git for HEAD, and truncates and fills manifest.json.    *)
(* The user, git, a second scan or a crash may come between any two of     *)
(* these steps.  No file is written through a temporary, so a reader can   *)
(* meet a torn one.                                                        *)
(*                                                                         *)
(* The bytes of graph.json are a record: the content of every file the     *)
(* scan saw, the schema of the build that wrote them, and `generatedAt`.   *)
(* SHA-256 is taken to be injective, so a hash is the bytes it names.      *)
(***************************************************************************)
EXTENDS Naturals

CONSTANTS
  Files,       \* paths under the root that a scanner plugin owns
  Tracked,     \* those of them git tracks
  Contents,    \* what a file may contain
  Absent,      \* "no such file" in a working tree
  Commits,     \* commit ids git may ever create
  NoCommit,    \* the tree of a commit that has not been made
  NoHead,      \* `git rev-parse HEAD` failed: null
  BadHead,     \* a gitHead some editor left in manifest.json, not a string
  Scanners,    \* CLI processes that may run a scan
  Schemas,     \* values of GRAPH_SCHEMA_VERSION over the builds in use
  MaxClock,    \* bound on generatedAt
  GitMayFail,  \* may a git command fail or run into its timeout?
  Tampering,   \* which files of the store somebody but a scan may write to
  Missing,     \* a file that is not there
  Torn,        \* a file whose bytes do not parse
  Edited,      \* bytes of a graph.json no scan wrote, that still parse
  Nothing      \* an empty slot in a process's memory

FileState == Contents \cup {Absent}
Snapshot  == [Files -> FileState]
Tree      == [Tracked -> FileState]

GraphBytes    == [tree : Snapshot, schema : Schemas, at : 0..MaxClock]
\* `calm` and `skipped` are no part of the file: they record, for
\* CalmScanIsFaithful, whether the scan that wrote the manifest ran over a
\* repository at rest, and then which files it could not read.
ManifestBytes == [schema    : Schemas,
                  head      : Commits \cup {NoHead, BadHead},
                  graphHash : GraphBytes,
                  skipped   : SUBSET Files,
                  calm      : BOOLEAN]

Stages == {"idle", "reading", "built", "graphOpen", "graphDone",
           "reportDone", "manifestBuilt", "manifestOpen"}

ASSUME ConstantsAssumption ==
  /\ Tracked \subseteq Files
  /\ Absent \notin Contents
  /\ NoCommit \notin Tree
  /\ NoHead \notin Commits /\ BadHead \notin Commits /\ NoHead # BadHead
  /\ MaxClock \in Nat
  /\ GitMayFail \in BOOLEAN /\ Tampering \subseteq {"graph", "manifest", "all"}
  /\ {Missing, Torn, Edited, Nothing} \cap (GraphBytes \cup ManifestBytes) = {}
  /\ Missing # Torn /\ Missing # Edited /\ Torn # Edited
  /\ Missing \notin 0..MaxClock /\ Nothing \notin Schemas

VARIABLES
  work,        \* the working tree
  head,        \* the commit HEAD names, or NoHead
  commits,     \* the tree of every commit made so far
  clock,       \* wall clock, as far as generatedAt tells moments apart
  graph,       \* .kawn/graph.json
  report,      \* .kawn/report.md: the generatedAt of the graph it describes
  manifest,    \* .kawn/manifest.json
  scan,        \* the memory of every scanner process
  \* history variables
  calm,        \* per process: clean tree when the scan began, untouched since
  lone,        \* per process: no other scan ran since this one began
  whole        \* a lone scan finished and nobody wrote to the store since

repoVars  == <<work, head, commits>>
storeVars == <<graph, report, manifest>>
vars == <<work, head, commits, clock, graph, report, manifest, scan, calm,
          lone, whole>>

-----------------------------------------------------------------------------
(* git and the user's editor                                               *)

Clean == /\ head # NoHead
         /\ \A f \in Tracked : work[f] = commits[head][f]

\* currentGitHead: null when git fails, and outside a repository.
HeadReadings == {head} \cup (IF GitMayFail THEN {NoHead} ELSE {})

TrackedPart(s) == [f \in Tracked |-> s[f]]

\* The working tree after git writes tree t over its tracked files.
Overlay(t) == [f \in Files |-> IF f \in Tracked THEN t[f] ELSE work[f]]

\* Whatever touches the repository disturbs every scan in progress.
Disturb == /\ calm' = [p \in Scanners |-> FALSE]
           /\ UNCHANGED <<clock, storeVars, scan, lone, whole>>

Edit(f, c) ==
  /\ work[f] # c
  /\ work' = [work EXCEPT ![f] = c]
  /\ UNCHANGED <<head, commits>>
  /\ Disturb

Commit(c) ==
  /\ commits[c] = NoCommit
  /\ commits' = [commits EXCEPT ![c] = TrackedPart(work)]
  /\ head' = c
  /\ UNCHANGED work
  /\ Disturb

Checkout(c) ==
  /\ Clean
  /\ c # head
  /\ commits[c] # NoCommit
  /\ head' = c
  /\ work' = Overlay(commits[c])
  /\ UNCHANGED commits
  /\ Disturb

\* `git restore .` or `git stash`: the tracked files are HEAD's again.
Restore ==
  /\ head # NoHead
  /\ ~Clean
  /\ work' = Overlay(commits[head])
  /\ UNCHANGED <<head, commits>>
  /\ Disturb

RepoStep == \/ \E f \in Files, c \in FileState : Edit(f, c)
            \/ \E c \in Commits : Commit(c) \/ Checkout(c)
            \/ Restore

-----------------------------------------------------------------------------
(* The stages of one scan                                                  *)

Idle == [stage |-> "idle", build |-> Nothing,
         mark |-> [f \in Files |-> "unseen"],
         snap |-> [f \in Files |-> Absent],
         built |-> Nothing, man |-> Nothing, shared |-> FALSE]

At(p, s) == scan[p].stage = s

Alone(p) == \A q \in Scanners \ {p} : At(q, "idle")

\* A CLI of some build starts.
StartScan(p, v) ==
  /\ At(p, "idle")
  /\ scan' = [scan EXCEPT ![p] = [Idle EXCEPT !.stage = "reading", !.build = v]]
  /\ calm' = [calm EXCEPT ![p] = Clean]
  /\ lone' = [q \in Scanners |-> IF q = p THEN Alone(p) ELSE FALSE]
  /\ UNCHANGED <<repoVars, clock, storeVars, whole>>

\* walk() comes by f and lists it if it is there.  In a directory it cannot read
\* it finds nothing.
WalkFile(p, f) ==
  /\ At(p, "reading")
  /\ scan[p].mark[f] = "unseen"
  /\ \E mark \in (IF work[f] = Absent THEN {"done"} ELSE {"listed", "skipped"}) :
       scan' = [scan EXCEPT ![p].mark[f] = mark]
  /\ UNCHANGED <<repoVars, clock, storeVars, calm, lone, whole>>

\* readSafe, after the whole walk: a file gone by now, or that cannot be read,
\* is left out with a warning, and the scan goes on.
ReadFile(p, f) ==
  /\ At(p, "reading")
  /\ \A g \in Files : scan[p].mark[g] # "unseen"
  /\ scan[p].mark[f] = "listed"
  /\ \/ scan' = [scan EXCEPT ![p].snap[f] = work[f], ![p].mark[f] = "done"]
     \/ scan' = [scan EXCEPT ![p].mark[f] = "skipped"]
  /\ UNCHANGED <<repoVars, clock, storeVars, calm, lone, whole>>

\* A fault: the graph is built although reads are still under way.
BuildGraphTooSoon(p) ==
  /\ At(p, "reading")
  /\ \E now \in {clock, clock + 1} \cap (0..MaxClock) :
       /\ clock' = now
       /\ scan' = [scan EXCEPT ![p].stage = "built",
                     ![p].built = [tree   |-> scan[p].snap,
                                   schema |-> scan[p].build,
                                   at     |-> now]]
  /\ UNCHANGED <<repoVars, storeVars, calm, lone, whole>>

\* buildGraph stamps the graph with the present millisecond, which may be the
\* one another graph was stamped with.
BuildGraph(p) ==
  /\ At(p, "reading")
  /\ \A f \in Files : scan[p].mark[f] \in {"done", "skipped"}
  /\ \E now \in {clock, clock + 1} \cap (0..MaxClock) :
       /\ clock' = now
       /\ scan' = [scan EXCEPT ![p].stage = "built",
                     ![p].built = [tree   |-> scan[p].snap,
                                   schema |-> scan[p].build,
                                   at     |-> now]]
  /\ UNCHANGED <<repoVars, storeVars, calm, lone, whole>>

\* fs.writeFile opens with O_TRUNC and then writes, in chunks.  Two writers
\* that have the file open together write each at its own offset, so the
\* bytes of either may end up mixed with the other's.
Open(p, from, to) ==
  /\ At(p, from)
  /\ scan' = [q \in Scanners |->
       IF q = p THEN [scan[p] EXCEPT !.stage  = to,
                                     !.shared = \E o \in Scanners \ {p} : At(o, to)]
       ELSE IF At(q, to) THEN [scan[q] EXCEPT !.shared = TRUE]
       ELSE scan[q]]

Outcome(p, bytes) == {bytes} \cup (IF scan[p].shared THEN {Torn} ELSE {})

OpenGraph(p) ==
  /\ Open(p, "built", "graphOpen")
  /\ graph' = Torn
  /\ whole' = FALSE
  /\ UNCHANGED <<repoVars, clock, report, manifest, calm, lone>>

WriteGraph(p) ==
  /\ At(p, "graphOpen")
  /\ graph' \in Outcome(p, scan[p].built)
  /\ scan' = [scan EXCEPT ![p].stage = "graphDone", ![p].shared = FALSE]
  /\ whole' = FALSE
  /\ UNCHANGED <<repoVars, clock, report, manifest, calm, lone>>

\* A fault: a report that is there already is kept.
WriteReportOnce(p) ==
  /\ At(p, "graphDone")
  /\ report' = IF report = Missing THEN scan[p].built.at ELSE report
  /\ scan' = [scan EXCEPT ![p].stage = "reportDone"]
  /\ whole' = FALSE
  /\ UNCHANGED <<repoVars, clock, graph, manifest, calm, lone>>

\* A fault: the manifest is written without having been built.
WriteReportLast(p) ==
  /\ At(p, "graphDone")
  /\ report' = scan[p].built.at
  /\ scan' = [scan EXCEPT ![p].stage = "manifestBuilt"]
  /\ whole' = FALSE
  /\ UNCHANGED <<repoVars, clock, graph, manifest, calm, lone>>

\* No program reads report.md, so its torn state is not kept.
WriteReport(p) ==
  /\ At(p, "graphDone")
  /\ report' = scan[p].built.at
  /\ scan' = [scan EXCEPT ![p].stage = "reportDone"]
  /\ whole' = FALSE
  /\ UNCHANGED <<repoVars, clock, graph, manifest, calm, lone>>

Skipped(p) == {f \in Files : calm[p] /\ scan[p].mark[f] = "skipped"}

\* buildManifest asks git for HEAD only here, long after the files were read.
BuildManifest(p) ==
  /\ At(p, "reportDone")
  /\ \E h \in HeadReadings :
       scan' = [scan EXCEPT ![p].stage = "manifestBuilt",
                  ![p].man = [schema    |-> scan[p].build,
                              head      |-> h,
                              graphHash |-> scan[p].built,
                              skipped   |-> Skipped(p),
                              calm      |-> calm[p]]]
  /\ UNCHANGED <<repoVars, clock, storeVars, calm, lone, whole>>

OpenManifest(p) ==
  /\ Open(p, "manifestBuilt", "manifestOpen")
  /\ manifest' = Torn
  /\ whole' = FALSE
  /\ UNCHANGED <<repoVars, clock, graph, report, calm, lone>>

\* The process ends, and with it what it remembers.
Exit(p) == /\ scan' = [scan EXCEPT ![p] = Idle]
           /\ calm' = [calm EXCEPT ![p] = FALSE]
           /\ lone' = [lone EXCEPT ![p] = FALSE]

WriteManifest(p) ==
  /\ At(p, "manifestOpen")
  /\ manifest' \in Outcome(p, scan[p].man)
  /\ whole' = lone[p]
  /\ Exit(p)
  /\ UNCHANGED <<repoVars, clock, graph, report>>

\* Killed, or a write that failed: runScan ends where it stands, and whatever
\* it had truncated stays truncated.
Crash(p) ==
  /\ ~At(p, "idle")
  /\ Exit(p)
  /\ UNCHANGED <<repoVars, clock, storeVars, whole>>

ScanStep(p) == \/ \E v \in Schemas : StartScan(p, v)
               \/ \E f \in Files : WalkFile(p, f) \/ ReadFile(p, f)
               \/ BuildGraph(p)
               \/ OpenGraph(p)
               \/ WriteGraph(p)
               \/ WriteReport(p)
               \/ BuildManifest(p)
               \/ OpenManifest(p)
               \/ WriteManifest(p)
               \/ Crash(p)

-----------------------------------------------------------------------------
(* Hands on the store that are not a scan's                                *)

\* A hand edit, or git writing a version of graph.json it tracks.
EditGraph ==
  /\ graph' = Edited
  /\ whole' = FALSE
  /\ lone' = [p \in Scanners |-> FALSE]
  /\ UNCHANGED <<repoVars, clock, report, manifest, scan, calm>>

EditManifest ==
  /\ manifest \in ManifestBytes
  /\ manifest' = [manifest EXCEPT !.head = BadHead, !.calm = FALSE, !.skipped = {}]
  /\ whole' = FALSE
  /\ lone' = [p \in Scanners |-> FALSE]
  /\ UNCHANGED <<repoVars, clock, graph, report, scan, calm>>

RemoveStore ==
  /\ graph' = Missing
  /\ report' = Missing
  /\ manifest' = Missing
  /\ whole' = FALSE
  /\ lone' = [p \in Scanners |-> FALSE]
  /\ UNCHANGED <<repoVars, clock, scan, calm>>

TamperStep == \/ "graph" \in Tampering /\ EditGraph
              \/ "manifest" \in Tampering /\ EditManifest
              \/ "all" \in Tampering /\ RemoveStore

-----------------------------------------------------------------------------
Init ==
  /\ work \in Snapshot
  /\ head = NoHead
  /\ commits = [c \in Commits |-> NoCommit]
  /\ clock = 0
  /\ graph = Missing
  /\ report = Missing
  /\ manifest = Missing
  /\ scan = [p \in Scanners |-> Idle]
  /\ calm = [p \in Scanners |-> FALSE]
  /\ lone = [p \in Scanners |-> FALSE]
  /\ whole = FALSE

Next == \/ RepoStep
        \/ \E p \in Scanners : ScanStep(p)
        \/ TamperStep

Spec == Init /\ [][Next]_vars

-----------------------------------------------------------------------------
ScanMemory == [stage  : Stages,
               build  : Schemas \cup {Nothing},
               mark   : [Files -> {"unseen", "listed", "done", "skipped"}],
               snap   : Snapshot,
               built  : GraphBytes \cup {Nothing},
               man    : ManifestBytes \cup {Nothing},
               shared : BOOLEAN]

\* A process past a stage holds what the stage produced.
MemoryOK(m) ==
  /\ m \in ScanMemory
  /\ m.stage # "idle" => m.build \in Schemas
  /\ m.stage \notin {"idle", "reading"} => m.built \in GraphBytes
  /\ m.stage \in {"manifestBuilt", "manifestOpen"} => m.man \in ManifestBytes

\* Type invariant.
TypeOK ==
  /\ work \in Snapshot
  /\ head \in Commits \cup {NoHead}
  /\ commits \in [Commits -> Tree \cup {NoCommit}]
  /\ head # NoHead => commits[head] # NoCommit
  /\ clock \in 0..MaxClock
  /\ graph \in GraphBytes \cup {Missing, Torn, Edited}
  /\ report \in 0..MaxClock \cup {Missing}
  /\ manifest \in ManifestBytes \cup {Missing, Torn}
  /\ scan \in [Scanners -> ScanMemory]
  /\ \A p \in Scanners : MemoryOK(scan[p])
  /\ calm \in [Scanners -> BOOLEAN]
  /\ lone \in [Scanners -> BOOLEAN]
  /\ whole \in BOOLEAN

\* A graph holds the tracked files of the commit a manifest names, but for those
\* the manifest's scan could not read.
Describes(g, m) ==
  \A f \in Tracked :
    g.tree[f] = IF f \in m.skipped THEN Absent ELSE commits[m.head][f]

\* A manifest that names a commit describes that commit's content, whenever
\* the repository was clean when the scan began and at rest until its
\* manifest was built: every tracked file is in the graph as it was committed,
\* or the scan met an error reading it and left it out whole.  This is what makes
\* comparing the manifest's gitHead with HEAD (graphFreshness) mean anything:
\* crashes, overlapping scans and later commits must not be able to pair a graph
\* with a commit it was not read from, and nothing but such an error may leave a
\* file out.
CalmScanIsFaithful ==
  \A m \in {manifest} \cap ManifestBytes :
    m.head \in Commits /\ m.calm
      => commits[m.head] # NoCommit /\ Describes(m.graphHash, m)

\* `kawn update` heals the store.  After a scan that ran alone, whatever an
\* earlier crash, overlap or edit had left behind, graph.json is whole, the
\* manifest holds its hash and schema, and the report is of the same graph.
LoneScanHeals ==
  whole => /\ graph \in GraphBytes
           /\ manifest \in ManifestBytes
           /\ manifest.graphHash = graph
           /\ manifest.schema = graph.schema
           /\ report = graph.at

=============================================================================

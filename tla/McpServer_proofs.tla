--------------------------- MODULE McpServer_proofs --------------------------
(***************************************************************************)
(* Proofs about the store and about the server that serves it, for any     *)
(* files, commits, builds and number of scanner processes, any TTL, git    *)
(* that may fail and a store anybody may write to.                         *)
(***************************************************************************)
EXTENDS McpServer, McpStdio, Loops, SequenceTheorems, TLAPS

-----------------------------------------------------------------------------
(* GraphStore                                                              *)


ScanOK == /\ scan \in [Scanners -> ScanMemory]
          /\ \A p \in Scanners : MemoryOK(scan[p])

\* A process that updates its own memory soundly keeps all memories sound.
LEMMA OwnMemory ==
  ASSUME ScanOK, NEW p \in Scanners, NEW m, MemoryOK(m),
         scan' = [scan EXCEPT ![p] = m]
  PROVE  ScanOK'
  BY DEF ScanOK, MemoryOK

LEMMA IdleOK == MemoryOK(Idle)
  BY DEF MemoryOK, Idle, ScanMemory, Stages, Snapshot, FileState

\* Opening a file moves one process on and marks the sharers.
LEMMA OpenOK ==
  ASSUME ScanOK, NEW p \in Scanners, NEW s, NEW t, Open(p, s, t),
         \/ s = "built" /\ t = "graphOpen"
         \/ s = "manifestBuilt" /\ t = "manifestOpen"
  PROVE  ScanOK'
<1> DEFINE sharing == \E o \in Scanners \ {p} : At(o, t)
<1>1. sharing \in BOOLEAN
  BY DEF At
<1>2. scan' = [q \in Scanners |->
         IF q = p THEN [scan[p] EXCEPT !.stage = t, !.shared = sharing]
         ELSE IF At(q, t) THEN [scan[q] EXCEPT !.shared = TRUE]
         ELSE scan[q]]
  BY Zenon DEF Open
<1> HIDE DEF sharing
<1>3. ASSUME NEW b \in BOOLEAN
      PROVE  MemoryOK([scan[p] EXCEPT !.stage = t, !.shared = b])
  BY <1>3 DEF ScanOK, MemoryOK, ScanMemory, Stages, Open, At
<1>4. ASSUME NEW q \in Scanners PROVE MemoryOK([scan[q] EXCEPT !.shared = TRUE])
  BY <1>4 DEF ScanOK, MemoryOK, ScanMemory
<1>5. ASSUME NEW q \in Scanners PROVE MemoryOK(scan'[q])
  <2>1. CASE q = p
    BY <1>1, <1>2, <1>3, <2>1
  <2>2. CASE q # p /\ At(q, t)
    BY <1>2, <1>4, <2>2
  <2>3. CASE q # p /\ ~At(q, t)
    BY <1>2, <2>3 DEF ScanOK
  <2>4. QED BY <2>1, <2>2, <2>3
<1>6. \A q \in Scanners : scan'[q] \in ScanMemory
  BY <1>5 DEF MemoryOK
<1>7. scan' \in [Scanners -> ScanMemory]
  BY <1>2, <1>6
<1>8. QED
  BY <1>5, <1>7 DEF ScanOK

Marks == {"unseen", "listed", "done", "skipped"}

\* The walk marks the one file it comes by.
LEMMA WalkMarks ==
  ASSUME scan \in [Scanners -> ScanMemory], NEW p \in Scanners, NEW f \in Files,
         WalkFile(p, f)
  PROVE  \E k \in [Files -> Marks] :
           /\ scan' = [scan EXCEPT ![p] = [scan[p] EXCEPT !.mark = k]]
           /\ \A g \in Files \ {f} : k[g] = scan[p].mark[g]
           /\ k[f] \in {"listed", "done", "skipped"}
           /\ k[f] = "done" => work[f] = Absent
<1>1. PICK seen \in {"listed", "done", "skipped"} :
        /\ scan' = [scan EXCEPT ![p].mark[f] = seen]
        /\ seen = "done" => work[f] = Absent
  <2>1. CASE work[f] = Absent
    BY <2>1 DEF WalkFile
  <2>2. CASE work[f] # Absent
    BY <2>2 DEF WalkFile
  <2>3. QED BY <2>1, <2>2
<1> DEFINE k == [scan[p].mark EXCEPT ![f] = seen]
<1>2. scan[p].mark \in [Files -> Marks]
  BY DEF ScanMemory, Marks
<1>3. k \in [Files -> Marks] /\ k[f] = seen
      /\ \A g \in Files \ {f} : k[g] = scan[p].mark[g]
  BY <1>2 DEF Marks
<1>4. scan' = [scan EXCEPT ![p] = [scan[p] EXCEPT !.mark = k]]
  BY <1>1
<1> HIDE DEF k
<1>5. QED BY <1>1, <1>3, <1>4

\* A read files the content and the mark, or the mark alone.
LEMMA ReadMarks ==
  ASSUME scan \in [Scanners -> ScanMemory], work \in Snapshot,
         NEW p \in Scanners, NEW f \in Files, ReadFile(p, f)
  PROVE  \E k \in [Files -> Marks], s \in Snapshot :
           /\ scan' = [scan EXCEPT ![p] = [scan[p] EXCEPT !.mark = k, !.snap = s]]
           /\ \A g \in Files \ {f} : k[g] = scan[p].mark[g] /\ s[g] = scan[p].snap[g]
           /\ \/ k[f] = "done" /\ s[f] = work[f]
              \/ k[f] = "skipped" /\ s[f] = scan[p].snap[f]
<1>1. scan[p] \in ScanMemory /\ scan[p].mark \in [Files -> Marks] /\ scan[p].snap \in Snapshot
  BY DEF ScanMemory, Marks
<1>2. CASE scan' = [scan EXCEPT ![p].snap[f] = work[f], ![p].mark[f] = "done"]
  <2> DEFINE k == [scan[p].mark EXCEPT ![f] = "done"]
             s == [scan[p].snap EXCEPT ![f] = work[f]]
  <2>1. k \in [Files -> Marks] /\ k[f] = "done"
        /\ \A g \in Files \ {f} : k[g] = scan[p].mark[g]
    BY <1>1 DEF Marks
  <2>2. s \in Snapshot /\ s[f] = work[f]
        /\ \A g \in Files \ {f} : s[g] = scan[p].snap[g]
    BY <1>1 DEF Snapshot
  <2>3. scan' = [scan EXCEPT ![p] = [scan[p] EXCEPT !.mark = k, !.snap = s]]
    BY <1>1, <1>2 DEF ScanMemory
  <2> HIDE DEF k, s
  <2>4. QED BY <2>1, <2>2, <2>3
<1>3. CASE scan' = [scan EXCEPT ![p].mark[f] = "skipped"]
  <2> DEFINE k == [scan[p].mark EXCEPT ![f] = "skipped"]
  <2>1. k \in [Files -> Marks] /\ k[f] = "skipped"
        /\ \A g \in Files \ {f} : k[g] = scan[p].mark[g]
    BY <1>1 DEF Marks
  <2>2. [scan[p] EXCEPT !.mark = k] = [scan[p] EXCEPT !.mark = k, !.snap = scan[p].snap]
    BY <1>1 DEF ScanMemory
  <2>3. scan' = [scan EXCEPT ![p] = [scan[p] EXCEPT !.mark = k]]
    BY <1>3
  <2> HIDE DEF k
  <2>4. QED BY <1>1, <2>1, <2>2, <2>3
<1>4. QED BY <1>2, <1>3 DEF ReadFile

LEMMA ReadMemory ==
  ASSUME scan \in [Scanners -> ScanMemory], work \in Snapshot,
         NEW p \in Scanners, NEW f \in Files, ReadFile(p, f)
  PROVE  \E k \in [Files -> Marks], s \in Snapshot :
           scan' = [scan EXCEPT ![p] = [scan[p] EXCEPT !.mark = k, !.snap = s]]
<1>1. PICK k \in [Files -> Marks], s \in Snapshot :
        /\ scan' = [scan EXCEPT ![p] = [scan[p] EXCEPT !.mark = k, !.snap = s]]
        /\ \A g \in Files \ {f} : k[g] = scan[p].mark[g] /\ s[g] = scan[p].snap[g]
        /\ \/ k[f] = "done" /\ s[f] = work[f]
           \/ k[f] = "skipped" /\ s[f] = scan[p].snap[f]
  BY ReadMarks
<1>2. QED BY <1>1, Zenon

LEMMA ManifestMade ==
  ASSUME NEW s \in Schemas, NEW h \in Commits \cup {NoHead}, NEW g \in GraphBytes,
         NEW k \in SUBSET Files, NEW c \in BOOLEAN
  PROVE  [schema |-> s, head |-> h, graphHash |-> g, skipped |-> k, calm |-> c]
           \in ManifestBytes
  BY DEF ManifestBytes

\* The type invariant: whatever crashes, overlaps and edits do, a scanner past
\* a stage holds what the stage produced, and the three files hold a scan's
\* bytes, a foreign hand's, or nothing that parses (runScan, writeGraph,
\* writeReport, writeManifestForGraph).
THEOREM TypeCorrect == Spec => []TypeOK
<1>1. Init => TypeOK
  <2> SUFFICES ASSUME Init PROVE TypeOK
    OBVIOUS
  <2>1. ScanOK
    BY IdleOK DEF Init, ScanOK, MemoryOK
  <2>2. commits \in [Commits -> Tree \cup {NoCommit}] /\ clock \in 0..MaxClock
    BY ConstantsAssumption DEF Init
  <2>3. calm \in [Scanners -> BOOLEAN] /\ lone \in [Scanners -> BOOLEAN]
    BY DEF Init
  <2>4. QED
    BY <2>1, <2>2, <2>3, Zenon DEF Init, TypeOK, ScanOK
<1>2. TypeOK /\ [Next]_vars => TypeOK'
  <2> SUFFICES ASSUME TypeOK, [Next]_vars PROVE TypeOK'
    OBVIOUS
  <2> USE ConstantsAssumption
  <2>0. ScanOK
    BY DEF ScanOK, TypeOK
  <2>1. ASSUME NEW f \in Files, NEW c \in FileState, Edit(f, c) PROVE TypeOK'
    BY <2>1 DEF TypeOK, Edit, Disturb, storeVars, Snapshot
  <2>2. ASSUME NEW c \in Commits, Commit(c) PROVE TypeOK'
    <3>1. TrackedPart(work) \in Tree
      BY DEF TypeOK, TrackedPart, Tree, Snapshot
    <3>2. QED BY <2>2, <3>1 DEF TypeOK, Commit, Disturb, storeVars
  <2>3. ASSUME NEW t \in Tree PROVE Overlay(t) \in Snapshot
    BY <2>3 DEF TypeOK, Overlay, Tree, Snapshot
  <2>4. ASSUME NEW c \in Commits, Checkout(c) PROVE TypeOK'
    BY <2>3, <2>4 DEF TypeOK, Checkout, Disturb, storeVars
  <2>5. CASE Restore
    BY <2>3, <2>5 DEF TypeOK, Restore, Disturb, storeVars
  <2>6. ASSUME NEW p \in Scanners, NEW v \in Schemas, StartScan(p, v) PROVE TypeOK'
    <3> DEFINE m == [Idle EXCEPT !.stage = "reading", !.build = v]
    <3>1. MemoryOK(m)
      BY DEF MemoryOK, Idle, ScanMemory, Stages, Snapshot, FileState
    <3>2. calm' \in [Scanners -> BOOLEAN] /\ lone' \in [Scanners -> BOOLEAN]
      BY <2>6 DEF TypeOK, StartScan, Clean, Alone
    <3>3. scan' = [scan EXCEPT ![p] = m]
      BY <2>6 DEF StartScan
    <3>4. ScanOK'
      BY <2>0, <3>1, <3>3, OwnMemory
    <3>5. QED
      BY <2>6, <3>2, <3>4 DEF TypeOK, ScanOK, StartScan, repoVars, storeVars
  <2>22. ASSUME NEW p \in Scanners, NEW f \in Files, WalkFile(p, f) PROVE TypeOK'
    <3>1. PICK k \in [Files -> Marks] :
            scan' = [scan EXCEPT ![p] = [scan[p] EXCEPT !.mark = k]]
      BY <2>0, <2>22, WalkMarks DEF ScanOK
    <3>2. MemoryOK([scan[p] EXCEPT !.mark = k])
      BY <2>0, <2>22 DEF ScanOK, MemoryOK, ScanMemory, WalkFile, At, Marks
    <3>3. ScanOK'
      BY <2>0, <3>1, <3>2, OwnMemory
    <3>4. QED
      BY <2>22, <3>3 DEF TypeOK, ScanOK, WalkFile, repoVars, storeVars
  <2>7. ASSUME NEW p \in Scanners, NEW f \in Files, ReadFile(p, f) PROVE TypeOK'
    <3>1. PICK k \in [Files -> Marks], c \in Snapshot :
            scan' = [scan EXCEPT ![p] = [scan[p] EXCEPT !.mark = k, !.snap = c]]
      BY <2>0, <2>7, ReadMemory DEF ScanOK, TypeOK
    <3>2. MemoryOK([scan[p] EXCEPT !.mark = k, !.snap = c])
      <4>1. MemoryOK(scan[p]) /\ scan[p].stage = "reading"
        BY <2>0, <2>7 DEF ScanOK, ReadFile, At
      <4>2. QED BY <4>1 DEF MemoryOK, ScanMemory, Marks
    <3>3. ScanOK'
      BY <2>0, <3>1, <3>2, OwnMemory
    <3>4. QED
      BY <2>7, <3>3 DEF TypeOK, ScanOK, ReadFile, repoVars, storeVars
  <2>8. ASSUME NEW p \in Scanners, BuildGraph(p) PROVE TypeOK'
    <3> DEFINE g(now) == [tree |-> scan[p].snap, schema |-> scan[p].build, at |-> now]
               m(now) == [scan[p] EXCEPT !.stage = "built", !.built = g(now)]
    <3>1. PICK now \in 0..MaxClock :
            clock' = now /\ scan' = [scan EXCEPT ![p].stage = "built",
                                                 ![p].built = g(now)]
      BY <2>8 DEF BuildGraph
    <3>2. g(now) \in GraphBytes
      BY <2>0, <2>8 DEF ScanOK, MemoryOK, ScanMemory, BuildGraph, At, GraphBytes
    <3>3. MemoryOK(m(now))
      <4>1. scan[p] \in ScanMemory /\ scan[p].build \in Schemas
        BY <2>0, <2>8 DEF ScanOK, MemoryOK, BuildGraph, At
      <4> HIDE DEF g
      <4>2. QED BY <3>2, <4>1 DEF MemoryOK, ScanMemory, Stages
    <3>4. scan' = [scan EXCEPT ![p] = m(now)]
      BY <2>0, <3>1 DEF ScanOK
    <3>5. ScanOK'
      BY <2>0, <3>3, <3>4, OwnMemory
    <3>6. QED
      BY <2>8, <3>1, <3>5 DEF TypeOK, ScanOK, BuildGraph, repoVars, storeVars
  <2>9. ASSUME NEW p \in Scanners, OpenGraph(p) PROVE TypeOK'
    <3>1. ScanOK'
      BY <2>0, <2>9, OpenOK DEF OpenGraph
    <3>2. QED
      BY <2>9, <3>1 DEF TypeOK, ScanOK, OpenGraph, repoVars
  <2>10. ASSUME NEW p \in Scanners, WriteGraph(p) PROVE TypeOK'
    <3> DEFINE m == [scan[p] EXCEPT !.stage = "graphDone", !.shared = FALSE]
    <3>1. MemoryOK(m) /\ scan[p].built \in GraphBytes
      BY <2>0, <2>10 DEF ScanOK, MemoryOK, ScanMemory, Stages, WriteGraph, At
    <3>2. scan' = [scan EXCEPT ![p] = m]
      BY <2>0, <2>10 DEF WriteGraph, ScanOK
    <3>3. ScanOK'
      BY <2>0, <3>1, <3>2, OwnMemory
    <3>4. QED
      BY <2>10, <3>1, <3>3 DEF TypeOK, ScanOK, WriteGraph, Outcome, repoVars
  <2>11. ASSUME NEW p \in Scanners, WriteReport(p) PROVE TypeOK'
    <3> DEFINE m == [scan[p] EXCEPT !.stage = "reportDone"]
    <3>1. MemoryOK(m) /\ scan[p].built.at \in 0..MaxClock
      BY <2>0, <2>11 DEF ScanOK, MemoryOK, ScanMemory, Stages, WriteReport, At, GraphBytes
    <3>2. scan' = [scan EXCEPT ![p] = m]
      BY <2>0, <2>11 DEF WriteReport, ScanOK
    <3>3. ScanOK'
      BY <2>0, <3>1, <3>2, OwnMemory
    <3>4. QED
      BY <2>11, <3>1, <3>3 DEF TypeOK, ScanOK, WriteReport, repoVars
  <2>12. ASSUME NEW p \in Scanners, BuildManifest(p) PROVE TypeOK'
    <3> DEFINE n(h) == [schema    |-> scan[p].build,
                        head      |-> h,
                        graphHash |-> scan[p].built,
                        skipped   |-> Skipped(p),
                        calm      |-> calm[p]]
               m(h) == [scan[p] EXCEPT !.stage = "manifestBuilt", !.man = n(h)]
    <3>1. PICK h \in HeadReadings :
            scan' = [scan EXCEPT ![p].stage = "manifestBuilt", ![p].man = n(h)]
      BY <2>12 DEF BuildManifest
    <3>2. h \in Commits \cup {NoHead}
      BY DEF HeadReadings, TypeOK
    <3>3. n(h) \in ManifestBytes
      <4>1. /\ scan[p].build \in Schemas /\ scan[p].built \in GraphBytes
            /\ calm[p] \in BOOLEAN
        BY <2>0, <2>12 DEF ScanOK, MemoryOK, BuildManifest, At, TypeOK
      <4>2. Skipped(p) \in SUBSET Files
        BY DEF Skipped
      <4>3. QED BY <3>2, <4>1, <4>2, ManifestMade
    <3>4. MemoryOK(m(h))
      <4>1. MemoryOK(scan[p]) /\ scan[p].stage = "reportDone"
        BY <2>0, <2>12 DEF ScanOK, BuildManifest, At
      <4> HIDE DEF n
      <4>2. QED BY <3>3, <4>1 DEF MemoryOK, ScanMemory, Stages
    <3>5. scan' = [scan EXCEPT ![p] = m(h)]
      BY <2>0, <3>1 DEF ScanOK
    <3>6. ScanOK'
      BY <2>0, <3>4, <3>5, OwnMemory
    <3>7. QED
      BY <2>12, <3>6 DEF TypeOK, ScanOK, BuildManifest, repoVars, storeVars
  <2>13. ASSUME NEW p \in Scanners, OpenManifest(p) PROVE TypeOK'
    <3>1. ScanOK'
      BY <2>0, <2>13, OpenOK DEF OpenManifest
    <3>2. QED
      BY <2>13, <3>1 DEF TypeOK, ScanOK, OpenManifest, repoVars
  <2>14. ASSUME NEW p \in Scanners, Exit(p)
         PROVE  ScanOK' /\ calm' \in [Scanners -> BOOLEAN] /\ lone' \in [Scanners -> BOOLEAN]
    BY <2>0, <2>14, IdleOK, OwnMemory DEF Exit, TypeOK
  <2>15. ASSUME NEW p \in Scanners, WriteManifest(p) PROVE TypeOK'
    <3>1. scan[p].man \in ManifestBytes
      BY <2>0, <2>15 DEF ScanOK, MemoryOK, WriteManifest, At
    <3>2. Exit(p) /\ whole' \in BOOLEAN
      BY <2>15 DEF WriteManifest, TypeOK
    <3>3. QED
      BY <2>14, <2>15, <3>1, <3>2 DEF TypeOK, ScanOK, WriteManifest, Outcome, repoVars
  <2>16. ASSUME NEW p \in Scanners, Crash(p) PROVE TypeOK'
    BY <2>14, <2>16 DEF TypeOK, ScanOK, Crash, repoVars, storeVars
  <2>17. CASE EditGraph
    BY <2>17 DEF TypeOK, EditGraph, repoVars
  <2>18. CASE EditManifest
    <3>1. [manifest EXCEPT !.head = BadHead, !.calm = FALSE, !.skipped = {}]
            \in ManifestBytes
      BY <2>18 DEF EditManifest, ManifestBytes
    <3>2. QED BY <2>18, <3>1 DEF TypeOK, EditManifest, repoVars
  <2>19. CASE RemoveStore
    BY <2>19 DEF TypeOK, RemoveStore, repoVars
  <2>20. CASE UNCHANGED vars
    BY <2>20 DEF TypeOK, vars
  <2>21. QED
    BY <2>1, <2>2, <2>4, <2>5, <2>6, <2>7, <2>8, <2>9, <2>10, <2>11, <2>12,
       <2>13, <2>15, <2>16, <2>17, <2>18, <2>19, <2>20, <2>22
       DEF Next, RepoStep, ScanStep, TamperStep
<1>3. QED
  BY <1>1, <1>2, PTL DEF Spec

-----------------------------------------------------------------------------
(* What a manifest's commit stands for                                     *)

\* CalmScanIsFaithful, said of one manifest.
Faithful(m) ==
  m.head \in Commits /\ m.calm
    => commits[m.head] # NoCommit /\ Describes(m.graphHash, m)

\* While a process is calm the tree is still HEAD's, and what it has read of
\* the tracked files is what they hold.
CalmProgress(p) ==
  calm[p] =>
    /\ Clean
    /\ At(p, "reading") =>
         \A f \in Tracked :
           /\ scan[p].mark[f] = "done" => scan[p].snap[f] = work[f]
           /\ scan[p].mark[f] # "done" => scan[p].snap[f] = Absent
    /\ scan[p].stage \notin {"idle", "reading"} =>
         \A f \in Tracked :
           scan[p].built.tree[f] = IF scan[p].mark[f] = "skipped" THEN Absent
                                   ELSE commits[head][f]

FaithfulInMemory(p) ==
  scan[p].stage \in {"manifestBuilt", "manifestOpen"} => Faithful(scan[p].man)

\* CalmScanIsFaithful is not inductive: a step may write the manifest a
\* process holds, so what processes hold has to be faithful too, and that
\* rests on how far a calm process has come.
CalmInv == /\ \A p \in Scanners : CalmProgress(p)
           /\ \A p \in Scanners : FaithfulInMemory(p)
           /\ CalmScanIsFaithful

\* Commits are never rewritten, so a manifest stays faithful.
LEMMA FaithfulStays ==
  ASSUME TypeOK, NEW m \in ManifestBytes, Faithful(m),
         \A c \in Commits : commits[c] # NoCommit => commits'[c] = commits[c]
  PROVE  Faithful(m)'
  BY DEF Faithful, Describes

\* What CalmInv says of a process holds on while the repository rests and the
\* process's own memory, but for `shared`, stays as it is.
LEMMA CalmKept ==
  ASSUME TypeOK, CalmInv, UNCHANGED repoVars, NEW q \in Scanners,
         calm'[q] = calm[q],
         scan'[q].stage = scan[q].stage, scan'[q].mark = scan[q].mark,
         scan'[q].snap = scan[q].snap, scan'[q].built = scan[q].built,
         scan'[q].man = scan[q].man
  PROVE  CalmProgress(q)' /\ FaithfulInMemory(q)'
<1>1. work' = work /\ head' = head /\ commits' = commits
  BY DEF repoVars
<1>2. calm[q] \in BOOLEAN
  BY DEF TypeOK
<1>3. CalmProgress(q)'
  <2>1. Clean' <=> Clean
    BY <1>1 DEF Clean
  <2>2. CalmProgress(q)
    BY DEF CalmInv
  <2>3. QED BY <1>1, <1>2, <2>1, <2>2 DEF CalmProgress, At, Describes
<1>4. FaithfulInMemory(q)'
  BY <1>1 DEF CalmInv, FaithfulInMemory, Faithful, Describes
<1>5. QED BY <1>3, <1>4

\* A step in which only process p's memory changes, and the repository rests.
LEMMA CalmOwnStep ==
  ASSUME TypeOK, CalmInv, UNCHANGED repoVars, NEW p \in Scanners, NEW m,
         scan' = [scan EXCEPT ![p] = m],
         \A q \in Scanners \ {p} : calm'[q] = calm[q],
         CalmProgress(p)', FaithfulInMemory(p)'
  PROVE  /\ \A q \in Scanners : CalmProgress(q)'
         /\ \A q \in Scanners : FaithfulInMemory(q)'
<1>1. ASSUME NEW q \in Scanners, q # p PROVE CalmProgress(q)' /\ FaithfulInMemory(q)'
  <2>1. scan'[q] = scan[q]
    BY <1>1 DEF TypeOK
  <2>2. QED BY <1>1, <2>1, CalmKept
<1>2. QED BY <1>1

\* Opening a file changes no memory CalmInv speaks of, but p's stage.
LEMMA CalmOpen ==
  ASSUME TypeOK, CalmInv, UNCHANGED <<repoVars, calm>>, NEW p \in Scanners,
         NEW s, NEW t, Open(p, s, t),
         \/ s = "built" /\ t = "graphOpen"
         \/ s = "manifestBuilt" /\ t = "manifestOpen"
  PROVE  /\ \A q \in Scanners : CalmProgress(q)'
         /\ \A q \in Scanners : FaithfulInMemory(q)'
<1> DEFINE sharing == \E o \in Scanners \ {p} : At(o, t)
<1>1. scan' = [q \in Scanners |->
         IF q = p THEN [scan[p] EXCEPT !.stage = t, !.shared = sharing]
         ELSE IF At(q, t) THEN [scan[q] EXCEPT !.shared = TRUE]
         ELSE scan[q]]
  BY Zenon DEF Open
<1> HIDE DEF sharing
<1>2. ASSUME NEW q \in Scanners
      PROVE  /\ scan'[q].stage = IF q = p THEN t ELSE scan[q].stage
             /\ scan'[q].mark = scan[q].mark /\ scan'[q].snap = scan[q].snap
             /\ scan'[q].built = scan[q].built /\ scan'[q].man = scan[q].man
  BY <1>1 DEF TypeOK, ScanMemory
<1>3. ASSUME NEW q \in Scanners, q # p PROVE CalmProgress(q)' /\ FaithfulInMemory(q)'
  BY <1>2, <1>3, CalmKept
<1>4. /\ work' = work /\ head' = head /\ commits' = commits /\ calm'[p] = calm[p]
      /\ scan[p].stage = s
  BY DEF repoVars, Open, At
<1>5. CalmProgress(p)'
  BY <1>2, <1>4 DEF CalmInv, CalmProgress, Clean, At, Describes, TypeOK
<1>6. FaithfulInMemory(p)'
  BY <1>2, <1>4 DEF CalmInv, FaithfulInMemory, Faithful, Describes
<1>7. QED BY <1>3, <1>5, <1>6

\* CalmScanIsFaithful depends on the manifest and the commits only.
LEMMA ManifestKept ==
  ASSUME CalmInv, UNCHANGED <<commits, manifest>>
  PROVE  CalmScanIsFaithful'
  BY DEF CalmInv, CalmScanIsFaithful, Describes

\* For every way scans, crashes, edits and commits interleave: a manifest that
\* names a commit, written by a scan of a clean repository at rest, describes
\* that commit (runScan, buildManifest).
THEOREM CalmScans == Spec => []CalmScanIsFaithful
<1>1. Init => CalmInv
  BY ConstantsAssumption
     DEF Init, CalmInv, CalmProgress, FaithfulInMemory, CalmScanIsFaithful, Idle
<1>2. TypeOK /\ CalmInv /\ [Next]_vars => CalmInv'
  <2> SUFFICES ASSUME TypeOK, CalmInv, [Next]_vars PROVE CalmInv'
    OBVIOUS
  <2> USE ConstantsAssumption
  <2>1. CASE RepoStep
    <3>1. /\ calm' = [p \in Scanners |-> FALSE]
          /\ scan' = scan /\ manifest' = manifest
          /\ \A c \in Commits : commits[c] # NoCommit => commits'[c] = commits[c]
      BY <2>1 DEF RepoStep, Edit, Commit, Checkout, Restore, Disturb, storeVars, TypeOK
    <3>2. ASSUME NEW p \in Scanners PROVE CalmProgress(p)' /\ FaithfulInMemory(p)'
      BY <3>1, FaithfulStays DEF CalmProgress, FaithfulInMemory, CalmInv, TypeOK, MemoryOK
    <3>3. CalmScanIsFaithful'
      <4> SUFFICES ASSUME manifest \in ManifestBytes PROVE Faithful(manifest)'
        BY <3>1 DEF CalmScanIsFaithful, Faithful
      <4>1. Faithful(manifest)
        BY DEF CalmInv, CalmScanIsFaithful, Faithful
      <4>2. QED
        BY <3>1, <4>1, FaithfulStays
    <3>4. QED BY <3>2, <3>3 DEF CalmInv
  <2>2. ASSUME NEW p \in Scanners, NEW v \in Schemas, StartScan(p, v) PROVE CalmInv'
    <3> DEFINE m == [Idle EXCEPT !.stage = "reading", !.build = v]
    <3>1. scan' = [scan EXCEPT ![p] = m] /\ calm' = [calm EXCEPT ![p] = Clean]
      BY <2>2 DEF StartScan
    <3>2. /\ scan'[p].stage = "reading"
          /\ scan'[p].snap = [f \in Files |-> Absent]
          /\ scan'[p].mark = [f \in Files |-> "unseen"]
      BY <3>1 DEF TypeOK, Idle
    <3>3. UNCHANGED <<repoVars, storeVars>>
      BY <2>2 DEF StartScan
    <3>4. calm'[p] = Clean /\ \A q \in Scanners \ {p} : calm'[q] = calm[q]
      BY <3>1, Zenon DEF TypeOK
    <3>5. CalmProgress(p)' /\ FaithfulInMemory(p)'
      BY <3>2, <3>3, <3>4
         DEF CalmProgress, FaithfulInMemory, At, repoVars, Clean
    <3>6. CalmScanIsFaithful'
      BY <3>3, ManifestKept DEF repoVars, storeVars
    <3>7. QED
      BY <3>1, <3>3, <3>4, <3>5, <3>6, CalmOwnStep DEF CalmInv
  <2>17. ASSUME NEW p \in Scanners, NEW f \in Files, WalkFile(p, f) PROVE CalmInv'
    <3>1. PICK k \in [Files -> Marks] :
            /\ scan' = [scan EXCEPT ![p] = [scan[p] EXCEPT !.mark = k]]
            /\ \A g \in Files \ {f} : k[g] = scan[p].mark[g]
            /\ k[f] = "done" => work[f] = Absent
      BY <2>17, WalkMarks DEF TypeOK
    <3>2. /\ At(p, "reading") /\ scan'[p].stage = "reading"
          /\ scan'[p].snap = scan[p].snap /\ scan'[p].mark = k
          /\ scan[p].mark[f] = "unseen"
      BY <2>17, <3>1 DEF TypeOK, ScanMemory, WalkFile, At
    <3>3. UNCHANGED <<repoVars, storeVars, calm>>
      BY <2>17 DEF WalkFile
    <3>4. CalmProgress(p)'
      BY <3>1, <3>2, <3>3 DEF CalmInv, CalmProgress, At, repoVars, Clean
    <3>5. FaithfulInMemory(p)'
      BY <3>2 DEF FaithfulInMemory
    <3>6. CalmScanIsFaithful'
      BY <3>3, ManifestKept DEF repoVars, storeVars
    <3>7. QED
      BY <3>1, <3>3, <3>4, <3>5, <3>6, CalmOwnStep DEF CalmInv
  <2>3. ASSUME NEW p \in Scanners, NEW f \in Files, ReadFile(p, f) PROVE CalmInv'
    <3>1. PICK k \in [Files -> Marks], c \in Snapshot :
            /\ scan' = [scan EXCEPT ![p] = [scan[p] EXCEPT !.mark = k, !.snap = c]]
            /\ \A g \in Files \ {f} : k[g] = scan[p].mark[g] /\ c[g] = scan[p].snap[g]
            /\ \/ k[f] = "done" /\ c[f] = work[f]
               \/ k[f] = "skipped" /\ c[f] = scan[p].snap[f]
      BY <2>3, ReadMarks DEF TypeOK
    <3>2. /\ At(p, "reading") /\ scan'[p].stage = "reading" /\ scan[p].mark[f] = "listed"
          /\ scan'[p].snap = c /\ scan'[p].mark = k
      BY <2>3, <3>1 DEF TypeOK, ScanMemory, ReadFile, At
    <3>3. UNCHANGED <<repoVars, storeVars, calm>>
      BY <2>3 DEF ReadFile
    <3>4. CalmProgress(p)'
      BY <3>1, <3>2, <3>3 DEF CalmInv, CalmProgress, At, repoVars, Clean
    <3>5. FaithfulInMemory(p)'
      BY <3>2 DEF FaithfulInMemory
    <3>6. CalmScanIsFaithful'
      BY <3>3, ManifestKept DEF repoVars, storeVars
    <3>7. QED
      BY <3>1, <3>3, <3>4, <3>5, <3>6, CalmOwnStep DEF CalmInv
  <2>4. ASSUME NEW p \in Scanners, BuildGraph(p) PROVE CalmInv'
    <3> DEFINE g(now) == [tree |-> scan[p].snap, schema |-> scan[p].build, at |-> now]
               m(now) == [scan[p] EXCEPT !.stage = "built", !.built = g(now)]
    <3>1. PICK now \in 0..MaxClock : scan' = [scan EXCEPT ![p] = m(now)]
      BY <2>4 DEF BuildGraph, TypeOK
    <3>2. /\ At(p, "reading") /\ \A f \in Files : scan[p].mark[f] \in {"done", "skipped"}
          /\ scan'[p].stage = "built" /\ scan'[p].built.tree = scan[p].snap
          /\ scan'[p].mark = scan[p].mark
      BY <2>4, <3>1 DEF TypeOK, ScanMemory, BuildGraph, At
    <3>3. UNCHANGED <<repoVars, storeVars, calm>>
      BY <2>4 DEF BuildGraph
    <3>4. ASSUME calm[p]
          PROVE  \A f \in Tracked :
                   scan[p].snap[f] = IF scan[p].mark[f] = "skipped" THEN Absent
                                     ELSE commits[head][f]
      BY <3>2, <3>4 DEF CalmInv, CalmProgress, Clean
    <3>5. CalmProgress(p)'
      BY <3>2, <3>3, <3>4 DEF CalmInv, CalmProgress, At, repoVars, Clean, Describes
    <3>6. FaithfulInMemory(p)'
      BY <3>2 DEF FaithfulInMemory
    <3>7. CalmScanIsFaithful'
      BY <3>3, ManifestKept DEF repoVars, storeVars
    <3>8. QED
      BY <3>1, <3>3, <3>5, <3>6, <3>7, CalmOwnStep DEF CalmInv
  <2>5. ASSUME NEW p \in Scanners, OpenGraph(p) PROVE CalmInv'
    BY <2>5, CalmOpen, ManifestKept DEF OpenGraph, CalmInv, repoVars
  <2>6. ASSUME NEW p \in Scanners, NEW t \in {"graphDone", "reportDone"},
               NEW b \in BOOLEAN,
               scan' = [scan EXCEPT ![p] = [scan[p] EXCEPT !.stage = t, !.shared = b]],
               scan[p].stage \notin {"idle", "reading"},
               UNCHANGED <<repoVars, calm, manifest>>
        PROVE  CalmInv'
    <3>1. /\ scan'[p].stage = t /\ scan'[p].built = scan[p].built
          /\ scan'[p].mark = scan[p].mark
      BY <2>6 DEF TypeOK, ScanMemory
    <3>2. CalmProgress(p)' /\ FaithfulInMemory(p)'
      BY <2>6, <3>1 DEF CalmInv, CalmProgress, FaithfulInMemory, At, repoVars, Clean,
                        Describes
    <3>3. QED
      BY <2>6, <3>2, CalmOwnStep, ManifestKept DEF CalmInv, repoVars
  <2>7. ASSUME NEW p \in Scanners, WriteGraph(p) PROVE CalmInv'
    <3>1. scan' = [scan EXCEPT ![p] = [scan[p] EXCEPT !.stage = "graphDone",
                                                      !.shared = FALSE]]
      BY <2>7 DEF WriteGraph, TypeOK
    <3>2. QED BY <2>6, <2>7, <3>1 DEF WriteGraph, At
  <2>8. ASSUME NEW p \in Scanners, WriteReport(p) PROVE CalmInv'
    <3>1. scan' = [scan EXCEPT ![p] = [scan[p] EXCEPT !.stage = "reportDone",
                                                      !.shared = scan[p].shared]]
      BY <2>8 DEF WriteReport, TypeOK, ScanMemory
    <3>2. scan[p].shared \in BOOLEAN
      BY DEF TypeOK, ScanMemory
    <3>3. QED BY <2>6, <2>8, <3>1, <3>2 DEF WriteReport, At
  <2>9. ASSUME NEW p \in Scanners, BuildManifest(p) PROVE CalmInv'
    <3> DEFINE n(h) == [schema    |-> scan[p].build,
                        head      |-> h,
                        graphHash |-> scan[p].built,
                        skipped   |-> Skipped(p),
                        calm      |-> calm[p]]
               m(h) == [scan[p] EXCEPT !.stage = "manifestBuilt", !.man = n(h)]
    <3>1. PICK h \in HeadReadings : scan' = [scan EXCEPT ![p] = m(h)]
      BY <2>9 DEF BuildManifest, TypeOK
    <3>2. /\ At(p, "reportDone") /\ scan'[p].stage = "manifestBuilt"
          /\ scan'[p].built = scan[p].built /\ scan'[p].man = n(h)
          /\ scan'[p].mark = scan[p].mark
      <4> HIDE DEF n
      <4>1. scan[p] \in ScanMemory
        BY DEF TypeOK
      <4>2. scan'[p] = m(h)
        BY <3>1 DEF TypeOK
      <4>3. QED BY <2>9, <4>1, <4>2 DEF ScanMemory, BuildManifest, At
    <3>3. UNCHANGED <<repoVars, storeVars, calm>>
      BY <2>9 DEF BuildManifest
    <3>4. CalmProgress(p)'
      BY <3>2, <3>3 DEF CalmInv, CalmProgress, At, repoVars, Clean, Describes
    <3>5. Faithful(n(h))
      BY <3>1, <3>2 DEF Faithful, Describes, Skipped, HeadReadings, CalmInv, CalmProgress,
                        At, Clean, TypeOK
    <3>6. FaithfulInMemory(p)'
      BY <3>2, <3>3, <3>5 DEF FaithfulInMemory, Faithful, repoVars, Describes
    <3>7. CalmScanIsFaithful'
      BY <3>3, ManifestKept DEF repoVars, storeVars
    <3>8. QED
      BY <3>1, <3>3, <3>4, <3>6, <3>7, CalmOwnStep DEF CalmInv
  <2>10. ASSUME NEW p \in Scanners, OpenManifest(p) PROVE CalmInv'
    <3>1. CalmScanIsFaithful'
      BY <2>10 DEF OpenManifest, CalmScanIsFaithful
    <3>2. QED BY <2>10, <3>1, CalmOpen DEF OpenManifest, CalmInv
  <2>11. ASSUME NEW p \in Scanners, Exit(p), UNCHANGED repoVars
         PROVE  /\ \A q \in Scanners : CalmProgress(q)'
                /\ \A q \in Scanners : FaithfulInMemory(q)'
    <3>1. /\ scan' = [scan EXCEPT ![p] = Idle] /\ scan'[p].stage = "idle"
          /\ ~calm'[p] /\ \A q \in Scanners \ {p} : calm'[q] = calm[q]
      BY <2>11 DEF Exit, TypeOK, Idle
    <3>2. CalmProgress(p)' /\ FaithfulInMemory(p)'
      BY <3>1 DEF CalmProgress, FaithfulInMemory
    <3>3. QED BY <2>11, <3>1, <3>2, CalmOwnStep
  <2>12. ASSUME NEW p \in Scanners, WriteManifest(p) PROVE CalmInv'
    <3>1. Faithful(scan[p].man)
      BY <2>12 DEF WriteManifest, At, CalmInv, FaithfulInMemory
    <3>2. manifest' \in {scan[p].man, Torn} /\ commits' = commits
      BY <2>12 DEF WriteManifest, Outcome, repoVars
    <3>3. CalmScanIsFaithful'
      BY <3>1, <3>2 DEF CalmScanIsFaithful, Faithful, Describes
    <3>4. QED BY <2>11, <2>12, <3>3 DEF WriteManifest, CalmInv
  <2>13. ASSUME NEW p \in Scanners, Crash(p) PROVE CalmInv'
    BY <2>11, <2>13, ManifestKept DEF Crash, CalmInv, repoVars, storeVars
  <2>14. CASE TamperStep
    <3>1. UNCHANGED <<repoVars, scan, calm>>
      BY <2>14 DEF TamperStep, EditGraph, EditManifest, RemoveStore
    <3>2. ASSUME NEW q \in Scanners PROVE CalmProgress(q)' /\ FaithfulInMemory(q)'
      BY <3>1, CalmKept
    <3>3. /\ manifest' \in ManifestBytes => \/ manifest' = manifest
                                            \/ manifest'.head = BadHead
          /\ commits' = commits
      BY <2>14 DEF TamperStep, EditGraph, EditManifest, RemoveStore, repoVars,
                   ManifestBytes
    <3>4. CalmScanIsFaithful'
      BY <3>3 DEF CalmInv, CalmScanIsFaithful, Describes
    <3>5. QED BY <3>2, <3>4 DEF CalmInv
  <2>15. CASE UNCHANGED vars
    <3>1. UNCHANGED <<repoVars, scan, calm, commits, manifest>>
      BY <2>15 DEF vars, repoVars
    <3>2. ASSUME NEW q \in Scanners PROVE CalmProgress(q)' /\ FaithfulInMemory(q)'
      BY <3>1, CalmKept
    <3>3. QED BY <3>1, <3>2, ManifestKept DEF CalmInv
  <2>16. QED
    BY <2>1, <2>2, <2>3, <2>4, <2>5, <2>7, <2>8, <2>9, <2>10, <2>12, <2>13,
       <2>14, <2>15, <2>17 DEF Next, ScanStep
<1>3. CalmInv => CalmScanIsFaithful
  BY DEF CalmInv
<1>4. QED
  BY <1>1, <1>2, <1>3, TypeCorrect, PTL DEF Spec

-----------------------------------------------------------------------------
(* What a scan that runs alone leaves behind                               *)

\* How much of the store is this lone process's already.
LoneProgress(p) ==
  lone[p] =>
    /\ Alone(p)
    /\ ~scan[p].shared
    /\ scan[p].stage \in {"graphDone", "reportDone", "manifestBuilt", "manifestOpen"}
         => graph = scan[p].built
    /\ scan[p].stage \in {"reportDone", "manifestBuilt", "manifestOpen"}
         => report = scan[p].built.at
    /\ scan[p].stage \in {"manifestBuilt", "manifestOpen"}
         => /\ scan[p].man.graphHash = scan[p].built
            /\ scan[p].man.schema = scan[p].built.schema

\* A graph in memory carries its process's build.
BuildsAgree(p) ==
  scan[p].stage \notin {"idle", "reading"} => scan[p].built.schema = scan[p].build

LoneInv == /\ \A p \in Scanners : LoneProgress(p) /\ BuildsAgree(p)
           /\ LoneScanHeals

\* What LoneInv says of the processes.
LoneParts == \A q \in Scanners : LoneProgress(q) /\ BuildsAgree(q)

\* A process that has begun is the only one that can be lone.
LEMMA OnlyLone ==
  ASSUME LoneInv, NEW p \in Scanners, ~At(p, "idle"), NEW q \in Scanners, lone[q]
  PROVE  q = p
  BY DEF LoneInv, LoneProgress, Alone

\* A step of process p alone.
LEMMA LoneOwnStep ==
  ASSUME TypeOK, LoneInv, NEW p \in Scanners, NEW m, ~At(p, "idle"),
         scan' = [scan EXCEPT ![p] = m], UNCHANGED lone,
         LoneProgress(p)', BuildsAgree(p)'
  PROVE  LoneParts'
<1>1. ASSUME NEW q \in Scanners, q # p PROVE LoneProgress(q)' /\ BuildsAgree(q)'
  <2>1. scan'[q] = scan[q] /\ ~lone'[q]
    BY <1>1, OnlyLone DEF TypeOK
  <2>2. QED BY <2>1 DEF LoneProgress, BuildsAgree, LoneInv
<1>2. QED BY <1>1 DEF LoneParts

\* Others stay idle while a lone process moves its own memory.
LEMMA AloneKept ==
  ASSUME TypeOK, NEW p \in Scanners, NEW m, Alone(p),
         scan' = [scan EXCEPT ![p] = m]
  PROVE  Alone(p)'
  BY DEF TypeOK, Alone, At

\* A lone process finds nobody else with the file open.
LEMMA LoneOpen ==
  ASSUME TypeOK, LoneInv, UNCHANGED lone, NEW p \in Scanners,
         NEW s, NEW t, Open(p, s, t),
         \/ s = "built" /\ t = "graphOpen"
         \/ /\ s = "manifestBuilt" /\ t = "manifestOpen"
            /\ UNCHANGED <<graph, report>>
  PROVE  LoneParts'
<1> DEFINE sharing == \E o \in Scanners \ {p} : At(o, t)
<1>1. scan' = [q \in Scanners |->
         IF q = p THEN [scan[p] EXCEPT !.stage = t, !.shared = sharing]
         ELSE IF At(q, t) THEN [scan[q] EXCEPT !.shared = TRUE]
         ELSE scan[q]]
  BY Zenon DEF Open
<1>2. lone[p] => ~sharing
  BY DEF LoneInv, LoneProgress, Alone, At
<1> HIDE DEF sharing
<1>3. ASSUME NEW q \in Scanners
      PROVE  /\ scan'[q].stage = IF q = p THEN t ELSE scan[q].stage
             /\ scan'[q].built = scan[q].built /\ scan'[q].man = scan[q].man
             /\ scan'[q].build = scan[q].build
  BY <1>1 DEF TypeOK, ScanMemory
<1>4. scan'[p].shared = sharing
  BY <1>1 DEF TypeOK, ScanMemory
<1>5. scan[p].stage = s
  BY DEF Open, At
<1>6. ASSUME NEW q \in Scanners PROVE BuildsAgree(q)'
  BY <1>3, <1>5 DEF LoneInv, BuildsAgree
<1>7. ASSUME NEW q \in Scanners PROVE LoneProgress(q)'
  <2>1. CASE q # p
    BY <1>5, <2>1, OnlyLone DEF LoneProgress, At
  <2>2. CASE q = p
    BY <1>2, <1>3, <1>4, <1>5, <2>2 DEF LoneInv, LoneProgress, Alone, At
  <2>3. QED BY <2>1, <2>2
<1>8. QED BY <1>6, <1>7 DEF LoneParts

\* After a process's exit, nothing is asked of it and the others are as before.
LEMMA LoneExit ==
  ASSUME TypeOK, LoneInv, NEW p \in Scanners, ~At(p, "idle"), Exit(p)
  PROVE  LoneParts'
<1>1. ASSUME NEW q \in Scanners PROVE ~lone'[q]
  BY <1>1, OnlyLone DEF Exit, TypeOK
<1>2. ASSUME NEW q \in Scanners PROVE BuildsAgree(q)'
  BY <1>2 DEF Exit, TypeOK, LoneInv, BuildsAgree, Idle
<1>3. QED BY <1>1, <1>2 DEF LoneParts, LoneProgress

\* LoneScanHeals speaks of the files only.
LEMMA HealedKept ==
  ASSUME LoneInv, UNCHANGED <<storeVars, whole>>
  PROVE  LoneScanHeals'
  BY DEF LoneInv, LoneScanHeals, storeVars

\* A process that is lone has the store to itself up to where it has come.
LEMMA LoneHolds == Spec => []LoneInv
<1>1. Init => LoneInv
  BY DEF Init, LoneInv, LoneProgress, BuildsAgree, LoneScanHeals, Idle
<1>2. TypeOK /\ LoneInv /\ [Next]_vars => LoneInv'
  <2> SUFFICES ASSUME TypeOK, LoneInv, [Next]_vars PROVE LoneInv'
    OBVIOUS
  <2>0. ASSUME LoneParts', LoneScanHeals' PROVE LoneInv'
    BY <2>0 DEF LoneParts, LoneInv
  <2>1. CASE RepoStep \/ UNCHANGED vars
    <3>1. UNCHANGED <<storeVars, scan, lone, whole>>
      BY <2>1 DEF RepoStep, Edit, Commit, Checkout, Restore, Disturb, storeVars, vars
    <3>2. LoneParts'
      BY <3>1 DEF LoneInv, LoneParts, LoneProgress, BuildsAgree, Alone, At, storeVars
    <3>3. QED BY <2>0, <3>1, <3>2, HealedKept
  <2>2. ASSUME NEW p \in Scanners, NEW v \in Schemas, StartScan(p, v) PROVE LoneInv'
    <3> DEFINE m == [Idle EXCEPT !.stage = "reading", !.build = v]
    <3>1. scan' = [scan EXCEPT ![p] = m] /\ scan'[p].stage = "reading"
          /\ ~scan'[p].shared
      BY <2>2 DEF StartScan, TypeOK, Idle
    <3>2. ASSUME NEW q \in Scanners, lone'[q] PROVE q = p /\ Alone(p)
      BY <2>2, <3>2 DEF StartScan
    <3>3. ASSUME NEW q \in Scanners PROVE LoneProgress(q)'
      BY <3>1, <3>2, AloneKept DEF LoneProgress
    <3>4. ASSUME NEW q \in Scanners PROVE BuildsAgree(q)'
      BY <3>1 DEF LoneInv, BuildsAgree, TypeOK
    <3>5. QED BY <2>0, <2>2, <3>3, <3>4, HealedKept DEF LoneParts, StartScan
  <2>14. ASSUME NEW p \in Scanners, NEW f \in Files, WalkFile(p, f) PROVE LoneInv'
    <3>1. PICK k \in [Files -> Marks] :
            scan' = [scan EXCEPT ![p] = [scan[p] EXCEPT !.mark = k]]
      BY <2>14, WalkMarks DEF TypeOK
    <3>2. /\ scan[p].stage = "reading" /\ scan'[p].stage = "reading"
          /\ scan'[p].shared = scan[p].shared
      BY <2>14, <3>1 DEF WalkFile, At, TypeOK, ScanMemory
    <3>3. LoneProgress(p)' /\ BuildsAgree(p)'
      BY <2>14, <3>1, <3>2, AloneKept DEF LoneInv, LoneProgress, BuildsAgree, WalkFile
    <3>4. LoneParts'
      BY <2>14, <3>1, <3>2, <3>3, LoneOwnStep DEF WalkFile, At
    <3>5. QED BY <2>0, <2>14, <3>4, HealedKept DEF WalkFile
  <2>3. ASSUME NEW p \in Scanners, NEW f \in Files, ReadFile(p, f) PROVE LoneInv'
    <3>1. PICK k \in [Files -> Marks], c \in Snapshot :
            scan' = [scan EXCEPT ![p] = [scan[p] EXCEPT !.mark = k, !.snap = c]]
      BY <2>3, ReadMemory DEF TypeOK
    <3>2. /\ scan[p].stage = "reading" /\ scan'[p].stage = "reading"
          /\ scan'[p].shared = scan[p].shared
      BY <2>3, <3>1 DEF ReadFile, At, TypeOK, ScanMemory
    <3>3. LoneProgress(p)' /\ BuildsAgree(p)'
      BY <2>3, <3>1, <3>2, AloneKept DEF LoneInv, LoneProgress, BuildsAgree, ReadFile
    <3>4. LoneParts'
      BY <2>3, <3>1, <3>2, <3>3, LoneOwnStep DEF ReadFile, At
    <3>5. QED BY <2>0, <2>3, <3>4, HealedKept DEF ReadFile
  <2>4. ASSUME NEW p \in Scanners, BuildGraph(p) PROVE LoneInv'
    <3> DEFINE g(now) == [tree |-> scan[p].snap, schema |-> scan[p].build, at |-> now]
               m(now) == [scan[p] EXCEPT !.stage = "built", !.built = g(now)]
    <3>1. PICK now \in 0..MaxClock : scan' = [scan EXCEPT ![p] = m(now)]
      BY <2>4 DEF BuildGraph, TypeOK
    <3>2. /\ scan[p].stage = "reading" /\ scan'[p].stage = "built"
          /\ scan'[p].shared = scan[p].shared
          /\ scan'[p].build = scan[p].build
          /\ scan'[p].built.schema = scan[p].build
      BY <2>4, <3>1 DEF BuildGraph, At, TypeOK, ScanMemory
    <3>3. LoneProgress(p)' /\ BuildsAgree(p)'
      BY <2>4, <3>1, <3>2, AloneKept DEF LoneInv, LoneProgress, BuildsAgree, BuildGraph
    <3>4. LoneParts'
      BY <2>4, <3>1, <3>2, <3>3, LoneOwnStep DEF BuildGraph, At
    <3>5. QED BY <2>0, <2>4, <3>4, HealedKept DEF BuildGraph
  <2>5. ASSUME NEW p \in Scanners, OpenGraph(p) PROVE LoneInv'
    <3>1. LoneParts'
      BY <2>5, LoneOpen DEF OpenGraph
    <3>2. LoneScanHeals'
      BY <2>5 DEF OpenGraph, LoneScanHeals
    <3>3. QED BY <2>0, <3>1, <3>2
  <2>6. ASSUME NEW p \in Scanners, WriteGraph(p) PROVE LoneInv'
    <3> DEFINE m == [scan[p] EXCEPT !.stage = "graphDone", !.shared = FALSE]
    <3>1. scan' = [scan EXCEPT ![p] = m] /\ graph' \in Outcome(p, scan[p].built)
          /\ UNCHANGED lone /\ whole' = FALSE /\ scan[p].stage = "graphOpen"
      BY <2>6 DEF WriteGraph, TypeOK, At
    <3>2. /\ scan'[p].stage = "graphDone" /\ scan'[p].shared = FALSE
          /\ scan'[p].build = scan[p].build /\ scan'[p].built = scan[p].built
      BY <3>1 DEF TypeOK, ScanMemory
    <3>3. lone[p] => graph' = scan[p].built /\ Alone(p)
      BY <3>1 DEF LoneInv, LoneProgress, Outcome
    <3>4. LoneProgress(p)' /\ BuildsAgree(p)'
      BY <3>1, <3>2, <3>3, AloneKept DEF LoneInv, LoneProgress, BuildsAgree
    <3>5. LoneParts'
      BY <3>1, <3>4, LoneOwnStep DEF At
    <3>6. QED BY <2>0, <3>1, <3>5 DEF LoneScanHeals
  <2>7. ASSUME NEW p \in Scanners, WriteReport(p) PROVE LoneInv'
    <3> DEFINE m == [scan[p] EXCEPT !.stage = "reportDone"]
    <3>1. scan' = [scan EXCEPT ![p] = m] /\ report' = scan[p].built.at
          /\ UNCHANGED <<lone, graph>> /\ whole' = FALSE /\ scan[p].stage = "graphDone"
      BY <2>7 DEF WriteReport, TypeOK, At
    <3>2. /\ scan'[p].stage = "reportDone" /\ scan'[p].shared = scan[p].shared
          /\ scan'[p].build = scan[p].build /\ scan'[p].built = scan[p].built
      BY <3>1 DEF TypeOK, ScanMemory
    <3>3. LoneProgress(p)' /\ BuildsAgree(p)'
      BY <3>1, <3>2, AloneKept DEF LoneInv, LoneProgress, BuildsAgree
    <3>4. LoneParts'
      BY <3>1, <3>3, LoneOwnStep DEF At
    <3>5. QED BY <2>0, <3>1, <3>4 DEF LoneScanHeals
  <2>8. ASSUME NEW p \in Scanners, BuildManifest(p) PROVE LoneInv'
    <3> DEFINE n(h) == [schema    |-> scan[p].build,
                        head      |-> h,
                        graphHash |-> scan[p].built,
                        skipped   |-> Skipped(p),
                        calm      |-> calm[p]]
               m(h) == [scan[p] EXCEPT !.stage = "manifestBuilt", !.man = n(h)]
    <3>1. PICK h \in HeadReadings : scan' = [scan EXCEPT ![p] = m(h)]
      BY <2>8 DEF BuildManifest, TypeOK
    <3>2. UNCHANGED <<lone, storeVars, whole>> /\ scan[p].stage = "reportDone"
      BY <2>8 DEF BuildManifest, At
    <3>3. /\ scan'[p].stage = "manifestBuilt" /\ scan'[p].shared = scan[p].shared
          /\ scan'[p].build = scan[p].build /\ scan'[p].built = scan[p].built
          /\ scan'[p].man = n(h)
      <4> HIDE DEF n
      <4>1. QED BY <3>1 DEF TypeOK, ScanMemory
    <3>4. LoneProgress(p)' /\ BuildsAgree(p)'
      <4>1. Alone(p) => Alone(p)'
        BY <3>1, AloneKept
      <4>2. /\ scan'[p].man.graphHash = scan[p].built
            /\ scan'[p].man.schema = scan[p].build
        BY <3>3
      <4> HIDE DEF m, n
      <4>3. QED
        BY <3>2, <3>3, <4>1, <4>2 DEF LoneInv, LoneProgress, BuildsAgree, storeVars
    <3>5. LoneParts'
      BY <3>1, <3>2, <3>4, LoneOwnStep DEF At
    <3>6. QED BY <2>0, <3>2, <3>5, HealedKept
  <2>9. ASSUME NEW p \in Scanners, OpenManifest(p) PROVE LoneInv'
    <3>1. LoneParts'
      BY <2>9, LoneOpen DEF OpenManifest
    <3>2. LoneScanHeals'
      BY <2>9 DEF OpenManifest, LoneScanHeals
    <3>3. QED BY <2>0, <3>1, <3>2
  <2>10. ASSUME NEW p \in Scanners, WriteManifest(p) PROVE LoneInv'
    <3>1. LoneParts'
      BY <2>10, LoneExit DEF WriteManifest, At
    <3>2. /\ scan[p].stage = "manifestOpen" /\ whole' = lone[p]
          /\ manifest' \in Outcome(p, scan[p].man) /\ UNCHANGED <<graph, report>>
      BY <2>10 DEF WriteManifest, At
    <3>3. scan[p].built \in GraphBytes /\ scan[p].man \in ManifestBytes
      BY <3>2 DEF TypeOK, MemoryOK
    <3>4. lone[p] => /\ manifest' = scan[p].man /\ graph = scan[p].built
                     /\ report = scan[p].built.at
                     /\ scan[p].man.graphHash = scan[p].built
                     /\ scan[p].man.schema = scan[p].built.schema
      BY <3>2 DEF LoneInv, LoneProgress, Outcome
    <3>5. LoneScanHeals'
      BY <3>2, <3>3, <3>4 DEF LoneScanHeals
    <3>6. QED BY <2>0, <3>1, <3>5
  <2>11. ASSUME NEW p \in Scanners, Crash(p) PROVE LoneInv'
    BY <2>0, <2>11, LoneExit, HealedKept DEF Crash
  <2>12. CASE TamperStep
    <3>1. /\ scan' = scan /\ whole' = FALSE /\ \A q \in Scanners : ~lone'[q]
      BY <2>12 DEF TamperStep, EditGraph, EditManifest, RemoveStore
    <3>2. QED
      BY <3>1 DEF LoneInv, LoneProgress, BuildsAgree, LoneScanHeals
  <2>13. QED
    BY <2>1, <2>2, <2>3, <2>4, <2>5, <2>6, <2>7, <2>8, <2>9, <2>10, <2>11,
       <2>12, <2>14 DEF Next, ScanStep
<1>3. QED
  BY <1>1, <1>2, TypeCorrect, PTL DEF Spec

\* For any number of scanners and whatever they, a crash, or a foreign hand
\* left in the store: a scan that runs alone ends with a graph, a manifest and
\* a report that belong together (runScan, writeManifestForGraph).
THEOREM LoneScansHeal == Spec => []LoneScanHeals
<1>1. LoneInv => LoneScanHeals
  BY DEF LoneInv
<1>2. QED BY <1>1, LoneHolds, PTL

-----------------------------------------------------------------------------
(* McpServer                                                               *)


\* The server changes nothing of the store's, so what holds of every store
\* holds of the store it serves.
LEMMA ServedStore == McpSpec => Spec
<1>1. McpInit => Init
  BY DEF McpInit
<1>2. [McpNext]_allVars => [Next]_vars
  BY DEF McpNext, WorldStep, allVars
<1>3. QED
  BY <1>1, <1>2, PTL DEF McpSpec, Spec

McpStages == {"idle", "probeGraph", "probeManifest", "probeHead", "probeStatus",
              "gate", "exists", "load"}

Requests == [stage   : McpStages,
             age     : 0..TTL,
             readAge : 0..TTL,
             bytes   : GraphBytes \cup {Missing, Edited},
             man     : ManifestBytes \cup {Nothing},
             view    : Views \cup {Nothing}]

\* A request in hand holds what its stage needs.
RequestOK(r) ==
  /\ r \in Requests
  /\ r.stage \in {"gate", "exists", "load"} => r.view \in Views
  /\ r.stage \in {"probeHead", "probeStatus"}
       => r.man \in ManifestBytes /\ r.bytes = r.man.graphHash

Entries == [age : 0..TTL-1, readAge : 0..TTL, view : Views]

Replies == [kind   : {"none", "error", "missing", "refused", "served"},
            status : Statuses,
            bytes  : GraphBytes \cup {Missing, Edited},
            steady : BOOLEAN]

ServerOK == /\ RequestOK(mcp)
            /\ cache \in Entries \cup {Nothing}
            /\ reply \in Replies
            /\ steady \in BOOLEAN

LEMMA ServerOKMeans == McpTypeOK <=> TypeOK /\ ServerOK
  BY DEF McpTypeOK, ServerOK, RequestOK, Requests, McpStages, Entries, Replies

LEMMA RestingOK ==
  ASSUME NEW t \in McpStages,
         NEW v \in Views \cup {Nothing},
         t \in {"gate", "exists", "load"} => v \in Views,
         t \notin {"probeHead", "probeStatus"}
  PROVE  RequestOK([Resting EXCEPT !.stage = t, !.view = v])
<1>1. 0 \in 0..TTL
  BY ServerAssumption
<1>2. Resting \in Requests
  BY <1>1 DEF Resting, Requests, McpStages
<1>3. QED BY <1>2 DEF RequestOK, Requests

LEMMA ProbingOK == RequestOK([Resting EXCEPT !.stage = "probeGraph"])
  BY ServerAssumption DEF RequestOK, Requests, Resting, McpStages

LEMMA NoReplyOK == NoReply \in Replies
  BY DEF NoReply, Replies, Statuses

LEMMA IdleRequestOK == RequestOK(Resting)
  BY ServerAssumption DEF RequestOK, Requests, Resting, McpStages

\* A verdict leaves a request at the gate and a cache entry, or none.
LEMMA ConcludeOK ==
  ASSUME RequestOK(mcp), NEW v \in Views, NEW n \in 0..TTL, Conclude(v, n)
  PROVE  RequestOK(mcp') /\ cache' \in Entries \cup {Nothing}
<1>1. mcp.age \in 0..TTL
  BY DEF RequestOK, Requests
<1>2. RequestOK([Resting EXCEPT !.stage = "gate", !.view = v])
  BY <1>1, RestingOK DEF McpStages
<1>3. mcp' = [Resting EXCEPT !.stage = "gate", !.view = v]
  BY DEF Conclude, Resting
<1>4. mcp.age < TTL => mcp.age \in 0..TTL-1
  BY <1>1, ServerAssumption
<1>5. cache' \in Entries \cup {Nothing}
  BY <1>1, <1>4 DEF Conclude, Entries
<1>6. QED BY <1>2, <1>3, <1>5

LEMMA VerdictOK ==
  ASSUME RequestOK(mcp), NEW st \in Statuses, NEW n \in 0..TTL, Verdict(st, n)
  PROVE  RequestOK(mcp') /\ cache' \in Entries \cup {Nothing}
<1> DEFINE v == [status |-> st, matches |-> FALSE, calm |-> FALSE]
<1>1. v \in Views
  BY DEF Views
<1>2. Conclude(v, n)
  BY DEF Verdict
<1>3. QED BY <1>1, <1>2, ConcludeOK

LEMMA AnswerOK ==
  ASSUME RequestOK(mcp), mcp.view \in Views, steady \in BOOLEAN,
         NEW k \in {"error", "missing", "refused", "served"},
         NEW b \in GraphBytes \cup {Missing, Edited}, Answer(k, b)
  PROVE  RequestOK(mcp') /\ reply' \in Replies
  BY IdleRequestOK DEF Answer, Replies, Views

\* What git status leads to: a warning, or "fresh" about the manifest in hand.
LEMMA StatusConcludes ==
  ASSUME ProbeStatus, mcp.man \in ManifestBytes
  PROVE  \E v \in Views :
           /\ Conclude(v, mcp.readAge)
           /\ v.status \in {"fresh", "possibly-stale"}
           /\ v.status = "fresh"
                => /\ v.matches = (mcp.bytes \in GraphBytes /\ Describes(mcp.bytes, mcp.man))
                   /\ v.calm = mcp.man.calm
<1>1. CASE Verdict("possibly-stale", mcp.readAge)
  <2> DEFINE v == [status |-> "possibly-stale", matches |-> FALSE, calm |-> FALSE]
  <2>1. v \in Views /\ Conclude(v, mcp.readAge)
    BY <1>1 DEF Verdict, Views, Statuses
  <2>2. QED BY <2>1
<1>2. ASSUME NEW v,
             v = [status  |-> "fresh",
                  matches |-> mcp.bytes \in GraphBytes /\ Describes(mcp.bytes, mcp.man),
                  calm    |-> mcp.man.calm],
             Conclude(v, mcp.readAge)
      PROVE  /\ v \in Views
             /\ v.status = "fresh"
             /\ v.matches = (mcp.bytes \in GraphBytes /\ Describes(mcp.bytes, mcp.man))
             /\ v.calm = mcp.man.calm
  <2>1. (mcp.bytes \in GraphBytes /\ Describes(mcp.bytes, mcp.man)) \in BOOLEAN
    OBVIOUS
  <2>2. mcp.man.calm \in BOOLEAN
    BY DEF ManifestBytes
  <2>3. QED BY <1>2, <2>1, <2>2 DEF Views, Statuses
<1>3. QED BY <1>1, <1>2 DEF ProbeStatus

\* The type invariant of the server over its store: past each look the request
\* holds what the look found, a manifest that passed describes the very bytes
\* that were looked at, and no cache entry outlives the TTL (freshnessView,
\* graphFreshness, callTool).
THEOREM McpTypeCorrect == McpSpec => []McpTypeOK
<1>1. McpInit => ServerOK
  BY IdleRequestOK, NoReplyOK DEF McpInit, ServerOK
<1>2. TypeOK /\ ServerOK /\ [McpNext]_allVars => ServerOK'
  <2> SUFFICES ASSUME TypeOK, ServerOK, [McpNext]_allVars PROVE ServerOK'
    OBVIOUS
  <2> USE ServerAssumption
  <2>0. /\ RequestOK(mcp) /\ mcp \in Requests
        /\ cache \in Entries \cup {Nothing}
        /\ reply \in Replies /\ steady \in BOOLEAN
    BY DEF ServerOK, RequestOK
  <2>1. CASE WorldStep
    <3>1. steady' \in BOOLEAN
      BY <2>0, <2>1 DEF WorldStep
    <3>2. QED BY <2>0, <2>1, <3>1, NoReplyOK DEF WorldStep, ServerOK
  <2>2. CASE UNCHANGED allVars
    BY <2>0, <2>2 DEF allVars, mcpVars, ServerOK
  <2>3. CASE Receive
    <3>1. reply' = NoReply /\ UNCHANGED <<cache, steady>>
      BY <2>3 DEF Receive
    <3>2. CASE CacheLive
      <4>1. cache.view \in Views
        BY <2>0, <3>2 DEF CacheLive, Entries
      <4>2. mcp' = [Resting EXCEPT !.stage = "gate", !.view = cache.view]
        BY <2>3, <3>2 DEF Receive
      <4>3. RequestOK(mcp')
        BY <4>1, <4>2, RestingOK DEF McpStages
      <4>4. QED BY <2>0, <3>1, <4>3, NoReplyOK DEF ServerOK
    <3>3. CASE ~CacheLive
      <4>1. mcp' = [Resting EXCEPT !.stage = "probeGraph"]
        BY <2>3, <3>3 DEF Receive
      <4>2. RequestOK(mcp')
        BY <4>1, ProbingOK
      <4>3. QED BY <2>0, <3>1, <4>2, NoReplyOK DEF ServerOK
    <3>4. QED BY <3>2, <3>3
  <2>14. CASE Refuse
    <3>1. [NoReply EXCEPT !.kind = "error"] \in Replies
      BY NoReplyOK DEF Replies
    <3>2. QED BY <2>0, <2>14, <3>1 DEF Refuse, ServerOK
  <2>4. CASE ProbeGraph
    <3>1. UNCHANGED reply /\ steady' \in BOOLEAN
      BY <2>4 DEF ProbeGraph, TypeOK
    <3>2. CASE graph \in {Missing, Torn}
      <4>1. Verdict("missing", 0) \/ Verdict("malformed", 0)
        BY <2>4, <3>2 DEF ProbeGraph
      <4>2. RequestOK(mcp') /\ cache' \in Entries \cup {Nothing}
        BY <2>0, <4>1, VerdictOK DEF Statuses
      <4>3. QED BY <2>0, <3>1, <4>2 DEF ServerOK
    <3>3. CASE graph \notin {Missing, Torn}
      <4>1. /\ mcp' = [mcp EXCEPT !.stage = "probeManifest", !.bytes = graph]
            /\ UNCHANGED cache
        BY <2>4, <3>3 DEF ProbeGraph
      <4>2. graph \in GraphBytes \cup {Missing, Edited}
        BY <3>3 DEF TypeOK
      <4>3. RequestOK(mcp')
        BY <2>0, <4>1, <4>2 DEF RequestOK, Requests, McpStages
      <4>4. QED BY <2>0, <3>1, <4>1, <4>3 DEF ServerOK
    <3>4. QED BY <3>2, <3>3
  <2>5. CASE ProbeManifest
    <3>1. UNCHANGED <<reply, steady>> /\ mcp.readAge \in 0..TTL
      BY <2>0, <2>5 DEF ProbeManifest, Requests
    <3>2. CASE Verdict("possibly-stale", mcp.readAge) \/ Verdict("incompatible", mcp.readAge)
      <4>1. RequestOK(mcp') /\ cache' \in Entries \cup {Nothing}
        BY <2>0, <3>1, <3>2, VerdictOK DEF Statuses
      <4>2. QED BY <2>0, <3>1, <4>1 DEF ServerOK
    <3>3. CASE /\ manifest \notin {Missing, Torn} /\ manifest.graphHash = mcp.bytes
               /\ mcp' = [mcp EXCEPT !.stage = "probeHead", !.man = manifest]
               /\ UNCHANGED cache
      <4>1. manifest \in ManifestBytes
        BY <3>3 DEF TypeOK
      <4>2. RequestOK(mcp')
        <5>1. mcp' \in Requests /\ mcp'.stage = "probeHead"
              /\ mcp'.man = manifest /\ mcp'.bytes = mcp.bytes
          BY <2>0, <3>3, <4>1 DEF Requests, McpStages
        <5>2. QED BY <3>3, <4>1, <5>1 DEF RequestOK
      <4>3. QED BY <2>0, <3>1, <3>3, <4>2 DEF ServerOK
    <3>4. QED BY <2>5, <3>2, <3>3 DEF ProbeManifest
  <2>6. CASE ProbeHead
    <3>1. UNCHANGED <<reply, steady>> /\ mcp.readAge \in 0..TTL
      BY <2>0, <2>6 DEF ProbeHead, Requests
    <3>2. CASE \E st \in Statuses : Verdict(st, mcp.readAge)
      <4>1. RequestOK(mcp') /\ cache' \in Entries \cup {Nothing}
        BY <2>0, <3>1, <3>2, VerdictOK
      <4>2. QED BY <2>0, <3>1, <4>1 DEF ServerOK
    <3>3. CASE mcp' = [mcp EXCEPT !.stage = "probeStatus"] /\ UNCHANGED cache
      <4>1. mcp.stage = "probeHead"
        BY <2>6 DEF ProbeHead
      <4>2. RequestOK(mcp')
        BY <2>0, <3>3, <4>1 DEF RequestOK, Requests, McpStages
      <4>3. QED BY <2>0, <3>1, <3>3, <4>2 DEF ServerOK
    <3>4. QED BY <2>6, <3>2, <3>3 DEF ProbeHead, Statuses
  <2>7. CASE ProbeStatus
    <3>1. UNCHANGED <<reply, steady>> /\ mcp.readAge \in 0..TTL /\ mcp.stage = "probeStatus"
      BY <2>0, <2>7 DEF ProbeStatus, Requests
    <3>2. mcp.man \in ManifestBytes
      BY <2>0, <3>1 DEF RequestOK
    <3>3. PICK v \in Views : Conclude(v, mcp.readAge)
      BY <2>7, <3>2, StatusConcludes
    <3>4. RequestOK(mcp') /\ cache' \in Entries \cup {Nothing}
      BY <2>0, <3>1, <3>3, ConcludeOK
    <3>5. QED BY <2>0, <3>1, <3>4 DEF ServerOK
  <2>8. ASSUME mcp.stage \in {"gate", "exists", "load"}, UNCHANGED <<cache, steady>>,
               \/ \E k \in {"error", "missing", "refused", "served"},
                     b \in GraphBytes \cup {Missing, Edited} : Answer(k, b)
               \/ \E t \in {"exists", "load"} :
                    mcp' = [mcp EXCEPT !.stage = t] /\ UNCHANGED reply
        PROVE  ServerOK'
    <3>1. mcp.view \in Views
      BY <2>0, <2>8 DEF RequestOK
    <3>2. CASE \E k \in {"error", "missing", "refused", "served"},
                  b \in GraphBytes \cup {Missing, Edited} : Answer(k, b)
      <4>1. RequestOK(mcp') /\ reply' \in Replies
        BY <2>0, <3>1, <3>2, AnswerOK
      <4>2. QED BY <2>0, <2>8, <4>1 DEF ServerOK
    <3>3. ASSUME NEW t \in {"exists", "load"}, mcp' = [mcp EXCEPT !.stage = t],
                 UNCHANGED reply
          PROVE  ServerOK'
      <4>1. RequestOK(mcp')
        BY <2>0, <3>1, <3>3 DEF RequestOK, Requests, McpStages
      <4>2. QED BY <2>0, <2>8, <3>3, <4>1 DEF ServerOK
    <3>4. QED BY <2>8, <3>2, <3>3
  <2>9. CASE Gate
    BY <2>8, <2>9 DEF Gate
  <2>10. CASE GraphExists
    BY <2>8, <2>10 DEF GraphExists
  <2>11. CASE LoadGraph
    <3>1. graph \in GraphBytes \cup {Missing, Torn, Edited}
      BY DEF TypeOK
    <3>2. QED BY <2>8, <2>11, <3>1 DEF LoadGraph
  <2>12. CASE Tick
    <3>1. ASSUME NEW n \in 0..TTL PROVE Older(n) \in 0..TTL
      BY <3>1 DEF Older
    <3>2. reply' = NoReply /\ UNCHANGED steady
      BY <2>12 DEF Tick
    <3>3. RequestOK(mcp')
      <4>1. CASE ~Probing
        BY <2>0, <2>12, <4>1 DEF Tick
      <4>2. CASE Probing
        <5>1. PICK a \in 0..TTL, b \in 0..TTL :
                mcp' = [mcp EXCEPT !.age = a, !.readAge = b]
          <6>1. Older(mcp.age) \in 0..TTL /\ Older(mcp.readAge) \in 0..TTL /\ 0 \in 0..TTL
            BY <2>0, <3>1 DEF Requests
          <6>2. mcp' = [mcp EXCEPT !.age = Older(mcp.age),
                          !.readAge = IF mcp.stage = "probeGraph" THEN 0
                                      ELSE Older(mcp.readAge)]
            BY <2>0, <2>12, <4>2 DEF Tick, Requests
          <6>3. QED BY <6>1, <6>2
        <5>2. QED BY <2>0, <5>1 DEF RequestOK, Requests
      <4>3. QED BY <4>1, <4>2
    <3>4. cache' \in Entries \cup {Nothing}
      <4>1. CASE cache = Nothing \/ cache.age + 1 = TTL
        BY <2>12, <4>1 DEF Tick
      <4>2. CASE ~(cache = Nothing \/ cache.age + 1 = TTL)
        <5>1. cache \in Entries
          BY <2>0, <4>2
        <5>2. /\ cache' = [cache EXCEPT !.age = cache.age + 1,
                                        !.readAge = Older(cache.readAge)]
              /\ cache.age + 1 \in 0..TTL-1 /\ Older(cache.readAge) \in 0..TTL
          BY <2>12, <3>1, <4>2, <5>1 DEF Tick, Entries
        <5>3. QED BY <5>1, <5>2 DEF Entries
      <4>3. QED BY <4>1, <4>2
    <3>5. QED BY <2>0, <3>2, <3>3, <3>4, NoReplyOK DEF ServerOK
  <2>13. QED
    BY <2>1, <2>2, <2>3, <2>4, <2>5, <2>6, <2>7, <2>9, <2>10, <2>11, <2>12, <2>14
       DEF McpNext, ServerStep, HandlerStep
<1>3. QED
  BY <1>1, <1>2, ServedStore, TypeCorrect, ServerOKMeans, PTL DEF McpSpec

-----------------------------------------------------------------------------
(* What a "fresh" verdict is worth                                         *)

\* Commits are never rewritten.
LEMMA CommitsStay ==
  ASSUME TypeOK, [Next]_vars
  PROVE  \A c \in Commits : commits[c] # NoCommit => commits'[c] = commits[c]
<1>1. CASE UNCHANGED commits
  BY <1>1
<1>2. ASSUME NEW c \in Commits, Commit(c)
      PROVE  \A d \in Commits : commits[d] # NoCommit => commits'[d] = commits[d]
  BY <1>2 DEF Commit, TypeOK
<1>3. QED
  BY <1>1, <1>2
     DEF Next, RepoStep, ScanStep, TamperStep, Edit, Checkout, Restore, StartScan,
         WalkFile, ReadFile, BuildGraph, OpenGraph, WriteGraph, WriteReport,
         BuildManifest, OpenManifest, WriteManifest, Crash, EditGraph,
         EditManifest, RemoveStore, repoVars, vars

SoundView(v) == v.status = "fresh" /\ v.calm => v.matches

SoundViews ==
  /\ mcp.view \in Views => SoundView(mcp.view)
  /\ cache # Nothing => SoundView(cache.view)

\* FreshIsSound is not inductive: a manifest in hand has to be faithful still
\* when git status is asked, and a verdict is also taken from the cache.
FreshInv ==
  /\ mcp.stage \in {"probeHead", "probeStatus"} => Faithful(mcp.man)
  /\ mcp.stage = "probeStatus" => mcp.man.head \in Commits
  /\ SoundViews

\* A verdict that is sound keeps both places sound.
LEMMA ConcludeSound ==
  ASSUME NEW v \in Views, NEW n, Conclude(v, n), SoundView(v)
  PROVE  FreshInv'
<1>1. mcp'.stage = "gate" /\ mcp'.view = v
  BY DEF Conclude, Resting
<1>2. cache' = Nothing \/ cache'.view = v
  BY DEF Conclude
<1>3. SoundViews'
  BY <1>1, <1>2 DEF SoundViews, SoundView
<1>4. QED BY <1>1, <1>3 DEF FreshInv

LEMMA VerdictSound ==
  ASSUME NEW st \in Statuses \ {"fresh"}, NEW n, Verdict(st, n)
  PROVE  FreshInv'
<1> DEFINE v == [status |-> st, matches |-> FALSE, calm |-> FALSE]
<1>1. v \in Views /\ SoundView(v)
  BY DEF Views, SoundView
<1>2. Conclude(v, n)
  BY DEF Verdict
<1>3. QED BY <1>1, <1>2, ConcludeSound

\* For every interleaving of scans, edits, commits, crashes and foreign hands
\* with the four looks of a probe and with the cache: a "fresh" verdict resting
\* on a calm scan's manifest is about a graph that holds the very files of the
\* commit it names, but for those the scan met an error reading
\* (graphFreshness, freshnessView).
THEOREM FreshSound == McpSpec => []FreshIsSound
<1>1. McpInit => FreshInv
  BY NothingAssumption DEF McpInit, FreshInv, SoundViews, Resting
<1>2. /\ TypeOK /\ ServerOK /\ CalmScanIsFaithful /\ FreshInv /\ [McpNext]_allVars
      => FreshInv'
  <2> SUFFICES ASSUME TypeOK, ServerOK, CalmScanIsFaithful, FreshInv,
                      [McpNext]_allVars
               PROVE  FreshInv'
    OBVIOUS
  <2> USE ServerAssumption
  <2>0. /\ RequestOK(mcp) /\ mcp \in Requests
        /\ cache \in Entries \cup {Nothing}
    BY DEF ServerOK, RequestOK
  <2>1. CASE WorldStep
    <3>1. mcp' = mcp /\ cache' = cache
      BY <2>1 DEF WorldStep
    <3>2. ASSUME mcp.stage \in {"probeHead", "probeStatus"} PROVE Faithful(mcp.man)'
      <4>1. mcp.man \in ManifestBytes /\ Faithful(mcp.man)
        BY <2>0, <3>2 DEF RequestOK, FreshInv
      <4>2. \A c \in Commits : commits[c] # NoCommit => commits'[c] = commits[c]
        BY <2>1, CommitsStay DEF WorldStep
      <4>3. QED BY <3>1, <4>1, <4>2, FaithfulStays DEF Faithful
    <3>3. QED BY <3>1, <3>2 DEF FreshInv, SoundViews, SoundView
  <2>2. CASE UNCHANGED allVars
    BY <2>2 DEF allVars, mcpVars, vars, FreshInv, SoundViews, SoundView, Faithful,
                Describes
  <2>3. ASSUME cache' = cache,
               mcp'.stage # "probeHead", mcp'.stage # "probeStatus",
               \/ mcp'.view = Nothing
               \/ mcp'.view = mcp.view
               \/ (cache # Nothing /\ mcp'.view = cache.view)
        PROVE  FreshInv'
    BY <2>3, NothingAssumption DEF FreshInv, SoundViews, SoundView
  <2>4. CASE Receive
    <3>1. /\ cache' = cache
          /\ \/ mcp'.stage = "gate" /\ cache # Nothing /\ mcp'.view = cache.view
             \/ mcp'.stage = "probeGraph" /\ mcp'.view = Nothing
      BY <2>4 DEF Receive, Resting, CacheLive
    <3>2. QED BY <2>3, <3>1
  <2>14. CASE Refuse
    <3>1. mcp' = mcp /\ cache' = cache /\ mcp.stage = "idle"
      BY <2>14 DEF Refuse
    <3>2. QED BY <2>3, <3>1
  <2>5. CASE ProbeGraph
    <3>1. CASE Verdict("missing", 0) \/ Verdict("malformed", 0)
      BY <3>1, VerdictSound DEF Statuses
    <3>2. CASE mcp' = [mcp EXCEPT !.stage = "probeManifest", !.bytes = graph]
               /\ UNCHANGED cache
      <4>1. mcp'.stage = "probeManifest" /\ mcp'.view = mcp.view /\ cache' = cache
        BY <2>0, <3>2 DEF Requests
      <4>2. QED BY <2>3, <4>1
    <3>3. QED BY <2>5, <3>1, <3>2 DEF ProbeGraph
  <2>6. ASSUME ProbeManifest, UNCHANGED vars PROVE FreshInv'
    <3>1. CASE \/ Verdict("possibly-stale", mcp.readAge)
               \/ Verdict("incompatible", mcp.readAge)
      BY <3>1, VerdictSound DEF Statuses
    <3>2. CASE /\ manifest \notin {Missing, Torn}
               /\ mcp' = [mcp EXCEPT !.stage = "probeHead", !.man = manifest]
               /\ UNCHANGED cache
      <4>1. Faithful(manifest)
        BY <3>2 DEF TypeOK, CalmScanIsFaithful, Faithful
      <4>2. mcp'.stage = "probeHead" /\ mcp'.man = manifest /\ mcp'.view = mcp.view
        BY <2>0, <3>2 DEF Requests
      <4>3. Faithful(mcp.man)'
        BY <2>6, <4>1, <4>2 DEF Faithful, Describes, vars
      <4>4. QED
        BY <3>2, <4>2, <4>3 DEF FreshInv, SoundViews, SoundView
    <3>3. QED BY <2>6, <3>1, <3>2 DEF ProbeManifest
  <2>7. ASSUME ProbeHead, UNCHANGED vars PROVE FreshInv'
    <3>1. CASE \E st \in Statuses \ {"fresh"} : Verdict(st, mcp.readAge)
      BY <3>1, VerdictSound
    <3>2. CASE /\ mcp' = [mcp EXCEPT !.stage = "probeStatus"] /\ UNCHANGED cache
               /\ \E h \in HeadReadings : NoHead # h /\ mcp.man.head = h
      <4>1. mcp.stage = "probeHead" /\ Faithful(mcp.man)
        BY <2>7 DEF ProbeHead, FreshInv
      <4>2. mcp.man.head \in Commits
        BY <3>2 DEF HeadReadings, TypeOK
      <4>3. mcp'.stage = "probeStatus" /\ mcp'.man = mcp.man /\ mcp'.view = mcp.view
        BY <2>0, <3>2 DEF Requests
      <4>4. Faithful(mcp.man)'
        BY <2>7, <4>1, <4>3 DEF Faithful, Describes, vars
      <4>5. QED
        BY <3>2, <4>2, <4>3, <4>4 DEF FreshInv, SoundViews, SoundView
    <3>3. QED BY <2>7, <3>1, <3>2 DEF ProbeHead, Statuses
  <2>8. CASE ProbeStatus
    <3>1. mcp.man \in ManifestBytes /\ mcp.bytes = mcp.man.graphHash
          /\ Faithful(mcp.man) /\ mcp.man.head \in Commits
      BY <2>0, <2>8 DEF ProbeStatus, RequestOK, FreshInv
    <3>2. PICK v \in Views :
            /\ Conclude(v, mcp.readAge)
            /\ v.status = "fresh"
                 => /\ v.matches = (mcp.bytes \in GraphBytes /\ Describes(mcp.bytes, mcp.man))
                    /\ v.calm = mcp.man.calm
      BY <2>8, <3>1, StatusConcludes
    <3>3. SoundView(v)
      BY <3>1, <3>2 DEF SoundView, Faithful, ManifestBytes
    <3>4. QED BY <3>2, <3>3, ConcludeSound
  <2>9. ASSUME NEW k, NEW b, Answer(k, b), UNCHANGED cache PROVE FreshInv'
    <3>1. mcp'.stage = "idle" /\ mcp'.view = Nothing /\ cache' = cache
      BY <2>9 DEF Answer, Resting
    <3>2. QED BY <2>3, <3>1
  <2>10. ASSUME NEW t \in {"exists", "load"}, mcp' = [mcp EXCEPT !.stage = t],
                UNCHANGED cache
         PROVE  FreshInv'
    <3>1. mcp'.stage = t /\ mcp'.view = mcp.view /\ cache' = cache
      BY <2>0, <2>10 DEF Requests
    <3>2. QED BY <2>3, <2>10, <3>1
  <2>11. CASE Gate \/ GraphExists \/ LoadGraph
    BY <2>9, <2>10, <2>11 DEF Gate, GraphExists, LoadGraph
  <2>12. ASSUME Tick, UNCHANGED vars PROVE FreshInv'
    <3>1. /\ mcp'.stage = mcp.stage /\ mcp'.view = mcp.view /\ mcp'.man = mcp.man
      <4>1. mcp' = mcp \/ \E a, b : mcp' = [mcp EXCEPT !.age = a, !.readAge = b]
        BY <2>12 DEF Tick
      <4>2. QED BY <2>0, <4>1 DEF Requests
    <3>2. cache' = Nothing \/ (cache # Nothing /\ cache'.view = cache.view)
      <4>1. CASE cache = Nothing \/ cache.age + 1 = TTL
        <5>1. cache' = Nothing
          BY <2>12, <4>1 DEF Tick
        <5>2. QED BY <5>1
      <4>2. CASE ~(cache = Nothing \/ cache.age + 1 = TTL)
        <5>1. cache' = [cache EXCEPT !.age = cache.age + 1,
                                     !.readAge = Older(cache.readAge)]
          BY <2>0, <2>12, <4>2 DEF Tick, Entries
        <5>2. QED BY <2>0, <4>2, <5>1 DEF Entries
      <4>3. QED BY <4>1, <4>2
    <3>3. commits' = commits
      BY <2>12 DEF vars
    <3>4. QED
      BY <3>1, <3>2, <3>3 DEF FreshInv, SoundViews, SoundView, Faithful, Describes
  <2>13. QED
    BY <2>1, <2>2, <2>4, <2>5, <2>6, <2>7, <2>8, <2>11, <2>12, <2>14
       DEF McpNext, ServerStep, HandlerStep
<1>3. FreshInv => FreshIsSound
  BY DEF FreshInv, SoundViews, SoundView, FreshIsSound
<1>4. QED
  BY <1>1, <1>2, <1>3, ServedStore, TypeCorrect, CalmScans, McpTypeCorrect,
     ServerOKMeans, PTL DEF McpSpec

-----------------------------------------------------------------------------
(* How old a verdict is that the cache hands out                           *)

\* A look is never older than the probe, nor than the entry it leads to.
YoungInv == /\ mcp.readAge <= mcp.age
            /\ cache # Nothing => cache.readAge <= cache.age

\* Whatever the probe's looks wait for, the cache hands out no verdict whose first
\* look is TTL old.  The time a call goes on for with the verdict it was handed, or
\* reached by itself, is not bounded (freshnessView).
THEOREM VerdictsAreYoung == McpSpec => []VerdictIsYoung
<1>1. McpInit => YoungInv
  BY DEF McpInit, YoungInv, Resting
<1>2. ServerOK /\ YoungInv /\ [McpNext]_allVars => YoungInv'
  <2> SUFFICES ASSUME ServerOK, YoungInv, [McpNext]_allVars PROVE YoungInv'
    OBVIOUS
  <2> USE ServerAssumption
  <2>0. mcp \in Requests /\ cache \in Entries \cup {Nothing}
    BY DEF ServerOK, RequestOK
  <2>1. CASE UNCHANGED <<mcp, cache>>
    BY <2>1 DEF YoungInv
  <2>2. ASSUME mcp'.age = mcp.age, mcp'.readAge = mcp.readAge, cache' = cache
        PROVE  YoungInv'
    BY <2>2 DEF YoungInv
  <2>3. ASSUME mcp'.age = 0, mcp'.readAge = 0, cache' = cache PROVE YoungInv'
    BY <2>3 DEF YoungInv
  <2>4. ASSUME NEW v, NEW n \in 0..TTL, n <= mcp.age, Conclude(v, n) PROVE YoungInv'
    <3>1. mcp'.age = 0 /\ mcp'.readAge = 0
      BY <2>4 DEF Conclude, Resting
    <3>2. cache' = Nothing \/ (cache'.age = mcp.age /\ cache'.readAge = n)
      BY <2>4 DEF Conclude
    <3>3. QED BY <2>4, <3>1, <3>2 DEF YoungInv
  <2>5. CASE Receive
    <3>1. mcp'.age = 0 /\ mcp'.readAge = 0 /\ cache' = cache
      BY <2>5 DEF Receive, Resting
    <3>2. QED BY <2>3, <3>1
  <2>16. CASE Refuse
    BY <2>1, <2>16 DEF Refuse
  <2>6. /\ 0 \in 0..TTL /\ 0 <= mcp.age
        /\ mcp.readAge \in 0..TTL /\ mcp.readAge <= mcp.age
    BY <2>0 DEF Requests, YoungInv
  <2>7. CASE ProbeGraph
    <3>1. CASE Verdict("missing", 0) \/ Verdict("malformed", 0)
      BY <2>4, <2>6, <3>1 DEF Verdict
    <3>2. CASE mcp' = [mcp EXCEPT !.stage = "probeManifest", !.bytes = graph]
               /\ UNCHANGED cache
      BY <2>0, <2>2, <3>2 DEF Requests
    <3>3. QED BY <2>7, <3>1, <3>2 DEF ProbeGraph
  <2>8. CASE ProbeManifest
    <3>1. CASE \E st : Verdict(st, mcp.readAge)
      BY <2>4, <2>6, <3>1 DEF Verdict
    <3>2. CASE mcp' = [mcp EXCEPT !.stage = "probeHead", !.man = manifest]
               /\ UNCHANGED cache
      BY <2>0, <2>2, <3>2 DEF Requests
    <3>3. QED BY <2>8, <3>1, <3>2 DEF ProbeManifest
  <2>9. CASE ProbeHead
    <3>1. CASE \E st : Verdict(st, mcp.readAge)
      BY <2>4, <2>6, <3>1 DEF Verdict
    <3>2. CASE mcp' = [mcp EXCEPT !.stage = "probeStatus"] /\ UNCHANGED cache
      BY <2>0, <2>2, <3>2 DEF Requests
    <3>3. QED BY <2>9, <3>1, <3>2 DEF ProbeHead
  <2>10. CASE ProbeStatus
    <3>1. PICK v : Conclude(v, mcp.readAge)
      BY <2>10 DEF ProbeStatus, Verdict
    <3>2. QED BY <2>4, <2>6, <3>1
  <2>11. ASSUME NEW k, NEW b, Answer(k, b), UNCHANGED cache PROVE YoungInv'
    <3>1. mcp'.age = 0 /\ mcp'.readAge = 0 /\ cache' = cache
      BY <2>11 DEF Answer, Resting
    <3>2. QED BY <2>3, <3>1
  <2>12. ASSUME NEW t, mcp' = [mcp EXCEPT !.stage = t], UNCHANGED cache PROVE YoungInv'
    BY <2>0, <2>2, <2>12 DEF Requests
  <2>13. CASE Gate \/ GraphExists \/ LoadGraph
    BY <2>11, <2>12, <2>13 DEF Gate, GraphExists, LoadGraph
  <2>14. CASE Tick
    <3>1. ASSUME NEW n \in 0..TTL, NEW m \in 0..TTL, n <= m
          PROVE  Older(n) <= Older(m) /\ 0 <= Older(m) /\ Older(n) <= m + 1
      BY <3>1 DEF Older
    <3>2. mcp'.readAge <= mcp'.age
      <4>1. CASE ~Probing
        <5>1. mcp' = mcp
          BY <2>14, <4>1 DEF Tick
        <5>2. QED BY <2>6, <5>1
      <4>2. CASE Probing
        <5>1. mcp' = [mcp EXCEPT !.age = Older(mcp.age),
                        !.readAge = IF mcp.stage = "probeGraph" THEN 0
                                    ELSE Older(mcp.readAge)]
          BY <2>0, <2>14, <4>2 DEF Tick, Requests
        <5>2. /\ mcp'.age = Older(mcp.age)
              /\ mcp'.readAge \in {0, Older(mcp.readAge)}
          BY <2>0, <5>1 DEF Requests
        <5>3. mcp.age \in 0..TTL
          BY <2>0 DEF Requests
        <5>4. QED BY <2>6, <3>1, <5>2, <5>3
      <4>3. QED BY <4>1, <4>2
    <3>3. cache' # Nothing => cache'.readAge <= cache'.age
      <4>1. CASE cache = Nothing \/ cache.age + 1 = TTL
        <5>1. cache' = Nothing
          BY <2>14, <4>1 DEF Tick
        <5>2. QED BY <5>1
      <4>2. CASE ~(cache = Nothing \/ cache.age + 1 = TTL)
        <5>1. /\ cache \in Entries
              /\ cache' = [cache EXCEPT !.age = cache.age + 1,
                                        !.readAge = Older(cache.readAge)]
          BY <2>0, <2>14, <4>2 DEF Tick, Entries
        <5>2. /\ cache'.age = cache.age + 1 /\ cache'.readAge = Older(cache.readAge)
              /\ cache.age \in 0..TTL /\ cache.readAge \in 0..TTL
          BY <5>1 DEF Entries
        <5>3. cache.readAge <= cache.age
          BY <4>2 DEF YoungInv
        <5>4. QED BY <3>1, <5>2, <5>3
      <4>3. QED BY <4>1, <4>2
    <3>4. QED BY <3>2, <3>3 DEF YoungInv
  <2>15. QED
    BY <2>1, <2>5, <2>7, <2>8, <2>9, <2>10, <2>13, <2>14, <2>16
       DEF McpNext, WorldStep, ServerStep, HandlerStep, allVars, mcpVars
<1>3. ServerOK /\ YoungInv => VerdictIsYoung
  BY ServerAssumption DEF ServerOK, YoungInv, VerdictIsYoung, CacheLive, Entries
<1>4. QED
  BY <1>1, <1>2, <1>3, McpTypeCorrect, ServerOKMeans, PTL DEF McpSpec

-----------------------------------------------------------------------------
(* What the gate lets through                                              *)

\* Over a store a lone scan has made whole, no scan is past its stamp.
Quiet == whole => \A p \in Scanners : scan[p].stage \in {"idle", "reading", "built"}

LEMMA QuietStore == Spec => []Quiet
<1>1. Init => Quiet
  BY DEF Init, Quiet
<1>2. TypeOK /\ LoneInv /\ Quiet /\ [Next]_vars => Quiet'
  <2> SUFFICES ASSUME TypeOK, LoneInv, Quiet, [Next]_vars, whole' PROVE Quiet'
    BY DEF Quiet
  <2>1. ASSUME UNCHANGED <<scan, whole>> PROVE Quiet'
    BY <2>1 DEF Quiet
  <2>2. ASSUME NEW p \in Scanners, NEW m, scan' = [scan EXCEPT ![p] = m],
               UNCHANGED whole, m.stage \in {"idle", "reading", "built"}
        PROVE  Quiet'
    BY <2>2 DEF Quiet, TypeOK
  <2>3. ASSUME NEW p \in Scanners, NEW v \in Schemas, StartScan(p, v) PROVE Quiet'
    <3>1. [Idle EXCEPT !.stage = "reading", !.build = v].stage = "reading"
      BY DEF Idle
    <3>2. QED BY <2>2, <2>3, <3>1 DEF StartScan
  <2>4. ASSUME NEW p \in Scanners, NEW f \in Files, WalkFile(p, f) \/ ReadFile(p, f)
        PROVE  Quiet'
    <3>1. UNCHANGED whole /\ scan[p] \in ScanMemory /\ scan[p].stage = "reading"
      BY <2>4 DEF WalkFile, ReadFile, At, TypeOK
    <3>2. \A q \in Scanners : scan'[q].stage = scan[q].stage
      <4>1. \E k, s : scan' = [scan EXCEPT ![p] = [scan[p] EXCEPT !.mark = k, !.snap = s]]
        <5>1. CASE WalkFile(p, f)
          <6>1. PICK k : scan' = [scan EXCEPT ![p] = [scan[p] EXCEPT !.mark = k]]
            BY <5>1, WalkMarks DEF TypeOK
          <6>2. [scan[p] EXCEPT !.mark = k]
                  = [scan[p] EXCEPT !.mark = k, !.snap = scan[p].snap]
            BY <3>1 DEF ScanMemory
          <6>3. QED BY <6>1, <6>2
        <5>2. CASE ReadFile(p, f)
          BY <5>2, ReadMemory DEF TypeOK
        <5>3. QED BY <2>4, <5>1, <5>2
      <4>2. QED BY <3>1, <4>1 DEF TypeOK, ScanMemory
    <3>3. QED BY <3>1, <3>2 DEF Quiet
  <2>5. ASSUME NEW p \in Scanners, BuildGraph(p) PROVE Quiet'
    <3>1. PICK g : scan' = [scan EXCEPT ![p] = [scan[p] EXCEPT !.stage = "built",
                                                               !.built = g]]
      BY <2>5 DEF BuildGraph, TypeOK
    <3>2. [scan[p] EXCEPT !.stage = "built", !.built = g].stage = "built"
      BY DEF TypeOK, ScanMemory
    <3>3. QED BY <2>2, <2>5, <3>1, <3>2 DEF BuildGraph
  <2>6. ASSUME NEW p \in Scanners, BuildManifest(p) PROVE Quiet'
    <3>1. whole /\ scan[p].stage = "reportDone"
      BY <2>6 DEF BuildManifest, At
    <3>2. QED BY <3>1 DEF Quiet
  <2>7. ASSUME NEW p \in Scanners, WriteManifest(p) PROVE Quiet'
    <3>1. lone[p] /\ scan' = [scan EXCEPT ![p] = Idle]
      BY <2>7 DEF WriteManifest, Exit
    <3>2. \A q \in Scanners \ {p} : scan[q].stage = "idle"
      BY <3>1 DEF LoneInv, LoneProgress, Alone, At
    <3>3. QED BY <3>1, <3>2 DEF Quiet, Idle, TypeOK
  <2>8. ASSUME NEW p \in Scanners, Crash(p) PROVE Quiet'
    <3>1. Idle.stage = "idle"
      BY DEF Idle
    <3>2. QED BY <2>2, <2>8, <3>1 DEF Crash, Exit
  <2>9. QED
    BY <2>1, <2>3, <2>4, <2>5, <2>6, <2>7, <2>8
       DEF Next, RepoStep, Edit, Commit, Checkout, Restore, Disturb, ScanStep,
           OpenGraph, WriteGraph, WriteReport, OpenManifest, TamperStep,
           EditGraph, EditManifest, RemoveStore, vars
<1>3. QED
  BY <1>1, <1>2, TypeCorrect, LoneHolds, PTL DEF Spec

\* While the store stays whole, graph.json stays what it is.
LEMMA WholeGraphStays ==
  ASSUME Quiet, [Next]_vars, whole, whole'
  PROVE  graph' = graph
<1>1. ASSUME NEW p \in Scanners, WriteManifest(p) PROVE FALSE
  BY <1>1 DEF WriteManifest, Quiet, At
<1>2. QED
  BY <1>1
     DEF Next, RepoStep, ScanStep, TamperStep, Edit, Commit, Checkout, Restore,
         Disturb, StartScan, WalkFile, ReadFile, BuildGraph, OpenGraph,
         WriteGraph, WriteReport, BuildManifest, OpenManifest, Crash, EditGraph,
         EditManifest, RemoveStore, storeVars, vars

\* A verdict reached over a store that has been whole since.
TightView(v) ==
  /\ v.status \notin {"missing", "malformed"}
  /\ v.status # "incompatible" => graph.schema = Supported

\* GateIsTightAtRest follows only if every stage of the request keeps what the
\* probe has seen true of graph.json as it is now.
GateInv ==
  /\ steady => whole
  /\ Probing => cache = Nothing
  /\ steady /\ mcp.stage \in {"probeManifest", "probeHead", "probeStatus"}
       => mcp.bytes = graph
  /\ steady /\ mcp.stage \in {"probeHead", "probeStatus"} => graph.schema = Supported
  /\ steady /\ mcp.stage \in {"gate", "exists", "load"} => TightView(mcp.view)
  /\ steady /\ cache # Nothing => TightView(cache.view)
  /\ mcp.stage \in {"exists", "load"} => mcp.view.status \notin BLOCKING_STATUSES
  /\ GateIsTightAtRest

\* A verdict on a steady store that is tight stays tight at the gate and in the
\* cache.
LEMMA ConcludeTight ==
  ASSUME GateInv, ServerOK, NEW v \in Views, NEW n, Conclude(v, n), UNCHANGED <<graph, reply>>,
         steady' => whole', steady' => TightView(v)
  PROVE  GateInv'
<1>1. mcp'.stage = "gate" /\ mcp'.view = v
  BY DEF Conclude, Resting
<1>2. cache' = Nothing \/ cache'.view = v
  BY DEF Conclude
<1>3. GateIsTightAtRest'
  BY DEF GateInv, GateIsTightAtRest, BLOCKING_STATUSES
<1>4. QED BY <1>1, <1>2, <1>3 DEF GateInv, TightView, Probing

LEMMA VerdictTight ==
  ASSUME GateInv, ServerOK, NEW st \in Statuses, NEW n, Verdict(st, n),
         UNCHANGED <<graph, reply>>, steady' => whole',
         steady' => /\ st \notin {"missing", "malformed"}
                    /\ st # "incompatible" => graph.schema = Supported
  PROVE  GateInv'
<1> DEFINE v == [status |-> st, matches |-> FALSE, calm |-> FALSE]
<1>1. v \in Views /\ (steady' => TightView(v))
  BY DEF Views, TightView
<1>2. Conclude(v, n)
  BY DEF Verdict
<1>3. QED BY <1>1, <1>2, ConcludeTight

\* For every store a lone scan has left whole and nobody has touched since the
\* verdict's look at graph.json: what is served is a graph of the server's own
\* schema, under a verdict that allows it.  The second read and the cache let
\* nothing else through (callTool, freshnessView, loadGraph).
THEOREM GateTight == McpSpec => []GateIsTightAtRest
<1>1. McpInit => GateInv
  BY DEF McpInit, GateInv, Resting, NoReply, Probing, GateIsTightAtRest
<1>2. /\ TypeOK /\ ServerOK /\ LoneScanHeals /\ Quiet /\ GateInv /\ [McpNext]_allVars
      => GateInv'
  <2> SUFFICES ASSUME TypeOK, ServerOK, LoneScanHeals, Quiet, GateInv,
                      [McpNext]_allVars
               PROVE  GateInv'
    OBVIOUS
  <2> USE ServerAssumption
  <2>0. /\ RequestOK(mcp) /\ mcp \in Requests
        /\ cache \in Entries \cup {Nothing}
        /\ GateIsTightAtRest
    BY DEF ServerOK, RequestOK, GateInv
  <2>1. steady => /\ whole /\ graph \in GraphBytes /\ manifest \in ManifestBytes
                  /\ manifest.graphHash = graph /\ manifest.schema = graph.schema
    BY DEF GateInv, LoneScanHeals
  <2>2. CASE WorldStep
    <3>1. UNCHANGED <<mcp, cache>> /\ steady' = (steady /\ whole')
      BY <2>2 DEF WorldStep
    <3>2. ASSUME steady' PROVE steady /\ whole' /\ graph' = graph
      BY <2>1, <2>2, <3>1, <3>2, WholeGraphStays DEF WorldStep
    <3>3. GateIsTightAtRest'
      BY <2>2 DEF WorldStep, NoReply, GateIsTightAtRest
    <3>4. QED BY <3>1, <3>2, <3>3 DEF GateInv, TightView, Probing
  <2>3. CASE UNCHANGED allVars
    BY <2>0, <2>3 DEF allVars, mcpVars, vars, GateInv, TightView, Probing,
                      GateIsTightAtRest
  <2>4. ASSUME UNCHANGED <<vars, steady, cache>>, GateIsTightAtRest',
               mcp'.stage = "idle" \/ (mcp'.stage = "probeGraph" /\ cache = Nothing)
                 \/ (mcp'.stage = "gate" /\ cache # Nothing /\ mcp'.view = cache.view)
        PROVE  GateInv'
    BY <2>4 DEF GateInv, TightView, Probing, vars
  <2>5. ASSUME Receive, UNCHANGED vars PROVE GateInv'
    <3>1. GateIsTightAtRest'
      BY <2>5 DEF Receive, NoReply, GateIsTightAtRest
    <3>2. \/ mcp'.stage = "gate" /\ cache # Nothing /\ mcp'.view = cache.view
          \/ mcp'.stage = "probeGraph" /\ cache = Nothing
      BY <2>5 DEF Receive, Resting, CacheLive
    <3>3. UNCHANGED <<cache, steady>>
      BY <2>5 DEF Receive
    <3>4. QED BY <2>4, <2>5, <3>1, <3>2, <3>3
  <2>19. ASSUME Refuse, UNCHANGED vars PROVE GateInv'
    <3>1. GateIsTightAtRest'
      BY <2>19 DEF Refuse, NoReply, GateIsTightAtRest
    <3>2. QED BY <2>4, <2>19, <3>1 DEF Refuse
  <2>6. ASSUME ProbeGraph, UNCHANGED vars PROVE GateInv'
    <3>1. /\ steady' = whole /\ whole' = whole /\ UNCHANGED <<graph, reply>>
          /\ mcp.stage = "probeGraph" /\ cache = Nothing
      BY <2>6 DEF ProbeGraph, vars, GateInv, Probing
    <3>2. whole => graph \in GraphBytes
      BY DEF LoneScanHeals
    <3>3. CASE graph \in {Missing, Torn}
      <4>1. ~steady'
        BY <3>1, <3>2, <3>3, ConstantsAssumption
      <4>2. \E st \in Statuses : Verdict(st, 0)
        BY <2>6, <3>3 DEF ProbeGraph, Statuses
      <4>3. QED BY <3>1, <4>1, <4>2, VerdictTight
    <3>4. CASE graph \notin {Missing, Torn}
      <4>1. mcp' = [mcp EXCEPT !.stage = "probeManifest", !.bytes = graph]
            /\ UNCHANGED cache
        BY <2>6, <3>4 DEF ProbeGraph
      <4>2. mcp'.stage = "probeManifest" /\ mcp'.bytes = graph /\ cache' = Nothing
        BY <2>0, <3>1, <4>1 DEF Requests
      <4>3. GateIsTightAtRest'
        BY <2>0, <3>1 DEF GateIsTightAtRest
      <4>4. QED BY <3>1, <4>2, <4>3 DEF GateInv, Probing
    <3>5. QED BY <3>3, <3>4
  <2>7. ASSUME NEW st \in Statuses \ {"missing", "malformed"}, NEW n, Verdict(st, n),
               UNCHANGED <<vars, reply, steady>>,
               steady /\ st # "incompatible" => graph.schema = Supported
        PROVE  GateInv'
    <3>1. UNCHANGED <<graph, reply>> /\ (steady' => whole')
      BY <2>1, <2>7 DEF vars
    <3>2. QED BY <2>7, <3>1, VerdictTight
  <2>8. ASSUME UNCHANGED <<vars, reply, steady, cache>>, mcp'.bytes = mcp.bytes,
               steady => mcp.bytes = graph /\ graph.schema = Supported,
               Probing, mcp'.stage \in {"probeHead", "probeStatus"}
        PROVE  GateInv'
    <3>1. GateIsTightAtRest'
      BY <2>0, <2>8 DEF GateIsTightAtRest
    <3>2. QED BY <2>8, <3>1 DEF GateInv, Probing, TightView, vars
  <2>9. ASSUME ProbeManifest, UNCHANGED vars PROVE GateInv'
    <3>1. /\ UNCHANGED <<reply, steady>> /\ mcp.stage = "probeManifest"
          /\ steady => mcp.bytes = graph
      BY <2>9 DEF ProbeManifest, GateInv
    <3>2. CASE manifest \in {Missing, Torn} \/ manifest.graphHash # mcp.bytes
      <4>1. ~steady
        BY <2>1, <3>1, <3>2, ConstantsAssumption
      <4>2. \E st \in {"possibly-stale", "incompatible"} : Verdict(st, mcp.readAge)
        BY <2>9, <3>2 DEF ProbeManifest
      <4>3. QED BY <2>7, <2>9, <3>1, <4>1, <4>2 DEF Statuses
    <3>3. CASE /\ manifest \notin {Missing, Torn} /\ manifest.graphHash = mcp.bytes
               /\ manifest.schema # Supported
      <4>1. Verdict("incompatible", mcp.readAge)
        BY <2>9, <3>3 DEF ProbeManifest
      <4>2. QED BY <2>7, <2>9, <3>1, <4>1 DEF Statuses
    <3>4. CASE /\ manifest \notin {Missing, Torn} /\ manifest.graphHash = mcp.bytes
               /\ manifest.schema = Supported
      <4>1. mcp' = [mcp EXCEPT !.stage = "probeHead", !.man = manifest]
            /\ UNCHANGED cache
        BY <2>9, <3>4 DEF ProbeManifest
      <4>2. mcp'.stage = "probeHead" /\ mcp'.bytes = mcp.bytes
        BY <2>0, <4>1 DEF Requests
      <4>3. steady => graph.schema = Supported
        BY <2>1, <3>4
      <4>4. QED BY <2>8, <2>9, <3>1, <4>1, <4>2, <4>3 DEF Probing
    <3>5. QED BY <3>2, <3>3, <3>4
  <2>10. ASSUME ProbeHead, UNCHANGED vars PROVE GateInv'
    <3>1. /\ UNCHANGED <<reply, steady>> /\ mcp.stage = "probeHead"
          /\ steady => mcp.bytes = graph /\ graph.schema = Supported
      BY <2>10 DEF ProbeHead, GateInv
    <3>2. CASE \E st \in Statuses \ {"missing", "malformed"} : Verdict(st, mcp.readAge)
      BY <2>7, <2>10, <3>1, <3>2
    <3>3. CASE mcp' = [mcp EXCEPT !.stage = "probeStatus"] /\ UNCHANGED cache
      <4>1. mcp'.stage = "probeStatus" /\ mcp'.bytes = mcp.bytes
        BY <2>0, <3>3 DEF Requests
      <4>2. QED BY <2>8, <2>10, <3>1, <3>3, <4>1 DEF Probing
    <3>4. QED BY <2>10, <3>2, <3>3 DEF ProbeHead, Statuses
  <2>11. ASSUME ProbeStatus, UNCHANGED vars PROVE GateInv'
    <3>1. /\ UNCHANGED <<graph, reply, steady, whole>>
          /\ steady => graph.schema = Supported
          /\ mcp.man \in ManifestBytes
      BY <2>0, <2>11 DEF ProbeStatus, GateInv, vars, RequestOK
    <3>2. PICK v \in Views : Conclude(v, mcp.readAge)
                            /\ v.status \in {"fresh", "possibly-stale"}
      BY <2>11, <3>1, StatusConcludes
    <3>3. steady' => TightView(v)
      BY <3>1, <3>2 DEF TightView
    <3>4. QED BY <2>1, <3>1, <3>2, <3>3, ConcludeTight
  <2>12. ASSUME NEW k, NEW b, Answer(k, b), UNCHANGED <<vars, cache, steady>>,
                k = "served" /\ steady
                  => /\ b \in GraphBytes /\ b.schema = Supported
                     /\ mcp.view.status \notin {"missing"} \cup BLOCKING_STATUSES
         PROVE  GateInv'
    <3>1. mcp'.stage = "idle"
      BY <2>12 DEF Answer, Resting
    <3>2. GateIsTightAtRest'
      BY <2>12 DEF Answer, GateIsTightAtRest
    <3>3. QED BY <2>4, <2>12, <3>1, <3>2
  <2>13. ASSUME NEW t \in {"exists", "load"}, mcp' = [mcp EXCEPT !.stage = t],
                mcp.stage \in {"gate", "exists"},
                UNCHANGED <<vars, cache, steady, reply>>,
                mcp.view.status \notin BLOCKING_STATUSES
         PROVE  GateInv'
    <3>1. mcp'.stage = t /\ mcp'.view = mcp.view
      BY <2>0, <2>13 DEF Requests
    <3>2. GateIsTightAtRest'
      BY <2>0, <2>13 DEF GateIsTightAtRest
    <3>3. QED BY <2>13, <3>1, <3>2 DEF GateInv, TightView, Probing, vars
  <2>14. ASSUME Gate, UNCHANGED vars PROVE GateInv'
    <3>1. UNCHANGED <<cache, steady>> /\ mcp.stage = "gate"
      BY <2>14 DEF Gate
    <3>2. CASE Answer("refused", Missing) \/ Answer("error", Missing)
      BY <2>12, <2>14, <3>1, <3>2
    <3>3. CASE /\ mcp.view.status \notin BLOCKING_STATUSES
               /\ mcp' = [mcp EXCEPT !.stage = "exists"] /\ UNCHANGED reply
      BY <2>13, <2>14, <3>1, <3>3
    <3>4. QED BY <2>14, <3>2, <3>3 DEF Gate
  <2>15. ASSUME GraphExists, UNCHANGED vars PROVE GateInv'
    <3>1. UNCHANGED <<cache, steady>> /\ mcp.stage = "exists"
          /\ mcp.view.status \notin BLOCKING_STATUSES
      BY <2>15 DEF GraphExists, GateInv
    <3>2. CASE Answer("missing", Missing)
      BY <2>12, <2>15, <3>1, <3>2
    <3>3. CASE mcp' = [mcp EXCEPT !.stage = "load"] /\ UNCHANGED reply
      BY <2>13, <2>15, <3>1, <3>3
    <3>4. QED BY <2>15, <3>2, <3>3 DEF GraphExists
  <2>16. ASSUME LoadGraph, UNCHANGED vars PROVE GateInv'
    <3>1. /\ UNCHANGED <<cache, steady>> /\ mcp.stage = "load"
          /\ mcp.view.status \notin BLOCKING_STATUSES
          /\ steady => TightView(mcp.view)
      BY <2>16 DEF LoadGraph, GateInv
    <3>2. CASE Answer("error", Missing)
      BY <2>12, <2>16, <3>1, <3>2
    <3>3. CASE Answer("served", graph)
      <4>1. steady => /\ graph \in GraphBytes /\ graph.schema = Supported
                      /\ mcp.view.status \notin {"missing"} \cup BLOCKING_STATUSES
        BY <2>1, <3>1 DEF TightView, BLOCKING_STATUSES
      <4>2. QED BY <2>12, <2>16, <3>1, <3>3, <4>1
    <3>4. QED BY <2>16, <3>2, <3>3 DEF LoadGraph
  <2>17. ASSUME Tick, UNCHANGED vars PROVE GateInv'
    <3>1. /\ mcp'.stage = mcp.stage /\ mcp'.view = mcp.view /\ mcp'.bytes = mcp.bytes
      <4>1. mcp' = mcp \/ \E a, b : mcp' = [mcp EXCEPT !.age = a, !.readAge = b]
        BY <2>17 DEF Tick
      <4>2. QED BY <2>0, <4>1 DEF Requests
    <3>2. cache' = Nothing \/ (cache # Nothing /\ cache'.view = cache.view)
      <4>1. CASE cache = Nothing \/ cache.age + 1 = TTL
        <5>1. cache' = Nothing
          BY <2>17, <4>1 DEF Tick
        <5>2. QED BY <5>1
      <4>2. CASE ~(cache = Nothing \/ cache.age + 1 = TTL)
        <5>1. cache' = [cache EXCEPT !.age = cache.age + 1,
                                     !.readAge = Older(cache.readAge)]
          BY <2>0, <2>17, <4>2 DEF Tick, Entries
        <5>2. QED BY <2>0, <4>2, <5>1 DEF Entries
      <4>3. QED BY <4>1, <4>2
    <3>3. cache = Nothing => cache' = Nothing
      BY <2>17 DEF Tick
    <3>4. reply' = NoReply /\ UNCHANGED steady
      BY <2>17 DEF Tick
    <3>5. GateIsTightAtRest'
      BY <3>4 DEF NoReply, GateIsTightAtRest
    <3>6. QED
      BY <2>17, <3>1, <3>2, <3>3, <3>4, <3>5 DEF GateInv, TightView, Probing, vars
  <2>18. QED
    BY <2>2, <2>3, <2>5, <2>6, <2>9, <2>10, <2>11, <2>14, <2>15, <2>16, <2>17, <2>19
       DEF McpNext, ServerStep, HandlerStep
<1>3. GateInv => GateIsTightAtRest
  BY DEF GateInv
<1>4. QED
  BY <1>1, <1>2, <1>3, ServedStore, TypeCorrect, LoneScansHeal, QuietStore,
     McpTypeCorrect, ServerOKMeans, PTL DEF McpSpec

-----------------------------------------------------------------------------
(* The stdio transport implements InOrderServer, for any number of messages *)
(* and wherever the chunks are cut.  What a loop over a text computes is   *)
(* proved by induction on its length (module Loops).                       *)

-----------------------------------------------------------------------------
(* Cutting                                                                 *)

Byte  == [msg : Messages \cup {NoMessage}, half : 0..2]
Lines == [lines : Seq(Seq(Byte)), rest : Seq(Byte)]

\* f is what the loop over s has after each of its first n bytes.
Loop(f, s, n) == f = [i \in 0..n |-> IF i = 0 THEN NoLines ELSE Feed(f[i - 1], s[i])]

LEMMA Bytes_ == NL \in Byte /\ NoLines \in Lines
BY DEF NL, Byte, NoLines, Lines

LEMMA FeedType ==
  ASSUME NEW c \in Lines, NEW b \in Byte
  PROVE  Feed(c, b) \in Lines
<1>1. c.lines \in Seq(Seq(Byte)) /\ c.rest \in Seq(Byte)
      /\ c = [lines |-> c.lines, rest |-> c.rest]
  BY DEF Lines
<1>2. Append(c.rest, b) \in Seq(Byte) /\ Append(c.lines, c.rest) \in Seq(Seq(Byte))
      /\ <<>> \in Seq(Byte)
  BY <1>1
<1>3. QED BY <1>1, <1>2 DEF Feed, Lines

\* The loop has an outcome at every byte.
LEMMA CutLoopExists ==
  ASSUME NEW s \in Seq(Byte)
  PROVE  \E f : Loop(f, s, Len(s))
<1> DEFINE S == {n \in 0..Len(s) : \E f : Loop(f, s, n)}
<1>1. 0 \in S
  <2>1. Loop([i \in 0..0 |-> NoLines], s, 0)
    BY DEF Loop
  <2>2. QED BY <2>1
<1>2. ASSUME NEW n \in 0..(Len(s) - 1), n \in S PROVE n + 1 \in S
  <2>1. PICK f : Loop(f, s, n)
    BY <1>2
  <2> DEFINE g == [i \in 0..(n + 1) |-> IF i = n + 1 THEN Feed(f[n], s[n + 1]) ELSE f[i]]
  <2>2. n \in Nat /\ n # n + 1 /\ \A i \in 0..n : i \in 0..(n + 1) /\ i # n + 1 /\ g[i] = f[i]
    BY <1>2
  <2>3. \A i \in 1..n : i - 1 \in 0..n
    BY <2>2
  <2>4. ASSUME NEW i \in 0..(n + 1)
        PROVE  g[i] = IF i = 0 THEN NoLines ELSE Feed(g[i - 1], s[i])
    <3>1. CASE i = n + 1
      BY <2>2, <3>1
    <3>2. CASE i # n + 1
      <4>1. i \in 0..n
        BY <2>2, <3>2
      <4>2. f[i] = IF i = 0 THEN NoLines ELSE Feed(f[i - 1], s[i])
        BY <2>1, <4>1 DEF Loop
      <4>3. i # 0 => i - 1 \in 0..n
        BY <2>2, <4>1
      <4> HIDE DEF g
      <4>4. QED BY <2>2, <4>1, <4>2, <4>3
    <3>3. QED BY <3>1, <3>2
  <2>5. g = [i \in 0..(n + 1) |-> IF i = 0 THEN NoLines ELSE Feed(g[i - 1], s[i])]
    BY <2>4, Zenon
  <2>6. n + 1 \in 0..Len(s)
    BY <1>2
  <2>7. QED BY <2>5, <2>6 DEF Loop
<1>3. \A i \in 0..Len(s) : i \in S
  <2> HIDE DEF S
  <2>1. QED BY <1>1, <1>2, Induction
<1>4. QED BY <1>3

LEMMA LoopType ==
  ASSUME NEW s \in Seq(Byte), NEW n \in 0..Len(s), NEW f, Loop(f, s, n)
  PROVE  f \in [0..n -> Lines]
<1> DEFINE S == {i \in 0..n : f[i] \in Lines}
<1>1. 0 \in S
  BY Bytes_ DEF Loop
<1>2. ASSUME NEW i \in 0..(n - 1), i \in S PROVE i + 1 \in S
  <2>1. f[i + 1] = Feed(f[i], s[i + 1]) /\ s[i + 1] \in Byte
    BY <1>2 DEF Loop
  <2>2. QED BY <1>2, <2>1, FeedType
<1>3. \A i \in 0..n : i \in S
  <2> HIDE DEF S
  <2>1. QED BY <1>1, <1>2, Induction
<1>4. QED BY <1>3 DEF Loop

\* Two loops over texts that begin alike have the same outcomes.
LEMMA LoopUnique ==
  ASSUME NEW s, NEW t, NEW m \in Nat, NEW n \in Nat, NEW f, NEW g,
         Loop(f, s, m), Loop(g, t, n), NEW k \in 0..m, k <= n,
         \A i \in 1..k : s[i] = t[i]
  PROVE  f[k] = g[k]
<1> DEFINE S == {i \in 0..k : f[i] = g[i]}
<1>1. 0 \in S
  BY DEF Loop
<1>2. ASSUME NEW i \in 0..(k - 1), i \in S PROVE i + 1 \in S
  BY <1>2 DEF Loop
<1>3. \A i \in 0..k : i \in S
  <2> HIDE DEF S
  <2>1. QED BY <1>1, <1>2, Induction
<1>4. QED BY <1>3

LEMMA CutIsLoop ==
  ASSUME NEW s \in Seq(Byte)
  PROVE  \E f : Loop(f, s, Len(s)) /\ Cut(s) = f[Len(s)]
<1> DEFINE f == CHOOSE g : Loop(g, s, Len(s))
<1>1. Loop(f, s, Len(s))
  BY CutLoopExists
<1>2. Cut(s) = f[Len(s)]
  BY DEF Cut, Loop
<1>3. QED BY <1>1, <1>2

LEMMA CutEmpty == Cut(<<>>) = NoLines
<1>1. <<>> \in Seq(Byte) /\ Len(<<>>) = 0
  OBVIOUS
<1>2. PICK f : Loop(f, <<>>, 0) /\ Cut(<<>>) = f[0]
  BY <1>1, CutIsLoop
<1>3. QED BY <1>2 DEF Loop

LEMMA CutType ==
  ASSUME NEW s \in Seq(Byte)
  PROVE  Cut(s) \in Lines
BY CutIsLoop, LoopType

LEMMA CutAppend ==
  ASSUME NEW s \in Seq(Byte), NEW b \in Byte
  PROVE  Cut(Append(s, b)) = Feed(Cut(s), b)
<1> DEFINE t == Append(s, b)
<1>1. t \in Seq(Byte) /\ Len(t) = Len(s) + 1 /\ t[Len(s) + 1] = b /\ Len(s) \in Nat
      /\ \A i \in 1..Len(s) : s[i] = t[i]
  OBVIOUS
<1> HIDE DEF t
<1>2. PICK f : Loop(f, s, Len(s)) /\ Cut(s) = f[Len(s)]
  BY CutIsLoop
<1>3. PICK g : Loop(g, t, Len(t)) /\ Cut(t) = g[Len(t)]
  BY <1>1, CutIsLoop
<1>4. g[Len(s)] = f[Len(s)]
  BY <1>1, <1>2, <1>3, LoopUnique
<1>5. g[Len(s) + 1] = Feed(g[Len(s)], b)
  <2>1. Len(s) + 1 \in 0..Len(t) /\ Len(s) + 1 # 0 /\ (Len(s) + 1) - 1 = Len(s)
    BY <1>1
  <2>2. QED BY <1>1, <1>3, <2>1 DEF Loop
<1>6. QED BY <1>1, <1>2, <1>3, <1>4, <1>5 DEF t

\* What stands after the last newline has no newline in it, and no line.
LEMMA RestIsRest ==
  ASSUME NEW s \in Seq(Byte)
  PROVE  Cut(Cut(s).rest) = [lines |-> <<>>, rest |-> Cut(s).rest]
<1> DEFINE Good(c) == c \in Lines /\ Cut(c.rest) = [lines |-> <<>>, rest |-> c.rest]
<1>1. PICK f : Loop(f, s, Len(s)) /\ Cut(s) = f[Len(s)]
  BY CutIsLoop
<1>2. f \in [0..Len(s) -> Lines]
  BY <1>1, LoopType
<1> DEFINE S == {i \in 0..Len(s) : Good(f[i])}
<1>3. 0 \in S
  <2>1. f[0] = NoLines
    BY <1>1 DEF Loop
  <2>2. Good(NoLines)
    BY CutEmpty, Bytes_ DEF NoLines
  <2>3. QED BY <2>1, <2>2
<1>4. ASSUME NEW i \in 0..(Len(s) - 1), i \in S PROVE i + 1 \in S
  <2> DEFINE c == f[i]
  <2> DEFINE b == s[i + 1]
  <2>1. Good(c) /\ c \in Lines /\ b \in Byte
    BY <1>4
  <2>2. f[i + 1] = Feed(c, b)
    BY <1>1, <1>4 DEF Loop
  <2> HIDE DEF c, b
  <2>3. Good(Feed(c, b))
    <3>1. CASE b = NL
      <4>1. Feed(c, b).rest = <<>> /\ Feed(c, b) \in Lines
        BY <2>1, <3>1, FeedType DEF Feed
      <4>2. QED BY <4>1, CutEmpty DEF NoLines
    <3>2. CASE b # NL
      <4>1. c.rest \in Seq(Byte) /\ Feed(c, b).rest = Append(c.rest, b) /\ Feed(c, b) \in Lines
        BY <2>1, <3>2, FeedType DEF Feed, Lines
      <4>2. Cut(Append(c.rest, b)) = Feed([lines |-> <<>>, rest |-> c.rest], b)
        BY <2>1, <4>1, CutAppend
      <4>3. QED BY <3>2, <4>1, <4>2 DEF Feed
    <3>3. QED BY <3>1, <3>2
  <2>4. QED BY <1>4, <2>2, <2>3
<1>5. \A i \in 0..Len(s) : i \in S
  <2> HIDE DEF S
  <2>1. QED BY <1>3, <1>4, Induction
<1>6. Len(s) \in 0..Len(s)
  OBVIOUS
<1>7. QED BY <1>1, <1>5, <1>6

LEMMA LineAdded ==
  ASSUME NEW s \in Seq(Seq(Byte)), NEW t \in Seq(Seq(Byte)), NEW x \in Seq(Byte)
  PROVE  Append(s \o t, x) = s \o Append(t, x)
<1> DEFINE S == Seq(Byte)
<1>1. s \in Seq(S) /\ t \in Seq(S) /\ x \in S
  OBVIOUS
<1>2. s \o t \in Seq(S) /\ Append(t, x) \in Seq(S)
  BY <1>1
<1>3. Append(s \o t, x) \in Seq(S) /\ s \o Append(t, x) \in Seq(S)
  BY <1>1
<1>4. Len(Append(s \o t, x)) = Len(s \o Append(t, x))
  BY <1>1
<1>5. \A i \in 1..Len(Append(s \o t, x)) : Append(s \o t, x)[i] = (s \o Append(t, x))[i]
  BY <1>1
<1> HIDE DEF S
<1>6. QED BY <1>3, <1>4, <1>5, SeqEqual

\* A loop that has begun the same line goes on alike, whatever came before.
LEMMA FeedAlike ==
  ASSUME NEW c \in Lines, NEW d \in Lines, NEW h \in Seq(Seq(Byte)), NEW b,
         c.rest = d.rest, c.lines = h \o d.lines
  PROVE  Feed(c, b).rest = Feed(d, b).rest /\ Feed(c, b).lines = h \o Feed(d, b).lines
<1>1. c.rest \in Seq(Byte) /\ d.lines \in Seq(Seq(Byte))
      /\ c = [lines |-> c.lines, rest |-> c.rest] /\ d = [lines |-> d.lines, rest |-> d.rest]
  BY DEF Lines
<1>2. Append(h \o d.lines, c.rest) = h \o Append(d.lines, c.rest)
  BY <1>1, LineAdded
<1>3. CASE b = NL
  BY <1>2, <1>3 DEF Feed
<1>4. CASE b # NL
  <2>1. Feed(c, b).rest = Append(c.rest, b) /\ Feed(c, b).lines = c.lines
    BY <1>1, <1>4 DEF Feed
  <2>2. Feed(d, b).rest = Append(d.rest, b) /\ Feed(d, b).lines = d.lines
    BY <1>1, <1>4 DEF Feed
  <2>3. QED BY <2>1, <2>2
<1>5. QED BY <1>3, <1>4

\* Where a text is cut, what has been begun is all that counts.
LEMMA CutConcat ==
  ASSUME NEW s \in Seq(Byte), NEW t \in Seq(Byte)
  PROVE  /\ Handled(s \o t) = Handled(s) \o Handled(Rest(s) \o t)
         /\ Rest(s \o t) = Rest(Rest(s) \o t)
<1> DEFINE r == Rest(s)
<1> DEFINE P(u) == /\ Handled(s \o u) = Handled(s) \o Handled(r \o u)
                   /\ Rest(s \o u) = Rest(r \o u)
<1> DEFINE S == {n \in 0..Len(t) : P(SubSeq(t, 1, n))}
<1>1. r \in Seq(Byte) /\ Handled(s) \in Seq(Seq(Byte))
  BY CutType DEF Rest, Handled, Lines
<1>2. 0 \in S
  <2>1. SubSeq(t, 1, 0) = <<>> /\ s \o <<>> = s /\ r \o <<>> = r
    BY <1>1
  <2>2. Handled(r) = <<>> /\ Rest(r) = r
    <3>1. Cut(r) = [lines |-> <<>>, rest |-> r]
      BY RestIsRest DEF Rest
    <3> HIDE DEF r
    <3>2. QED BY <3>1 DEF Rest, Handled
  <2>3. Handled(s) \o <<>> = Handled(s)
    BY <1>1
  <2> HIDE DEF r
  <2>4. P(SubSeq(t, 1, 0))
    BY <2>1, <2>2, <2>3 DEF r
  <2>5. QED BY <2>4
<1>3. ASSUME NEW n \in 0..(Len(t) - 1), n \in S PROVE n + 1 \in S
  <2> DEFINE x == SubSeq(t, 1, n)
  <2> DEFINE b == t[n + 1]
  <2>1. x \in Seq(Byte) /\ b \in Byte /\ SubSeq(t, 1, n + 1) = Append(x, b)
    BY <1>3
  <2>2. P(x)
    BY <1>3
  <2> HIDE DEF x, b, r
  <2>3. s \o x \in Seq(Byte) /\ r \o x \in Seq(Byte)
        /\ s \o Append(x, b) = Append(s \o x, b) /\ r \o Append(x, b) = Append(r \o x, b)
    BY <1>1, <2>1
  <2>4. Cut(Append(s \o x, b)) = Feed(Cut(s \o x), b) /\ Cut(Append(r \o x, b)) = Feed(Cut(r \o x), b)
    BY <2>1, <2>3, CutAppend
  <2> DEFINE c == Cut(s \o x)
  <2> DEFINE d == Cut(r \o x)
  <2>5. c \in Lines /\ d \in Lines /\ c.rest = d.rest /\ c.lines = Handled(s) \o d.lines
    BY <2>2, <2>3, CutType DEF Rest, Handled
  <2> HIDE DEF c, d
  <2>6. Feed(c, b).rest = Feed(d, b).rest /\ Feed(c, b).lines = Handled(s) \o Feed(d, b).lines
    BY <1>1, <2>5, FeedAlike
  <2>7. P(Append(x, b))
    BY <2>3, <2>4, <2>6 DEF Rest, Handled, c, d
  <2>8. n + 1 \in 0..Len(t)
    BY <1>3
  <2>9. P(SubSeq(t, 1, n + 1))
    BY <2>1, <2>7
  <2>10. QED BY <2>8, <2>9, Zenon
<1>4. \A i \in 0..Len(t) : i \in S
  <2>1. Len(t) \in Nat
    OBVIOUS
  <2> HIDE DEF S
  <2>2. QED BY <1>2, <1>3, <2>1, Induction
<1>5. SubSeq(t, 1, Len(t)) = t /\ Len(t) \in 0..Len(t)
  OBVIOUS
<1>6. P(t)
  BY <1>4, <1>5
<1>7. QED BY <1>6

-----------------------------------------------------------------------------
(* Messages on the wire                                                    *)

\* The lines that messages make.
Whole == {Halves(m) : m \in {x \in Messages : x.kind # "blank"}}

Parsed(lines) == [k \in DOMAIN lines |-> Parse(lines[k])]

LEMMA HalvesOf ==
  ASSUME NEW m \in Messages, m.kind # "blank"
  PROVE  /\ Halves(m) \in Seq(Byte) /\ Len(Halves(m)) = 2 /\ Halves(m) # <<>>
         /\ Halves(m)[1] \in Byte /\ Halves(m)[2] \in Byte
         /\ Halves(m)[1] # NL /\ Halves(m)[2] # NL
         /\ Halves(m)[1].msg = m
         /\ Halves(m) = Append(Append(<<>>, Halves(m)[1]), Halves(m)[2])
BY StdioAssumption DEF Halves, Byte, NL

LEMMA ParseWhole ==
  ASSUME NEW m \in Messages, m.kind # "blank"
  PROVE  Halves(m) \in Whole /\ Parse(Halves(m)) = m
BY HalvesOf DEF Whole, Parse

LEMMA WholeParses ==
  ASSUME NEW line \in Whole
  PROVE  line \in Seq(Byte) /\ Parse(line) \in Messages
BY HalvesOf, ParseWhole DEF Whole

LEMMA ParsedType ==
  ASSUME NEW l \in Seq(Whole)
  PROVE  /\ Parsed(l) \in Seq(Messages) /\ Len(Parsed(l)) = Len(l)
         /\ \A i \in 1..Len(l) : Parsed(l)[i] = Parse(l[i])
<1>1. /\ Len(l) \in Nat /\ DOMAIN l = 1..Len(l)
      /\ \A i \in 1..Len(l) : l[i] \in Whole
  OBVIOUS
<1>2. \A i \in 1..Len(l) : Parse(l[i]) \in Messages
  BY <1>1, WholeParses
<1>3. Parsed(l) = [i \in 1..Len(l) |-> Parse(l[i])]
  BY <1>1 DEF Parsed
<1>4. QED BY <1>1, <1>2, <1>3

LEMMA ParsedAppend ==
  ASSUME NEW l \in Seq(Whole), NEW m \in Messages, m.kind # "blank"
  PROVE  Parsed(Append(l, Halves(m))) = Append(Parsed(l), m)
<1>1. Append(l, Halves(m)) \in Seq(Whole)
  BY ParseWhole
<1>2. Append(Parsed(l), m) \in Seq(Messages)
  BY ParsedType
<1>3. Parsed(Append(l, Halves(m))) \in Seq(Messages)
  BY <1>1, ParsedType
<1>4. Len(Parsed(Append(l, Halves(m)))) = Len(Append(Parsed(l), m))
  <2>1. Parsed(l) \in Seq(Messages) /\ Len(Parsed(l)) = Len(l)
    BY ParsedType
  <2>2. Len(Parsed(Append(l, Halves(m)))) = Len(Append(l, Halves(m)))
    BY <1>1, ParsedType
  <2>3. QED BY <2>1, <2>2
<1>5. ASSUME NEW i \in 1..Len(Append(l, Halves(m)))
      PROVE  Parsed(Append(l, Halves(m)))[i] = Append(Parsed(l), m)[i]
  <2>1. Parsed(Append(l, Halves(m)))[i] = Parse(Append(l, Halves(m))[i])
    BY <1>1, ParsedType
  <2>2. CASE i = Len(l) + 1
    BY <2>1, <2>2, ParsedType, ParseWhole
  <2>3. CASE i # Len(l) + 1
    BY <2>1, <2>3, ParsedType
  <2>4. QED BY <2>2, <2>3
<1>6. Len(Parsed(Append(l, Halves(m)))) = Len(Append(l, Halves(m)))
  BY <1>1, ParsedType
<1>7. QED BY <1>2, <1>3, <1>4, <1>5, <1>6, SeqEqual

LEMMA ParsedTail ==
  ASSUME NEW l \in Seq(Whole), l # <<>>
  PROVE  /\ Tail(l) \in Seq(Whole) /\ Head(l) \in Whole
         /\ Parsed(l) # <<>> /\ Head(Parsed(l)) = Parse(Head(l))
         /\ Tail(Parsed(l)) = Parsed(Tail(l))
         /\ <<Parse(Head(l))>> \o Parsed(Tail(l)) = Parsed(l)
<1>1. Tail(l) \in Seq(Whole) /\ Head(l) \in Whole
  OBVIOUS
<1> DEFINE t == Tail(l)
<1> DEFINE p == Parsed(l)
<1> DEFINE q == Parsed(t)
<1>2. /\ t \in Seq(Whole) /\ Len(t) = Len(l) - 1 /\ Len(l) \in Nat \ {0}
      /\ \A i \in 1..Len(t) : t[i] = l[i + 1]
      /\ Head(l) = l[1]
  OBVIOUS
<1>3. /\ p \in Seq(Messages) /\ Len(p) = Len(l) /\ \A i \in 1..Len(l) : p[i] = Parse(l[i])
      /\ q \in Seq(Messages) /\ Len(q) = Len(t) /\ \A i \in 1..Len(t) : q[i] = Parse(t[i])
  BY <1>1, ParsedType
<1> HIDE DEF t, p, q
<1>4. p # <<>> /\ Head(p) = Parse(Head(l)) /\ Parse(Head(l)) \in Messages
  BY <1>2, <1>3
<1>5. Tail(p) = q
  <2>1. Tail(p) \in Seq(Messages) /\ Len(Tail(p)) = Len(q)
        /\ \A i \in 1..Len(q) : Tail(p)[i] = q[i]
    BY <1>2, <1>3, <1>4
  <2>2. QED BY <1>3, <2>1, SeqEqual
<1>6. <<Head(p)>> \o Tail(p) = p
  BY <1>3, <1>4
<1>7. QED BY <1>1, <1>4, <1>5, <1>6 DEF t, p, q

LEMMA CutOn ==
  ASSUME NEW s \in Seq(Byte), NEW b \in Byte, NEW t, t = Append(s, b)
  PROVE  t \in Seq(Byte) /\ Cut(t) = Feed(Cut(s), b)
BY CutAppend

\* A message byte by byte.
LEMMA CutSteps ==
  ASSUME NEW a \in Byte, NEW b \in Byte, a # NL, b # NL
  PROVE  /\ <<a>> \in Seq(Byte) /\ Cut(<<a>>) = [lines |-> <<>>, rest |-> <<a>>]
         /\ <<a, b>> \in Seq(Byte) /\ Cut(<<a, b>>) = [lines |-> <<>>, rest |-> <<a, b>>]
         /\ <<a, b, NL>> \in Seq(Byte)
         /\ Cut(<<a, b, NL>>) = [lines |-> <<<<a, b>>>>, rest |-> <<>>]
<1>1. <<>> \in Seq(Byte) /\ <<a>> = Append(<<>>, a) /\ <<a, b>> = Append(<<a>>, b)
      /\ <<a, b, NL>> = Append(<<a, b>>, NL) /\ <<a, b>> # <<>>
  OBVIOUS
<1>2. <<a>> \in Seq(Byte) /\ Cut(<<a>>) = Feed(NoLines, a)
  BY <1>1, CutOn, CutEmpty, Zenon
<1>3. Cut(<<a>>) = [lines |-> <<>>, rest |-> <<a>>]
  BY <1>1, <1>2 DEF Feed, NoLines
<1>4. <<a, b>> \in Seq(Byte) /\ Cut(<<a, b>>) = Feed([lines |-> <<>>, rest |-> <<a>>], b)
  BY <1>1, <1>2, <1>3, CutOn, Zenon
<1>5. Cut(<<a, b>>) = [lines |-> <<>>, rest |-> <<a, b>>]
  BY <1>1, <1>4 DEF Feed
<1>6. /\ <<a, b, NL>> \in Seq(Byte)
      /\ Cut(<<a, b, NL>>) = Feed([lines |-> <<>>, rest |-> <<a, b>>], NL)
  BY <1>1, <1>4, <1>5, Bytes_, CutOn, Zenon
<1>7. Cut(<<a, b, NL>>) = [lines |-> <<<<a, b>>>>, rest |-> <<>>]
  BY <1>1, <1>6 DEF Feed
<1>8. QED BY <1>2, <1>3, <1>4, <1>5, <1>6, <1>7

LEMMA CutBytes ==
  ASSUME NEW m \in Messages
  PROVE  /\ Bytes(m) \in Seq(Byte)
         /\ Cut(Bytes(m)) = [lines |-> IF m.kind = "blank" THEN <<>> ELSE <<Halves(m)>>,
                            rest |-> <<>>]
<1>1. CASE m.kind = "blank"
  <2>1. Bytes(m) = Append(<<>>, NL) /\ <<>> \in Seq(Byte)
    BY <1>1 DEF Bytes, Halves
  <2>2. Bytes(m) \in Seq(Byte) /\ Cut(Bytes(m)) = Feed(NoLines, NL)
    BY <2>1, CutOn, CutEmpty, Bytes_, Zenon
  <2>3. QED BY <1>1, <2>2 DEF Feed, NoLines
<1>2. CASE m.kind # "blank"
  <2> DEFINE a == [msg |-> m, half |-> 1]
  <2> DEFINE b == [msg |-> m, half |-> 2]
  <2>1. Halves(m) = <<a, b>> /\ a \in Byte /\ b \in Byte /\ a # NL /\ b # NL
    BY <1>2 DEF Halves, Byte, NL
  <2> HIDE DEF a, b
  <2>2. <<a, b, NL>> = Append(<<a, b>>, NL) /\ Bytes(m) = Append(<<a, b>>, NL)
    BY <2>1, Bytes_ DEF Bytes
  <2>3. QED BY <1>2, <2>1, <2>2, CutSteps
<1>3. QED BY <1>1, <1>2

\* A message that stops before its newline makes no line.
LEMMA CutHalf ==
  ASSUME NEW m \in Messages, NEW n \in 1..(Len(Bytes(m)) - 1)
  PROVE  SubSeq(Bytes(m), 1, n) \in Seq(Byte) /\ Handled(SubSeq(Bytes(m), 1, n)) = <<>>
<1> DEFINE a == [msg |-> m, half |-> 1]
<1> DEFINE b == [msg |-> m, half |-> 2]
<1>1. m.kind # "blank"
  BY DEF Bytes, Halves
<1>2. Halves(m) = <<a, b>> /\ a \in Byte /\ b \in Byte /\ a # NL /\ b # NL
  BY <1>1 DEF Halves, Byte, NL
<1> HIDE DEF a, b
<1> DEFINE t == <<a, b, NL>>
<1>3. t = Append(<<a, b>>, NL) /\ Bytes(m) = Append(<<a, b>>, NL) /\ Len(t) = 3
  BY <1>2, Bytes_ DEF Bytes
<1>4. n = 1 \/ n = 2
  BY <1>3
<1>5. <<a>> = SubSeq(t, 1, 1) /\ <<a, b>> = SubSeq(t, 1, 2)
  <2>1. NL \in Byte
    BY Bytes_
  <2>2. <<a>> = SubSeq(t, 1, 1)
    BY <1>2, <2>1
  <2>3. <<a, b>> = SubSeq(t, 1, 2)
    <3> DEFINE p == <<a, b>>
    <3> DEFINE q == SubSeq(t, 1, 2)
    <3>1. p \in Seq(Byte) /\ Len(p) = 2 /\ p[1] = a /\ p[2] = b
      BY <1>2
    <3>2. q \in Seq(Byte) /\ Len(q) = 2 /\ q[1] = a /\ q[2] = b
      BY <1>2, <2>1
    <3> HIDE DEF p, q
    <3>3. p = q
      BY <3>1, <3>2
    <3>4. QED BY <3>3 DEF p, q
  <2>4. QED BY <2>2, <2>3
<1> HIDE DEF t
<1>6. Bytes(m) = t
  BY <1>3, Zenon
<1>7. SubSeq(Bytes(m), 1, n) = <<a>> \/ SubSeq(Bytes(m), 1, n) = <<a, b>>
  BY <1>4, <1>5, <1>6, Zenon
<1>8. /\ <<a>> \in Seq(Byte) /\ Handled(<<a>>) = <<>>
      /\ <<a, b>> \in Seq(Byte) /\ Handled(<<a, b>>) = <<>>
  <2>1. /\ <<a>> \in Seq(Byte) /\ Cut(<<a>>) = [lines |-> <<>>, rest |-> <<a>>]
        /\ <<a, b>> \in Seq(Byte) /\ Cut(<<a, b>>) = [lines |-> <<>>, rest |-> <<a, b>>]
    BY <1>2, CutSteps
  <2>2. Handled(<<a>>) = Cut(<<a>>).lines /\ Handled(<<a, b>>) = Cut(<<a, b>>).lines
    BY DEF Handled
  <2>3. QED BY <2>1, <2>2
<1>9. QED BY <1>7, <1>8, Zenon

-----------------------------------------------------------------------------
(* The invariant                                                           *)

Stream == buffer \o wire

StreamTyped ==
  /\ Len(sent) \in Nat /\ sent \in Seq([msg : Messages, bytes : 1..3])
  /\ closed \in BOOLEAN /\ ended \in BOOLEAN /\ exited \in BOOLEAN
  /\ wire \in Seq(Byte) /\ buffer \in Seq(Byte)
  /\ running \in Messages \cup {NoMessage}

\* The lines that wait and those on their way are lines of messages.
WholeInv == chain \in Seq(Whole) /\ Handled(Stream) \in Seq(Whole)

\* No line waits in the buffer; a client that may still write has ended its
\* last line; and after "end" there is nothing on the wire.
CutInv ==
  /\ Cut(buffer) = [lines |-> <<>>, rest |-> buffer]
  /\ ~closed => Rest(Stream) = <<>>
  /\ ended => closed /\ wire = <<>>

StreamInv == StreamTyped /\ WholeInv /\ CutInv

\* What is outstanding, line by line.
LEMMA OutstandingIs ==
  Outstanding = (IF running = NoMessage THEN <<>> ELSE <<running>>)
                  \o Parsed(chain \o Handled(Stream))
BY DEF Outstanding, Parsed, Stream

LEMMA StreamType ==
  ASSUME StreamTyped
  PROVE  Stream \in Seq(Byte) /\ Cut(Stream) \in Lines
<1>1. Stream \in Seq(Byte)
  BY DEF StreamTyped, Stream
<1>2. QED BY <1>1, CutType

\* The client writes: nothing comes to be outstanding but a whole message.
LEMMA WriteAdds ==
  ASSUME StreamInv, NEW kind \in Kinds, NEW cut \in 1..3, ClientWrite(kind, cut)
  PROVE  /\ StreamInv'
         /\ \/ Handled(Stream') = Handled(Stream)
            \/ \E m \in Messages : /\ m.kind # "blank"
                                   /\ Handled(Stream') = Append(Handled(Stream), Halves(m))
<1> DEFINE m == [no |-> Len(sent) + 1, kind |-> kind]
<1> DEFINE w == SubSeq(Bytes(m), 1, cut)
<1>1. /\ ~closed /\ cut \in 1..Len(Bytes(m)) /\ wire' = wire \o w
      /\ sent' = Append(sent, [msg |-> m, bytes |-> cut])
      /\ closed' = (cut < Len(Bytes(m)))
      /\ buffer' = buffer /\ chain' = chain /\ running' = running /\ ended' = ended /\ exited' = exited
  BY DEF ClientWrite
<1>2. m \in Messages
  BY StdioAssumption DEF StreamInv, StreamTyped, Messages, ClientWrite
<1>3. Rest(Stream) = <<>> /\ ~ended /\ Stream \in Seq(Byte) /\ Handled(Stream) \in Seq(Whole)
      /\ wire \in Seq(Byte) /\ buffer \in Seq(Byte) /\ Cut(Stream) \in Lines
  BY <1>1, StreamType DEF StreamInv, StreamTyped, CutInv, WholeInv
<1>4. Bytes(m) \in Seq(Byte) /\ Len(Bytes(m)) \in Nat
  BY <1>2, CutBytes
<1> HIDE DEF m
<1>5. w \in Seq(Byte)
  BY <1>1, <1>4
<1>6. Stream' = Stream \o w
  BY <1>1, <1>3, <1>5 DEF Stream
<1>7. Handled(Stream \o w) = Handled(Stream) \o Handled(w) /\ Rest(Stream \o w) = Rest(w)
  <2> HIDE DEF w
  <2>1. Rest(Stream) \o w = w
    BY <1>3, <1>5
  <2>2. /\ Handled(Stream \o w) = Handled(Stream) \o Handled(Rest(Stream) \o w)
        /\ Rest(Stream \o w) = Rest(Rest(Stream) \o w)
    BY <1>3, <1>5, CutConcat
  <2>3. QED BY <2>1, <2>2
<1>8. StreamTyped'
  <2>1. sent' \in Seq([msg : Messages, bytes : 1..3]) /\ Len(sent') \in Nat
    BY <1>1, <1>2 DEF StreamInv, StreamTyped
  <2>2. wire' \in Seq(Byte)
    BY <1>1, <1>3, <1>5
  <2>3. QED BY <1>1, <2>1, <2>2 DEF StreamInv, StreamTyped
<1>9. CASE cut < Len(Bytes(m))
  <2>1. Handled(w) = <<>>
    <3>1. cut \in 1..(Len(Bytes(m)) - 1)
      BY <1>4, <1>9
    <3>2. QED BY <1>2, <3>1, CutHalf
  <2>2. Handled(Stream') = Handled(Stream)
    BY <1>3, <1>6, <1>7, <2>1
  <2>3. WholeInv' /\ CutInv'
    BY <1>1, <1>3, <1>9, <2>2 DEF StreamInv, WholeInv, CutInv
  <2>4. QED BY <1>8, <2>2, <2>3 DEF StreamInv
<1>10. CASE ~ (cut < Len(Bytes(m)))
  <2>1. w = Bytes(m)
    BY <1>1, <1>4, <1>10
  <2>2. Handled(w) = (IF m.kind = "blank" THEN <<>> ELSE <<Halves(m)>>) /\ Rest(w) = <<>>
    <3> HIDE DEF w
    <3>1. Cut(w) = [lines |-> IF m.kind = "blank" THEN <<>> ELSE <<Halves(m)>>, rest |-> <<>>]
      BY <1>2, <2>1, CutBytes
    <3>2. QED BY <3>1 DEF Handled, Rest
  <2>3. Rest(Stream') = <<>>
    BY <1>6, <1>7, <2>2
  <2>4. CASE m.kind = "blank"
    <3>1. Handled(Stream') = Handled(Stream)
      BY <1>3, <1>6, <1>7, <2>2, <2>4
    <3>2. WholeInv' /\ CutInv'
      BY <1>1, <1>3, <2>3, <3>1 DEF StreamInv, WholeInv, CutInv
    <3>3. QED BY <1>8, <3>1, <3>2 DEF StreamInv
  <2>5. CASE m.kind # "blank"
    <3>1. Halves(m) \in Whole
      BY <1>2, <2>5, ParseWhole
    <3>2. Handled(Stream') = Handled(Stream) \o <<Halves(m)>>
      BY <1>6, <1>7, <2>2, <2>5
    <3>3. Handled(Stream) \o <<Halves(m)>> = Append(Handled(Stream), Halves(m))
      BY <1>3, <3>1
    <3>4. Handled(Stream') \in Seq(Whole)
      BY <1>3, <3>1, <3>2
    <3>5. WholeInv' /\ CutInv'
      BY <1>1, <1>3, <2>3, <3>4 DEF StreamInv, WholeInv, CutInv
    <3>6. QED BY <1>2, <1>8, <2>5, <3>2, <3>3, <3>5 DEF StreamInv
  <2>6. QED BY <2>4, <2>5
<1>11. QED BY <1>9, <1>10

LEMMA PartsOf ==
  ASSUME NEW S, NEW T, NEW s \in Seq(S), NEW t \in Seq(S), s \o t \in Seq(T)
  PROVE  s \in Seq(T) /\ t \in Seq(T)
<1>1. /\ Len(s) \in Nat /\ Len(t) \in Nat /\ Len(s \o t) = Len(s) + Len(t)
      /\ \A i \in 1..Len(s) : (s \o t)[i] = s[i]
      /\ \A i \in 1..Len(t) : (s \o t)[Len(s) + i] = t[i]
  OBVIOUS
<1>2. \A i \in 1..(Len(s) + Len(t)) : (s \o t)[i] \in T
  BY <1>1
<1>3. \A i \in 1..Len(s) : s[i] \in T
  BY <1>1, <1>2
<1>4. \A i \in 1..Len(t) : t[i] \in T
  <2>1. \A i \in 1..Len(t) : Len(s) + i \in 1..(Len(s) + Len(t))
    BY <1>1
  <2>2. QED BY <1>1, <1>2, <2>1
<1>5. s = [i \in 1..Len(s) |-> s[i]] /\ t = [i \in 1..Len(t) |-> t[i]]
  OBVIOUS
<1>6. QED BY <1>1, <1>3, <1>4, <1>5

\* A chunk moves lines from the wire to the chain, and changes none.
LEMMA DataKeeps ==
  ASSUME StreamInv, NEW n \in 1..Len(wire), Data(n)
  PROVE  StreamInv' /\ chain' \o Handled(Stream') = chain \o Handled(Stream)
<1> DEFINE text == buffer \o SubSeq(wire, 1, n)
<1>1. /\ wire' = SubSeq(wire, n + 1, Len(wire)) /\ buffer' = Rest(text)
      /\ chain' = chain \o Handled(text)
      /\ sent' = sent /\ closed' = closed /\ running' = running
      /\ ended' = ended /\ exited' = exited
  BY DEF Data, clientVars
<1>2. /\ wire \in Seq(Byte) /\ buffer \in Seq(Byte) /\ chain \in Seq(Whole)
      /\ Handled(Stream) \in Seq(Whole) /\ wire # <<>>
      /\ Cut(Stream) \in Lines /\ Stream \in Seq(Byte)
  BY StreamType DEF StreamInv, StreamTyped, WholeInv
<1>3. text \in Seq(Byte) /\ wire' \in Seq(Byte)
  BY <1>1, <1>2
<1>4. Stream = text \o wire'
  <2>1. SubSeq(wire, 1, n) \o SubSeq(wire, n + 1, Len(wire)) = wire
    <3> DEFINE u == SubSeq(wire, 1, n) \o SubSeq(wire, n + 1, Len(wire))
    <3>1. u \in Seq(Byte) /\ Len(u) = Len(wire) /\ \A i \in 1..Len(wire) : u[i] = wire[i]
      BY <1>2
    <3> HIDE DEF u
    <3>2. u = wire
      BY <1>2, <3>1
    <3>3. QED BY <3>2 DEF u
  <2>2. SubSeq(wire, 1, n) \in Seq(Byte) /\ SubSeq(wire, n + 1, Len(wire)) \in Seq(Byte)
    BY <1>2
  <2>3. ASSUME NEW x \in Seq(Byte), NEW y \in Seq(Byte), NEW z \in Seq(Byte)
        PROVE  x \o (y \o z) = (x \o y) \o z
    OBVIOUS
  <2>4. buffer \o (SubSeq(wire, 1, n) \o wire') = (buffer \o SubSeq(wire, 1, n)) \o wire'
    BY <1>1, <1>2, <2>2, <2>3
  <2>5. QED BY <1>1, <2>1, <2>4 DEF Stream
<1> HIDE DEF text
<1>5. Cut(text) \in Lines /\ buffer' \in Seq(Byte) /\ Handled(text) \in Seq(Seq(Byte))
  BY <1>1, <1>3, CutType DEF Lines, Rest, Handled
<1>6. Stream' = Rest(text) \o wire' /\ Stream' \in Seq(Byte)
  BY <1>1, <1>3, <1>5 DEF Stream
<1>7. Handled(Stream) = Handled(text) \o Handled(Stream') /\ Rest(Stream) = Rest(Stream')
  BY <1>3, <1>4, <1>6, CutConcat
<1>8. Handled(Stream') \in Seq(Seq(Byte))
  BY <1>6, CutType DEF Lines, Handled
<1>9. Handled(text) \in Seq(Whole) /\ Handled(Stream') \in Seq(Whole)
  BY <1>2, <1>5, <1>7, <1>8, PartsOf
<1>10. chain' \in Seq(Whole) /\ chain' \o Handled(Stream') = chain \o Handled(Stream)
  <2>1. ASSUME NEW x \in Seq(Whole), NEW y \in Seq(Whole), NEW z \in Seq(Whole)
        PROVE  (x \o y) \o z = x \o (y \o z) /\ x \o y \in Seq(Whole)
    OBVIOUS
  <2>2. QED BY <1>1, <1>2, <1>7, <1>9, <2>1
<1>11. Cut(buffer') = [lines |-> <<>>, rest |-> buffer']
  BY <1>1, <1>3, RestIsRest DEF Rest
<1>12. StreamTyped'
  BY <1>1, <1>3, <1>5 DEF StreamInv, StreamTyped
<1>13. ~ended
  BY <1>2 DEF StreamInv, CutInv
<1>14. CutInv'
  BY <1>1, <1>7, <1>11, <1>13 DEF StreamInv, CutInv
<1>15. QED BY <1>9, <1>10, <1>12, <1>14 DEF StreamInv, WholeInv

LEMMA StaysCut ==
  ASSUME StreamInv, sent' = sent, wire' = wire, buffer' = buffer,
         closed' \in BOOLEAN, closed => closed', ended' \in BOOLEAN, exited' \in BOOLEAN,
         ended' => closed' /\ wire = <<>>,
         chain' \in Seq(Whole), running' \in Messages \cup {NoMessage}
  PROVE  StreamInv' /\ Stream' = Stream
<1>1. Stream' = Stream
  BY DEF Stream
<1>2. StreamTyped' /\ WholeInv' /\ CutInv'
  BY <1>1 DEF StreamInv, StreamTyped, WholeInv, CutInv
<1>3. QED BY <1>1, <1>2 DEF StreamInv

THEOREM StreamInductive == StdioSpec => []StreamInv
<1>1. StdioInit => StreamInv
  <2> SUFFICES ASSUME StdioInit PROVE StreamInv
    OBVIOUS
  <2>1. Stream = <<>> /\ Cut(<<>>) = [lines |-> <<>>, rest |-> <<>>]
    BY CutEmpty DEF StdioInit, Stream, NoLines
  <2>2. Handled(Stream) = <<>> /\ Rest(Stream) = <<>>
    BY <2>1 DEF Handled, Rest
  <2>3. /\ <<>> \in Seq(Whole) /\ <<>> \in Seq(Byte) /\ Len(<<>>) = 0
        /\ <<>> \in Seq([msg : Messages, bytes : 1..3])
    OBVIOUS
  <2>4. QED BY <2>1, <2>2, <2>3 DEF StdioInit, StreamInv, StreamTyped, WholeInv, CutInv
<1>2. StreamInv /\ [StdioNext]_stdioVars => StreamInv'
  <2> SUFFICES ASSUME StreamInv, [StdioNext]_stdioVars PROVE StreamInv'
    OBVIOUS
  <2>0. chain \in Seq(Whole) /\ running \in Messages \cup {NoMessage} /\ closed \in BOOLEAN
        /\ ended \in BOOLEAN /\ exited \in BOOLEAN /\ (ended => closed /\ wire = <<>>)
    BY DEF StreamInv, StreamTyped, WholeInv, CutInv
  <2>1. CASE UNCHANGED stdioVars
    BY <2>0, <2>1, StaysCut DEF stdioVars
  <2>2. CASE ClientClose
    BY <2>0, <2>2, StaysCut DEF ClientClose
  <2>3. ASSUME NEW kind \in Kinds, NEW cut \in 1..3, ClientWrite(kind, cut) PROVE StreamInv'
    BY <2>3, WriteAdds
  <2>4. ASSUME NEW n \in 1..Len(wire), Data(n) PROVE StreamInv'
    BY <2>4, DataKeeps
  <2>5. CASE Dispatch
    <3>1. chain' \in Seq(Whole) /\ Head(chain) \in Whole
      BY <2>0, <2>5 DEF Dispatch
    <3>2. running' \in Messages \cup {NoMessage}
      BY <2>0, <2>5, <3>1, WholeParses DEF Dispatch
    <3>3. QED BY <2>0, <2>5, <3>1, <3>2, StaysCut DEF Dispatch, clientVars
  <2>6. CASE CallReturns
    BY <2>0, <2>6, StaysCut DEF CallReturns, clientVars
  <2>7. CASE End
    BY <2>0, <2>7, StaysCut DEF End, clientVars
  <2>8. CASE ExitProcess
    BY <2>0, <2>8, StaysCut DEF ExitProcess, clientVars
  <2>9. QED BY <2>1, <2>2, <2>3, <2>4, <2>5, <2>6, <2>7, <2>8 DEF StdioNext, Client, Server, Receiving
<1>3. QED BY <1>1, <1>2, PTL DEF StdioSpec

-----------------------------------------------------------------------------
(* The refinement                                                          *)

\* What the abstract server has in hand and what comes to it.
LEMMA Asks ==
  ASSUME StreamInv, chain' = chain, running' = running, out' = out, exited' = exited,
         \/ Handled(Stream') = Handled(Stream)
         \/ \E m \in Messages : /\ m.kind # "blank"
                                /\ Handled(Stream') = Append(Handled(Stream), Halves(m))
  PROVE  [Promise!Next]_(Promise!vars)
<1> DEFINE held == IF running = NoMessage THEN <<>> ELSE <<running>>
<1>1. Outstanding = held \o Parsed(chain \o Handled(Stream))
      /\ Outstanding' = held \o Parsed(chain \o Handled(Stream'))
  BY OutstandingIs DEF Outstanding, Parsed, Stream
<1>2. CASE Handled(Stream') = Handled(Stream)
  <2>1. Outstanding' = Outstanding
    BY <1>1, <1>2
  <2>2. QED BY <2>1 DEF Promise!vars
<1>3. ASSUME NEW m \in Messages, m.kind # "blank",
             Handled(Stream') = Append(Handled(Stream), Halves(m))
      PROVE  Promise!Ask
  <2> DEFINE l == chain \o Handled(Stream)
  <2>1. l \in Seq(Whole) /\ Halves(m) \in Whole
        /\ chain \o Append(Handled(Stream), Halves(m)) = Append(l, Halves(m))
    <3>1. chain \in Seq(Whole) /\ Handled(Stream) \in Seq(Whole) /\ Halves(m) \in Whole
      BY <1>3, ParseWhole DEF StreamInv, WholeInv
    <3>2. QED BY <3>1
  <2> HIDE DEF l
  <2>2. Parsed(l) \in Seq(Messages) /\ Parsed(Append(l, Halves(m))) = Append(Parsed(l), m)
    BY <1>3, <2>1, ParsedType, ParsedAppend
  <2>3. held \in Seq(Messages)
    BY DEF StreamInv, StreamTyped
  <2>4. Append(held \o Parsed(l), m) = held \o Append(Parsed(l), m)
    <3> HIDE DEF held
    <3>1. ASSUME NEW x \in Seq(Messages), NEW y \in Seq(Messages)
          PROVE  Append(x \o y, m) = x \o Append(y, m)
      OBVIOUS
    <3>2. QED BY <2>2, <2>3, <3>1
  <2>5. Outstanding' = Append(Outstanding, m)
    BY <1>1, <1>3, <2>1, <2>2, <2>4 DEF l
  <2>6. QED BY <2>5 DEF Promise!Ask
<1>4. QED BY <1>2, <1>3 DEF Promise!Next

LEMMA Waits ==
  ASSUME StreamInv, Stream' = Stream, chain' = chain, running' = running, out' = out, exited' = exited
  PROVE  [Promise!Next]_(Promise!vars)
BY Asks

\* A call that returns is answered, and it was the first outstanding.
LEMMA ReturnAnswers ==
  ASSUME StreamInv, CallReturns
  PROVE  Promise!Answer
<1>1. /\ ~exited /\ running # NoMessage /\ running' = NoMessage /\ exited' = exited
      /\ out' = out \o ReplyTo(running) /\ chain' = chain /\ Stream' = Stream
  BY DEF CallReturns, clientVars, Stream
<1> DEFINE p == Parsed(chain \o Handled(Stream))
<1>2. Outstanding = <<running>> \o p /\ Outstanding' = <<>> \o p
  BY <1>1, OutstandingIs DEF Outstanding, Parsed, Stream
<1>3. running \in Messages /\ p \in Seq(Messages)
  <2>1. chain \in Seq(Whole) /\ Handled(Stream) \in Seq(Whole)
    BY DEF StreamInv, WholeInv
  <2>2. chain \o Handled(Stream) \in Seq(Whole)
    BY <2>1
  <2>3. QED BY <1>1, <2>2, ParsedType DEF StreamInv, StreamTyped
<1> HIDE DEF p
<1>4. <<running>> \o p # <<>> /\ Head(<<running>> \o p) = running
      /\ Tail(<<running>> \o p) = p /\ <<>> \o p = p
  BY <1>3
<1>5. QED BY <1>1, <1>2, <1>4 DEF Promise!Answer

\* The next line is the first outstanding message: a tools/call is taken in
\* hand, anything else answered.
LEMMA DispatchAnswers ==
  ASSUME StreamInv, Dispatch
  PROVE  [Promise!Next]_(Promise!vars)
<1> DEFINE m == Parse(Head(chain))
<1> DEFINE l == chain \o Handled(Stream)
<1>1. /\ ~exited /\ running = NoMessage /\ chain # <<>> /\ chain' = Tail(chain)
      /\ exited' = exited /\ Stream' = Stream
      /\ IF m.kind = "tool" THEN running' = m /\ out' = out
         ELSE out' = out \o ReplyTo(m) /\ running' = running
  BY DEF Dispatch, clientVars, Stream
<1>2. chain \in Seq(Whole) /\ Handled(Stream) \in Seq(Whole)
  BY DEF StreamInv, WholeInv
<1>3. /\ l \in Seq(Whole) /\ l # <<>> /\ Head(l) = Head(chain)
      /\ Tail(chain) \o Handled(Stream) = Tail(l)
  BY <1>1, <1>2
<1>4. Head(chain) \in Whole /\ m \in Messages /\ m # NoMessage
  BY <1>1, <1>2, WholeParses, StdioAssumption
<1> HIDE DEF l
<1>5. /\ Parsed(l) \in Seq(Messages) /\ Parsed(l) # <<>> /\ Head(Parsed(l)) = m
      /\ Tail(Parsed(l)) = Parsed(Tail(l)) /\ <<m>> \o Parsed(Tail(l)) = Parsed(l)
      /\ Parsed(Tail(l)) \in Seq(Messages)
  BY <1>3, ParsedTail, ParsedType
<1> HIDE DEF m
<1>6. Outstanding = <<>> \o Parsed(l)
      /\ Outstanding' = (IF running' = NoMessage THEN <<>> ELSE <<running'>>) \o Parsed(Tail(l))
  <2>1. Outstanding' = (IF running' = NoMessage THEN <<>> ELSE <<running'>>)
                         \o Parsed(chain' \o Handled(Stream'))
    BY DEF Outstanding, Parsed, Stream
  <2>2. chain' \o Handled(Stream') = Tail(l)
    BY <1>1, <1>3
  <2>3. QED BY <1>1, <2>1, <2>2, OutstandingIs DEF l
<1>7. <<>> \o Parsed(l) = Parsed(l) /\ <<>> \o Parsed(Tail(l)) = Parsed(Tail(l))
  BY <1>5
<1>8. CASE m.kind = "tool"
  <2>1. Outstanding' = Outstanding
    BY <1>1, <1>4, <1>5, <1>6, <1>7, <1>8
  <2>2. QED BY <1>1, <1>8, <2>1 DEF Promise!vars
<1>9. CASE m.kind # "tool"
  <2>1. Outstanding = Parsed(l) /\ Outstanding' = Parsed(Tail(l))
    BY <1>1, <1>6, <1>7, <1>9
  <2>2. Promise!Answer
    BY <1>1, <1>5, <1>9, <2>1 DEF Promise!Answer
  <2>3. QED BY <2>2 DEF Promise!Next
<1>10. QED BY <1>8, <1>9

\* The process exits when nothing is outstanding: "end" has come, so the wire
\* is empty, and the buffer holds no line.
LEMMA ExitLeaves ==
  ASSUME StreamInv, ExitProcess
  PROVE  Promise!Leave
<1>1. /\ ~exited /\ running = NoMessage /\ chain = <<>> /\ exited' = TRUE /\ ended
      /\ out' = out /\ chain' = chain /\ running' = running /\ Stream' = Stream
  BY DEF ExitProcess, clientVars, Stream
<1>2. Handled(Stream) = <<>>
  <2>1. wire = <<>> /\ buffer \in Seq(Byte) /\ Cut(buffer) = [lines |-> <<>>, rest |-> buffer]
    BY <1>1 DEF StreamInv, CutInv, StreamTyped
  <2>2. Stream = buffer
    BY <2>1 DEF Stream
  <2>3. QED BY <2>1, <2>2 DEF Handled
<1>3. Parsed(<<>>) = <<>>
  <2>1. <<>> \in Seq(Whole) /\ Len(<<>>) = 0
    OBVIOUS
  <2>2. Parsed(<<>>) \in Seq(Messages) /\ Len(Parsed(<<>>)) = 0
    BY <2>1, ParsedType
  <2>3. QED BY <2>2
<1>4. Outstanding = <<>> /\ Outstanding' = <<>>
  <2>1. Outstanding = <<>> \o Parsed(<<>> \o <<>>) /\ Outstanding' = <<>> \o Parsed(<<>> \o <<>>)
    BY <1>1, <1>2, OutstandingIs DEF Outstanding, Parsed, Stream
  <2>2. <<>> \o <<>> = <<>>
    OBVIOUS
  <2>3. QED BY <1>3, <2>1, <2>2
<1>5. QED BY <1>1, <1>4 DEF Promise!Leave

(* The stdin loop, its promise chain and the exit implement a server that    *)
(* handles every message sent whole once and in order, and leaves only when  *)
(* it owes nothing, for any number of messages, any chunks and any order of  *)
(* events.                                                                  *)
THEOREM ImplementsInOrderServer == StdioSpec => KeepsItsPromise
<1>1. StdioInit => Promise!Init
  <2> SUFFICES ASSUME StdioInit PROVE Promise!Init
    OBVIOUS
  <2>1. Cut(<<>>) = [lines |-> <<>>, rest |-> <<>>]
    BY CutEmpty DEF NoLines
  <2>2. Outstanding = <<>>
    <3>1. buffer \o wire = <<>>
      BY DEF StdioInit
    <3>2. Handled(buffer \o wire) = <<>>
      BY <2>1, <3>1 DEF Handled
    <3>3. chain \o Handled(buffer \o wire) = <<>> /\ DOMAIN <<>> = {}
      BY <3>2 DEF StdioInit
    <3>4. QED BY <3>3 DEF StdioInit, Outstanding
  <2>3. QED BY <2>2 DEF StdioInit, Promise!Init
<1>2. StreamInv /\ [StdioNext]_stdioVars => [Promise!Next]_(Promise!vars)
  <2> SUFFICES ASSUME StreamInv, [StdioNext]_stdioVars PROVE [Promise!Next]_(Promise!vars)
    OBVIOUS
  <2>1. CASE UNCHANGED stdioVars
    BY <2>1, Waits DEF stdioVars, Stream
  <2>2. CASE ClientClose
    BY <2>2, Waits DEF ClientClose, Stream
  <2>3. ASSUME NEW kind \in Kinds, NEW cut \in 1..3, ClientWrite(kind, cut)
        PROVE  [Promise!Next]_(Promise!vars)
    <3>1. chain' = chain /\ running' = running /\ out' = out /\ exited' = exited
      BY <2>3 DEF ClientWrite
    <3>2. QED BY <2>3, <3>1, WriteAdds, Asks
  <2>4. ASSUME NEW n \in 1..Len(wire), Data(n) PROVE [Promise!Next]_(Promise!vars)
    <3>1. running' = running /\ out' = out /\ exited' = exited
      BY <2>4 DEF Data
    <3>2. chain' \o Handled(Stream') = chain \o Handled(Stream)
      BY <2>4, DataKeeps
    <3>3. Outstanding' = Outstanding
      BY <3>1, <3>2 DEF Outstanding, Stream
    <3>4. QED BY <3>1, <3>3 DEF Promise!vars
  <2>5. CASE Dispatch
    BY <2>5, DispatchAnswers
  <2>6. CASE CallReturns
    BY <2>6, ReturnAnswers DEF Promise!Next
  <2>7. CASE End
    BY <2>7, Waits DEF End, clientVars, Stream
  <2>8. CASE ExitProcess
    BY <2>8, ExitLeaves DEF Promise!Next
  <2>9. QED BY <2>1, <2>2, <2>3, <2>4, <2>5, <2>6, <2>7, <2>8 DEF StdioNext, Client, Server, Receiving
<1>3. QED BY <1>1, <1>2, StreamInductive, PTL DEF StdioSpec, KeepsItsPromise, Promise!Spec
=============================================================================

-------------------------- MODULE BenchRunner_proofs --------------------------
(***************************************************************************)
(* Proofs about `kawn benchmark`, for any campaign, number of repeats,     *)
(* files, edits and failures: a session starts from what was staged, the   *)
(* boundary of a run is judged on its own agent's edits, and little is     *)
(* left behind.                                                            *)
(*                                                                         *)
(* What the three rest on is who may write where.  A session that edits    *)
(* has a workspace of its own, whose number is above those of all before   *)
(* it; helpers it leaves write there and nowhere else; so nobody but its   *)
(* own agent writes in its workspace until the boundary is graded.  The    *)
(* copies of number 0, which the sessions to read share, stay the source   *)
(* until an agent that reads, or a helper it left, writes in one.          *)
(*                                                                         *)
(* And about a scan, the other long run of many parts of which each may    *)
(* fail, for any plugins, repositories and number of failures.  A file's   *)
(* owner is the first of the sorted plugins that claims it, and what has   *)
(* been gathered is what the owners of the files scanned so far give: the  *)
(* package plugin goes before the code plugin, so a code file is scanned   *)
(* with the packages that are known at the end; so an import of a package  *)
(* and a call of another file's function are edges of the finished graph,  *)
(* and a file belongs to the innermost package alone.                      *)
(***************************************************************************)
EXTENDS BenchRunner, ScannerRegistry, Loops, TLAPS

Working == {"session", "grade", "tests", "record"}
Staged == Working \cup {"next", "cleanup"}
Stages == Staged \cup {"preflight", "prepare", "report", "done", "threw"}
Kept == AllFiles \ Excluded

Boundaries == [changed : SUBSET AllFiles, outside : SUBSET AllFiles, judged : BOOLEAN,
               graded : BOOLEAN]
Outcomes == [ok : BOOLEAN, boundary : Boundaries, touched : SUBSET AllFiles, missed : BOOLEAN]

\* A workspace is a condition and a number, and its files are functions.
TypeInv ==
  /\ pc \in Stages
  /\ trees = [w \in DOMAIN trees |-> trees[w]]
  /\ \A w \in DOMAIN trees : trees[w] = [f \in AllFiles |-> trees[w][f]]
  /\ DOMAIN trees \subseteq Conditions \X Nat
  /\ e2eCounter \in Nat /\ cwd \in Conditions \X Nat /\ strays \subseteq Conditions \X Nat
  /\ touched \subseteq Files /\ missed \in BOOLEAN
  /\ outcome \in Outcomes

\* Who may write where.
TreesInv ==
  /\ pc \in Staged =>
       /\ Conditions \X {0} \subseteq DOMAIN trees
       /\ e2eCounter >= 1
       /\ \A w \in DOMAIN trees : w[2] < e2eCounter
       /\ "shared" \notin spilled => \A c \in Conditions, f \in Kept : trees[<<c, 0>>][f] = SourceTree[f]
       /\ strays \subseteq DOMAIN trees
  /\ pc \notin Staged => DOMAIN trees = {} /\ strays = {} /\ helper = "none"
  /\ pc = "next" => helper = "none"

\* What the session's agent has changed of the files a snapshot may see.
TouchedIs(t) == \A f \in Kept : f \in touched <=> PlainFiles(t)[f] # PlainFiles(opened)[f]

\* The session that runs, is graded or is recorded.
SessionInv ==
  pc \in Working =>
    /\ cwd \in DOMAIN trees
    /\ task.mode # "retrieval" => cwd \notin strays /\ cwd[2] >= 1
    /\ pc \in {"grade", "tests"} => task.mode = "e2e"
    /\ DOMAIN preSnapshot = Kept
    /\ ~missed => \A f \in Kept : preSnapshot[f] = PlainFiles(opened)[f]
    /\ pc \in {"session", "grade"} /\ task.mode # "retrieval" => TouchedIs(trees[cwd])

OutcomeOK(o) == o.boundary.graded /\ ~o.missed => o.boundary.changed = o.touched

ResultInv == OutcomeOK(outcome)

\* Where the temp directory may hold something of the command.
LeftInv ==
  /\ pc = "session" => homes \subseteq stuckHomes \cup {session}
  /\ pc # "session" => homes \subseteq stuckHomes
  /\ roots \subseteq stuckRoots \cup {project}
  /\ pc \in {"preflight", "prepare", "report", "done"} => roots \subseteq stuckRoots
  /\ pc = "threw" => roots \subseteq stuckRoots \cup unstaged

IInv == TypeInv /\ TreesInv /\ SessionInv /\ ResultInv /\ LeftInv

-----------------------------------------------------------------------------
(* The workspaces.                                                         *)

LEMMA TaskStays ==
  ASSUME UNCHANGED <<opts, project, slot>>
  PROVE  task' = task /\ session' = session
  BY DEF task, PerTask, Pair, session

LEMMA SourceTreeOK == SourceTree = [f \in AllFiles |-> SourceTree[f]]
  BY DEF SourceTree

\* cpSync leaves out what is excluded; into a place where there is nothing it makes
\* a copy of the rest.
LEMMA CopyOK ==
  ASSUME NEW from, NEW to, NEW t, t = copyTree(from, to)
  PROVE  /\ t = [f \in AllFiles |-> t[f]]
         /\ (\A f \in AllFiles : to[f] = "absent") => \A f \in Kept : t[f] = from[f]
<1>1. t = [f \in AllFiles |-> IF f \in Excluded \/ from[f] = "absent" THEN to[f] ELSE from[f]]
  BY DEF copyTree
<1> QED BY <1>1 DEF Kept

LEMMA EmptyOK == \A f \in AllFiles : Empty[f] = "absent"
  BY DEF Empty

\* A write in one workspace is a write in no other.
LEMMA WriteOK ==
  ASSUME NEW T, NEW w, NEW t,
         NEW S, S = [x \in DOMAIN T \cup {w} |-> IF x = w THEN t ELSE T[x]]
  PROVE  /\ DOMAIN S = DOMAIN T \cup {w} /\ S = [x \in DOMAIN S |-> S[x]]
         /\ S[w] = t /\ \A x \in DOMAIN T : x # w => S[x] = T[x]
  OBVIOUS

LEMMA EditOK ==
  ASSUME NEW T, T = [x \in DOMAIN T |-> T[x]], NEW w, NEW t,
         NEW S, S = [T EXCEPT ![w] = t]
  PROVE  /\ DOMAIN S = DOMAIN T /\ S = [x \in DOMAIN S |-> S[x]]
         /\ w \in DOMAIN T => S[w] = t
         /\ \A x \in DOMAIN T : x # w => S[x] = T[x]
  OBVIOUS

-----------------------------------------------------------------------------
(* Before, between and after the sessions.                                 *)

\* A step outside of the sessions that writes no file.
LEMMA ElsewhereKeeps ==
  ASSUME IInv, UNCHANGED <<trees, strays, cwd, e2eCounter, touched, missed, spilled, outcome>>,
         pc' \in Stages, pc' \notin Working, pc' \in Staged <=> pc \in Staged,
         helper' = helper, pc' = "next" => helper = "none",
         LeftInv'
  PROVE  IInv'
<1>1. TypeInv'
  BY DEF IInv, TypeInv
<1>2. TreesInv'
  BY DEF IInv, TreesInv
<1>3. SessionInv' /\ ResultInv'
  BY DEF IInv, SessionInv, ResultInv
<1> QED BY <1>1, <1>2, <1>3 DEF IInv

\* What the finally of the Codex adapter leaves.
LEMMA HomesLeft ==
  ASSUME LeftInv, NEW fails \in BOOLEAN, RemoveHome(fails)
  PROVE  homes' \subseteq stuckHomes'
  BY DEF LeftInv, RemoveHome

LEMMA HarnessElsewhere ==
  ASSUME IInv,
         \/ Preflight \/ PrepareThrows \/ SkipAgent \/ StartThrows \/ LeavesMachine
         \/ ProjectEnds \/ Report \/ ReportThrows
  PROVE  IInv'
<1> USE DEF IInv, diskVars, worldVars, history, planVars, resultVars, faultVars, childVars
<1>1. CASE Preflight
  <2>1. pc = "preflight" /\ pc' \in {"prepare", "threw"}
    BY <1>1 DEF Preflight
  <2>2. LeftInv'
    BY <1>1, <2>1 DEF Preflight, LeftInv, session
  <2> QED BY <1>1, <2>1, <2>2, ElsewhereKeeps DEF Preflight, Stages, Staged, Working
<1>2. CASE PrepareThrows
  <2>1. pc = "prepare" /\ pc' = "threw"
    BY <1>2 DEF PrepareThrows, Throw
  <2>2. LeftInv'
    BY <1>2, <2>1 DEF PrepareThrows, LeftInv
  <2> QED BY <1>2, <2>1, <2>2, ElsewhereKeeps DEF PrepareThrows, Stages, Staged, Working
<1>3. CASE SkipAgent
  <2>1. pc = "next" /\ pc' = "next"
    BY <1>3 DEF SkipAgent
  <2>2. LeftInv'
    BY <1>3, <2>1 DEF SkipAgent, LeftInv, session
  <2> QED BY <1>3, <2>1, <2>2, ElsewhereKeeps DEF SkipAgent, Stages, Staged, Working, TreesInv
<1>4. CASE StartThrows
  <2>1. pc = "next" /\ pc' = "cleanup" /\ UNCHANGED <<roots, stuckRoots, project>>
    BY <1>4 DEF StartThrows, Throw
  <2>2. PICK fails \in BOOLEAN : RemoveHome(fails)
    BY <1>4 DEF StartThrows
  <2>3. LeftInv'
    BY <2>1, <2>2, HomesLeft DEF LeftInv
  <2> QED BY <1>4, <2>1, <2>3, ElsewhereKeeps DEF StartThrows, Stages, Staged, Working, TreesInv
<1>5. CASE LeavesMachine
  <2>1. pc = "next" /\ pc' = "next"
    BY <1>5 DEF LeavesMachine
  <2>2. LeftInv'
    BY <1>5, <2>1 DEF LeavesMachine, LeftInv, session
  <2> QED BY <1>5, <2>1, <2>2, ElsewhereKeeps
    DEF LeavesMachine, Stages, Staged, Working, TreesInv
<1>6. CASE ProjectEnds
  <2>1. pc = "next" /\ pc' = "cleanup"
    BY <1>6 DEF ProjectEnds
  <2>2. LeftInv'
    BY <1>6, <2>1 DEF ProjectEnds, LeftInv, session
  <2> QED BY <1>6, <2>1, <2>2, ElsewhereKeeps DEF ProjectEnds, Stages, Staged, Working
<1>7. CASE Report
  <2>1. pc = "report" /\ pc' = "done"
    BY <1>7 DEF Report
  <2>2. LeftInv'
    BY <1>7, <2>1 DEF Report, LeftInv, session
  <2> QED BY <1>7, <2>1, <2>2, ElsewhereKeeps DEF Report, Stages, Staged, Working
<1>8. CASE ReportThrows
  <2>1. pc = "report" /\ pc' = "threw"
    BY <1>8 DEF ReportThrows, Throw
  <2>2. LeftInv'
    BY <1>8, <2>1 DEF ReportThrows, LeftInv, session
  <2> QED BY <1>8, <2>1, <2>2, ElsewhereKeeps DEF ReportThrows, Stages, Staged, Working
<1> QED BY <1>1, <1>2, <1>3, <1>4, <1>5, <1>6, <1>7, <1>8

\* prepareProject makes two copies that differ from the source in nothing but .kawn.
LEMMA PrepareKeeps ==
  ASSUME IInv, Prepare
  PROVE  IInv'
<1> USE DEF IInv
<1>1. PICK base, withBase :
        /\ base = copyTree(SourceTree, Empty) /\ withBase = copyTree(base, Empty)
        /\ trees' = [w \in Conditions \X {0} |->
                       IF w[1] = "without" THEN base ELSE [withBase EXCEPT ![".kawn"] = "scan"]]
  BY DEF Prepare
<1>2. \A f \in Kept : base[f] = SourceTree[f] /\ withBase[f] = SourceTree[f]
  BY <1>1, CopyOK, EmptyOK
<1>3. base = [f \in AllFiles |-> base[f]] /\ withBase = [f \in AllFiles |-> withBase[f]]
  BY <1>1, CopyOK
<1>4. PICK scanned : scanned = [withBase EXCEPT ![".kawn"] = "scan"]
  OBVIOUS
<1>5. scanned = [f \in AllFiles |-> scanned[f]] /\ \A f \in Kept : scanned[f] = SourceTree[f]
  BY <1>2, <1>3, <1>4, BenchAssumption DEF Kept
<1>6. /\ pc = "prepare" /\ pc' = "next" /\ e2eCounter' = 1 /\ roots' = roots \cup {project}
      /\ UNCHANGED <<strays, cwd, touched, missed, outcome, helper, homes, project, unstaged,
                     stuckRoots, stuckHomes>>
  BY DEF Prepare, childVars
<1>7. DOMAIN trees' = Conditions \X {0} /\ trees' = [w \in DOMAIN trees' |-> trees'[w]]
      /\ \A w \in DOMAIN trees' : trees'[w] \in {base, scanned}
  BY <1>1, <1>4
<1>8. TypeInv'
  BY <1>3, <1>5, <1>6, <1>7 DEF TypeInv, Stages, Staged
<1>9. TreesInv'
  <2>1. \A c \in Conditions, f \in Kept : trees'[<<c, 0>>][f] = SourceTree[f]
    BY <1>2, <1>5, <1>7
  <2>2. \A w \in DOMAIN trees' : w[2] < e2eCounter'
    BY <1>6, <1>7
  <2>3. strays = {} /\ helper = "none"
    BY <1>6 DEF TreesInv, Staged, Working
  <2> QED BY <1>6, <1>7, <2>1, <2>2, <2>3 DEF TreesInv, Staged
<1>10. SessionInv' /\ ResultInv' /\ LeftInv'
  BY <1>6 DEF SessionInv, ResultInv, LeftInv, Working
<1> QED BY <1>8, <1>9, <1>10

\* The finally.
LEMMA CleanupKeeps ==
  ASSUME IInv, Cleanup
  PROVE  IInv'
<1> USE DEF IInv
<1>1. /\ pc = "cleanup" /\ trees' = <<>> /\ strays' = {} /\ helper' = "none"
      /\ pc' \in {"threw", "report", "prepare"}
      /\ \/ roots' = roots \ {project} /\ UNCHANGED stuckRoots
         \/ roots' = roots /\ stuckRoots' = stuckRoots \cup {project}
      /\ UNCHANGED <<e2eCounter, cwd, touched, missed, outcome, homes, stuckHomes, unstaged>>
  BY DEF Cleanup
<1>2. DOMAIN trees' = {} /\ trees' = [w \in DOMAIN trees' |-> trees'[w]]
  BY <1>1
<1>3. TypeInv'
  BY <1>1, <1>2 DEF TypeInv, Stages
<1>4. TreesInv' /\ SessionInv' /\ ResultInv'
  BY <1>1, <1>2 DEF TreesInv, SessionInv, ResultInv, Staged, Working
<1>5. LeftInv'
  BY <1>1 DEF LeftInv
<1> QED BY <1>3, <1>4, <1>5

-----------------------------------------------------------------------------
(* A session starts.                                                       *)

\* Its workspace holds the source: the copy that nobody writes, or a fresh copy.
LEMMA WorkspaceOK ==
  ASSUME IInv, pc = "next", NEW c \in Conditions, sessionWorkspace(c)
  PROVE  /\ trees' = [w \in DOMAIN trees' |-> trees'[w]]
         /\ \A w \in DOMAIN trees' : trees'[w] = [f \in AllFiles |-> trees'[w][f]]
         /\ DOMAIN trees' \subseteq Conditions \X Nat
         /\ e2eCounter' \in Nat /\ e2eCounter' >= e2eCounter
         /\ \A w \in DOMAIN trees' : w[2] < e2eCounter'
         /\ DOMAIN trees \subseteq DOMAIN trees'
         /\ \A w \in DOMAIN trees : trees'[w] = trees[w]
         /\ cwd' \in DOMAIN trees'
         /\ task.mode # "retrieval" => cwd' \notin strays /\ cwd'[2] >= 1
         /\ "shared" \notin spilled => \A f \in Kept : trees'[cwd'][f] = SourceTree[f]
<1> USE DEF IInv
<1>1. /\ trees = [w \in DOMAIN trees |-> trees[w]]
      /\ \A w \in DOMAIN trees : trees[w] = [f \in AllFiles |-> trees[w][f]]
      /\ DOMAIN trees \subseteq Conditions \X Nat /\ strays \subseteq Conditions \X Nat
      /\ e2eCounter \in Nat
  BY DEF TypeInv
<1>2. /\ <<c, 0>> \in DOMAIN trees /\ e2eCounter >= 1
      /\ \A w \in DOMAIN trees : w[2] < e2eCounter
      /\ "shared" \notin spilled => \A f \in Kept : trees[<<c, 0>>][f] = SourceTree[f]
      /\ strays \subseteq DOMAIN trees
  BY DEF TreesInv, Staged
<1>3. CASE task.mode = "retrieval"
  <2>1. cwd' = <<c, 0>> /\ UNCHANGED <<trees, e2eCounter>>
    BY <1>3 DEF sessionWorkspace
  <2> QED BY <1>1, <1>2, <1>3, <2>1
<1>4. CASE task.mode # "retrieval"
  <2>1. PICK w : w = <<c, e2eCounter>>
    OBVIOUS
  <2>2. w \notin DOMAIN trees /\ w \in Conditions \X Nat /\ w[2] = e2eCounter /\ w \notin strays
    BY <1>1, <1>2, <2>1
  <2>3. PICK t : t = copyTree(trees[<<c, 0>>], At(w))
    OBVIOUS
  <2>4. cwd' = w /\ e2eCounter' = e2eCounter + 1 /\ trees' = Write(w, t)
    BY <1>4, <2>1, <2>3 DEF sessionWorkspace
  <2>5. At(w) = Empty
    BY <2>2 DEF At
  <2>6. /\ t = [f \in AllFiles |-> t[f]]
        /\ "shared" \notin spilled => \A f \in Kept : t[f] = SourceTree[f]
    BY <1>2, <2>3, <2>5, CopyOK, EmptyOK
  <2>7. trees' = [x \in DOMAIN trees \cup {w} |-> IF x = w THEN t ELSE trees[x]]
    BY <2>4 DEF Write
  <2>8. DOMAIN trees' = DOMAIN trees \cup {w} /\ trees' = [x \in DOMAIN trees' |-> trees'[x]]
        /\ trees'[w] = t /\ \A x \in DOMAIN trees : x # w => trees'[x] = trees[x]
    BY <2>7
  <2>9. \A x \in DOMAIN trees : trees'[x] = trees[x]
    BY <2>2, <2>8
  <2>10. \A x \in DOMAIN trees' : trees'[x] = [f \in AllFiles |-> trees'[x][f]]
    BY <1>1, <2>6, <2>8, <2>9
  <2>11. \A x \in DOMAIN trees' : x[2] < e2eCounter'
    BY <1>1, <1>2, <2>2, <2>4, <2>8
  <2>12. /\ cwd' \in DOMAIN trees' /\ cwd' \notin strays /\ cwd'[2] >= 1
         /\ "shared" \notin spilled => \A f \in Kept : trees'[cwd'][f] = SourceTree[f]
    BY <1>2, <2>2, <2>4, <2>6, <2>8
  <2>13. DOMAIN trees' \subseteq Conditions \X Nat /\ e2eCounter' \in Nat
         /\ e2eCounter' >= e2eCounter /\ DOMAIN trees \subseteq DOMAIN trees'
    BY <1>1, <2>2, <2>4, <2>8
  <2> QED BY <2>8, <2>9, <2>10, <2>11, <2>12, <2>13
<1> QED BY <1>3, <1>4

LEMMA PlainFilesOK ==
  ASSUME NEW t, NEW f \in AllFiles
  PROVE  PlainFiles(t)[f] = IF t[f] = "link" THEN "absent" ELSE t[f]
  BY DEF PlainFiles

\* A snapshot that misses nothing has the plain files.
LEMMA SnapshotOK ==
  ASSUME NEW t, NEW seen \in Snapshots(t)
  PROVE  /\ DOMAIN seen.of = Kept /\ seen.missed \in BOOLEAN
         /\ ~seen.missed => \A f \in Kept : seen.of[f] = PlainFiles(t)[f]
<1>1. PICK unread : seen = [of |-> snapshotDir(t, unread), missed |-> unread # {}]
  BY DEF Snapshots
<1>2. PICK s : s = snapshotDir(t, unread)
  OBVIOUS
<1>3. DOMAIN s = Kept /\ \A f \in Kept : f \notin unread => s[f] = PlainFiles(t)[f]
  BY <1>2 DEF snapshotDir, Kept
<1>4. seen.of = s /\ seen.missed = (unread # {})
  BY <1>1, <1>2
<1> QED BY <1>3, <1>4

LEMMA UnjudgedOK == Unjudged \in Outcomes /\ ~Unjudged.boundary.graded /\ Unjudged.missed = FALSE
  BY DEF Unjudged, Ungraded, Outcomes, Boundaries

\* What a session opens with.
LEMMA OpenOK ==
  ASSUME IInv, pc = "next", UNCHANGED <<opts, project, slot>>, NEW c \in Conditions, OpenSession(c)
  PROVE  /\ DOMAIN preSnapshot' = Kept /\ missed' \in BOOLEAN /\ touched' = {}
         /\ ~missed' => \A f \in Kept : preSnapshot'[f] = PlainFiles(opened')[f]
         /\ TouchedIs(trees[cwd])'
<1>1. /\ opened' = trees'[cwd'] /\ touched' = {}
      /\ \E seen \in Snapshots(trees'[cwd']) : preSnapshot' = seen.of /\ missed' = seen.missed
  BY DEF OpenSession
<1>2. PICK t : t = trees'[cwd']
  OBVIOUS
<1>3. PICK seen \in Snapshots(t) : preSnapshot' = seen.of /\ missed' = seen.missed
  BY <1>1, <1>2
<1>4. DOMAIN preSnapshot' = Kept /\ missed' \in BOOLEAN
      /\ (~missed' => \A f \in Kept : preSnapshot'[f] = PlainFiles(t)[f])
  BY <1>3, SnapshotOK
<1>5. TouchedIs(trees[cwd])'
  BY <1>1 DEF TouchedIs, PlainFiles
<1> QED BY <1>1, <1>2, <1>4, <1>5 DEF PlainFiles

LEMMA StartKeeps ==
  ASSUME IInv, StartSession \/ StartUnlinked
  PROVE  IInv'
<1> USE DEF IInv
<1>1. PICK c \in Conditions :
        /\ sessionWorkspace(c) /\ OpenSession(c)
        /\ pc = "next" /\ helper' = "none"
        /\ UNCHANGED <<opts, project, slot, roots, strays, spilled, stuckRoots, unstaged>>
        /\ \/ /\ pc' = "session" /\ UNCHANGED <<outcome, stuckHomes>>
              /\ homes' \subseteq homes \cup {session}
           \/ /\ pc' = "record" /\ outcome' = Unjudged
              /\ \E fails \in BOOLEAN : RemoveHome(fails)
  <2>1. CASE StartSession
    BY <2>1 DEF StartSession, OpenSession, MayStart, Spawn
  <2>2. CASE StartUnlinked
    <3>1. helper = "none"
      BY <2>2 DEF StartUnlinked, OpenSession, MayStart, TreesInv
    <3> QED BY <2>2, <3>1 DEF StartUnlinked, OpenSession, MayStart, childVars
  <2> QED BY <2>1, <2>2
<1>2. /\ trees' = [w \in DOMAIN trees' |-> trees'[w]]
      /\ \A w \in DOMAIN trees' : trees'[w] = [f \in AllFiles |-> trees'[w][f]]
      /\ DOMAIN trees' \subseteq Conditions \X Nat
      /\ e2eCounter' \in Nat /\ e2eCounter' >= e2eCounter
      /\ \A w \in DOMAIN trees' : w[2] < e2eCounter'
      /\ DOMAIN trees \subseteq DOMAIN trees'
      /\ \A w \in DOMAIN trees : trees'[w] = trees[w]
      /\ cwd' \in DOMAIN trees'
      /\ task.mode # "retrieval" => cwd' \notin strays /\ cwd'[2] >= 1
  BY <1>1, WorkspaceOK
<1>3. /\ Conditions \X {0} \subseteq DOMAIN trees /\ e2eCounter >= 1 /\ e2eCounter \in Nat
      /\ "shared" \notin spilled =>
           \A d \in Conditions, f \in Kept : trees[<<d, 0>>][f] = SourceTree[f]
      /\ strays \subseteq DOMAIN trees
  BY <1>1 DEF TreesInv, Staged, TypeInv
<1>4. /\ DOMAIN preSnapshot' = Kept /\ missed' \in BOOLEAN /\ touched' = {}
      /\ ~missed' => \A f \in Kept : preSnapshot'[f] = PlainFiles(opened')[f]
      /\ TouchedIs(trees[cwd])'
  BY <1>1, OpenOK
<1>5. TypeInv'
  BY <1>1, <1>2, <1>4, UnjudgedOK DEF TypeInv, Stages, Staged, Working
<1>6. TreesInv'
  <2>1. "shared" \notin spilled =>
          \A d \in Conditions, f \in Kept : trees'[<<d, 0>>][f] = SourceTree[f]
    <3> SUFFICES ASSUME "shared" \notin spilled, NEW d \in Conditions, NEW f \in Kept
                 PROVE  trees'[<<d, 0>>][f] = SourceTree[f]
      OBVIOUS
    <3>1. <<d, 0>> \in DOMAIN trees
      BY <1>3
    <3>2. trees'[<<d, 0>>] = trees[<<d, 0>>]
      BY <1>2, <3>1
    <3>3. trees[<<d, 0>>][f] = SourceTree[f]
      BY <1>3
    <3> QED BY <3>2, <3>3
  <2>2. strays \subseteq DOMAIN trees'
    BY <1>2, <1>3
  <2> QED BY <1>1, <1>2, <1>3, <2>1, <2>2 DEF TreesInv, Staged, Working
<1>7. SessionInv'
  <2>1. task' = task
    BY <1>1, TaskStays
  <2> QED BY <1>1, <1>2, <1>4, <2>1 DEF SessionInv
<1>8. ResultInv'
  BY <1>1, UnjudgedOK DEF ResultInv, OutcomeOK
<1>9. LeftInv'
  <2>1. session' = session
    BY <1>1, TaskStays
  <2>2. homes \subseteq stuckHomes
    BY <1>1 DEF LeftInv
  <2>3. homes' \subseteq stuckHomes' \cup {session'} /\ (pc' # "session" => homes' \subseteq stuckHomes')
    BY <1>1, <2>1, <2>2, HomesLeft
  <2> QED BY <1>1, <2>3 DEF LeftInv
<1> QED BY <1>5, <1>6, <1>7, <1>8, <1>9

-----------------------------------------------------------------------------
(* Writes.                                                                 *)

\* A write in a workspace leaves the two shared copies alone, or is known to be in one.
LEMMA WriteKeeps ==
  ASSUME IInv, NEW w \in DOMAIN trees, pc \in Staged,
         NEW t, t = [f \in AllFiles |-> t[f]], trees' = [trees EXCEPT ![w] = t],
         w[2] >= 1 \/ t = trees[w] \/ "shared" \in spilled', spilled \subseteq spilled',
         pc' \in Staged, helper' = helper, pc' = "next" => helper = "none",
         UNCHANGED <<e2eCounter, cwd, strays, missed, outcome>>, touched' \subseteq Files
  PROVE  /\ TypeInv' /\ TreesInv' /\ DOMAIN trees' = DOMAIN trees /\ trees'[w] = t
         /\ \A x \in DOMAIN trees : x # w => trees'[x] = trees[x]
<1> USE DEF IInv
<1>1. trees = [x \in DOMAIN trees |-> trees[x]]
      /\ \A x \in DOMAIN trees : trees[x] = [f \in AllFiles |-> trees[x][f]]
  BY DEF TypeInv
<1>2. DOMAIN trees' = DOMAIN trees /\ trees' = [x \in DOMAIN trees' |-> trees'[x]]
      /\ trees'[w] = t
      /\ \A x \in DOMAIN trees : x # w => trees'[x] = trees[x]
  BY <1>1
<1>3. \A x \in DOMAIN trees' : trees'[x] = [f \in AllFiles |-> trees'[x][f]]
  BY <1>1, <1>2
<1>4. TypeInv'
  BY <1>2, <1>3 DEF TypeInv, Stages
<1>5. ASSUME "shared" \notin spilled', NEW c \in Conditions, NEW f \in Kept
      PROVE  trees'[<<c, 0>>][f] = SourceTree[f]
  <2>1. <<c, 0>> \in DOMAIN trees /\ trees[<<c, 0>>][f] = SourceTree[f]
    BY <1>5 DEF TreesInv
  <2>2. CASE <<c, 0>> = w
    BY <1>2, <1>5, <2>1, <2>2
  <2> QED BY <1>2, <2>1, <2>2
<1>6. TreesInv'
  BY <1>2, <1>5 DEF TreesInv
<1> QED BY <1>2, <1>4, <1>6

\* What an edit makes of a file.
LEMMA EditWrites ==
  ASSUME IInv, NEW w \in DOMAIN trees, NEW f \in Files, Edit(w, f)
  PROVE  \E t : /\ t = [g \in AllFiles |-> t[g]] /\ trees' = [trees EXCEPT ![w] = t]
                /\ \A g \in AllFiles : g # f => t[g] = trees[w][g]
                /\ w[2] >= 1 \/ t = trees[w] \/ "shared" \in spilled'
                /\ spilled \subseteq spilled'
<1>1. trees[w] = [g \in AllFiles |-> trees[w][g]] /\ f \in AllFiles
      /\ trees = [x \in DOMAIN trees |-> trees[x]] /\ w[2] \in Nat
  BY DEF IInv, TypeInv, AllFiles
<1>2. CASE trees' = trees /\ spilled' = spilled \cup {"link"}
  <2>1. PICK t : t = trees[w]
    OBVIOUS
  <2>2. trees' = [trees EXCEPT ![w] = t]
    BY <1>1, <1>2, <2>1
  <2> QED BY <1>1, <1>2, <2>1, <2>2
<1>3. CASE \E now : /\ trees' = [trees EXCEPT ![w][f] = now]
                    /\ spilled' = spilled \cup (IF w[2] = 0 THEN {"shared"} ELSE {})
  <2>1. PICK now : trees' = [trees EXCEPT ![w][f] = now]
    BY <1>3
  <2>2. PICK t : t = [trees[w] EXCEPT ![f] = now]
    OBVIOUS
  <2>3. t = [g \in AllFiles |-> t[g]] /\ \A g \in AllFiles : g # f => t[g] = trees[w][g]
    BY <1>1, <2>2
  <2>4. trees' = [trees EXCEPT ![w] = t]
    BY <2>1, <2>2
  <2>5. w[2] >= 1 \/ "shared" \in spilled'
    BY <1>1, <1>3
  <2> QED BY <1>3, <2>3, <2>4, <2>5
<1> QED BY <1>2, <1>3 DEF Edit

LEMMA AgentEditsKeeps ==
  ASSUME IInv, AgentEdits
  PROVE  IInv'
<1> USE DEF IInv
<1>1. PICK f \in Files :
        /\ Edit(cwd, f)
        /\ touched' = IF PlainFiles(trees'[cwd])[f] = PlainFiles(opened)[f] THEN touched \ {f}
                      ELSE touched \cup {f}
  BY DEF AgentEdits
<1>2. /\ pc \in Working
      /\ UNCHANGED <<pc, opts, project, slot, helper, roots, e2eCounter, cwd, preSnapshot,
                     strays, homes, outcome, opened, missed, unstaged, stuckRoots, stuckHomes>>
  BY DEF AgentEdits, Working, childVars, harnessVars, planVars, resultVars, faultVars
<1>3. cwd \in DOMAIN trees /\ touched \subseteq Files /\ pc # "next"
  BY <1>2 DEF SessionInv, TypeInv, Working
<1>4. PICK t : /\ t = [g \in AllFiles |-> t[g]] /\ trees' = [trees EXCEPT ![cwd] = t]
               /\ \A g \in AllFiles : g # f => t[g] = trees[cwd][g]
               /\ cwd[2] >= 1 \/ t = trees[cwd] \/ "shared" \in spilled'
               /\ spilled \subseteq spilled'
  BY <1>1, <1>3, EditWrites
<1>5. touched' \subseteq Files /\ \A g \in Files : g # f => (g \in touched' <=> g \in touched)
  BY <1>1, <1>3
<1>6. TypeInv' /\ TreesInv' /\ DOMAIN trees' = DOMAIN trees /\ trees'[cwd] = t
  BY <1>2, <1>3, <1>4, <1>5, WriteKeeps DEF Staged
<1>7. ASSUME TouchedIs(trees[cwd]) PROVE TouchedIs(trees[cwd])'
  <2>1. ASSUME NEW g \in Kept
        PROVE  g \in touched' <=> PlainFiles(t)[g] # PlainFiles(opened)[g]
    <3>1. g \in AllFiles /\ (g \in touched <=> PlainFiles(trees[cwd])[g] # PlainFiles(opened)[g])
      BY <1>7, <2>1 DEF TouchedIs, Kept
    <3>2. CASE g = f
      BY <1>1, <1>2, <1>6, <3>2
    <3>3. CASE g # f
      <4>1. PlainFiles(t)[g] = PlainFiles(trees[cwd])[g]
        BY <1>4, <3>1, <3>3, PlainFilesOK
      <4> QED BY <1>1, <3>1, <3>3, <4>1
    <3> QED BY <3>2, <3>3
  <2>2. trees'[cwd'] = t /\ opened' = opened
    BY <1>2, <1>6
  <2> QED BY <2>1, <2>2 DEF TouchedIs, PlainFiles
<1>8. SessionInv'
  <2>1. task' = task
    BY <1>2, TaskStays
  <2> QED BY <1>2, <1>6, <1>7, <2>1 DEF SessionInv, PlainFiles
<1>9. ResultInv' /\ LeftInv'
  BY <1>2, TaskStays DEF ResultInv, LeftInv
<1> QED BY <1>6, <1>8, <1>9

\* A helper of an earlier session writes where that session ran.
LEMMA StrayEditsKeeps ==
  ASSUME IInv, StrayEdits
  PROVE  IInv'
<1> USE DEF IInv
<1>1. PICK w \in strays, f \in Files : Edit(w, f)
  BY DEF StrayEdits
<1>2. UNCHANGED <<pc, opts, project, slot, helper, roots, e2eCounter, cwd, preSnapshot, strays,
                  homes, outcome, touched, opened, missed, unstaged, stuckRoots, stuckHomes>>
  BY DEF StrayEdits, childVars, harnessVars, planVars, resultVars, faultVars
<1>3. pc \in Staged /\ w \in DOMAIN trees /\ touched \subseteq Files
  BY <1>1 DEF TreesInv, TypeInv
<1>4. PICK t : /\ t = [g \in AllFiles |-> t[g]] /\ trees' = [trees EXCEPT ![w] = t]
               /\ w[2] >= 1 \/ t = trees[w] \/ "shared" \in spilled'
               /\ spilled \subseteq spilled'
  BY <1>1, <1>3, EditWrites
<1>5. /\ TypeInv' /\ TreesInv' /\ DOMAIN trees' = DOMAIN trees
      /\ \A x \in DOMAIN trees : x # w => trees'[x] = trees[x]
  BY <1>2, <1>3, <1>4, WriteKeeps DEF TreesInv
<1>6. pc \in Working /\ task.mode # "retrieval" => trees'[cwd] = trees[cwd]
  BY <1>1, <1>5 DEF SessionInv
<1>7. SessionInv'
  <2>1. task' = task
    BY <1>2, TaskStays
  <2>2. pc \in {"session", "grade"} /\ task.mode # "retrieval" => TouchedIs(trees[cwd])'
    BY <1>2, <1>6 DEF SessionInv, TouchedIs, PlainFiles, Working
  <2> QED BY <1>2, <1>5, <2>1, <2>2 DEF SessionInv, PlainFiles
<1>8. ResultInv' /\ LeftInv'
  BY <1>2, TaskStays DEF ResultInv, LeftInv
<1> QED BY <1>5, <1>7, <1>8

\* The test command writes where the session ran.
LEMMA RunTestsKeeps ==
  ASSUME IInv, RunTests
  PROVE  IInv'
<1> USE DEF IInv
<1> DEFINE Through(made) == {f \in made : trees[cwd][f] = "link"}
           Writes(skip, made) ==
             /\ trees' = [trees EXCEPT ![cwd] =
                            [f \in AllFiles |-> IF f \in made \ skip THEN "tests" ELSE @[f]]]
             /\ spilled' = spilled \cup (IF skip = {} THEN {} ELSE {"link"})
<1>0. \E made \in SUBSET TestOutput : Writes(Through(made), made)
  BY Zenon DEF RunTests
<1> HIDE DEF Through
<1>1. PICK made, through : Writes(through, made)
  BY <1>0
<1>2. /\ pc = "tests" /\ pc' = "record"
      /\ UNCHANGED <<opts, project, slot, helper, roots, e2eCounter, cwd, preSnapshot, strays,
                     homes, outcome, touched, opened, missed, unstaged, stuckRoots, stuckHomes>>
  BY DEF RunTests, childVars, planVars, resultVars, faultVars
<1>3. PICK t : t = [f \in AllFiles |-> IF f \in made \ through THEN "tests" ELSE trees[cwd][f]]
  OBVIOUS
<1>4. t = [f \in AllFiles |-> t[f]]
  BY <1>3
<1>5. trees' = [trees EXCEPT ![cwd] = t]
  BY <1>1, <1>3
<1>6. cwd \in DOMAIN trees /\ cwd[2] >= 1 /\ touched \subseteq Files
  BY <1>2 DEF SessionInv, Working, TypeInv
<1>7. TypeInv' /\ TreesInv' /\ DOMAIN trees' = DOMAIN trees
  BY <1>1, <1>2, <1>4, <1>5, <1>6, WriteKeeps DEF Staged, Working
<1>8. SessionInv'
  <2>1. task' = task
    BY <1>2, TaskStays
  <2> QED BY <1>2, <1>7, <2>1 DEF SessionInv, Working, PlainFiles
<1>9. ResultInv' /\ LeftInv'
  BY <1>2, TaskStays DEF ResultInv, LeftInv
<1> QED BY <1>7, <1>8, <1>9

-----------------------------------------------------------------------------
(* The session, its grades and its record.                                 *)

\* A step of the session's processes.
LEMMA ProcessesKeep ==
  ASSUME IInv,
         \/ AgentPrints \/ AgentSpawnFails \/ AgentExits \/ AgentTimesOut
         \/ AgentStartsHelper \/ SessionHelperEnds
  PROVE  IInv'
<1> USE DEF IInv
<1>1. pc = "session" /\ UNCHANGED <<harnessVars, diskVars, worldVars, outcome>>
  BY DEF AgentPrints, AgentSpawnFails, AgentExits, AgentTimesOut, AgentStartsHelper,
    SessionHelperEnds, InSession
<1>2. UNCHANGED <<pc, opts, project, slot, trees, roots, e2eCounter, cwd, preSnapshot, strays, homes,
                  outcome, opened, touched, missed, spilled, unstaged, stuckRoots, stuckHomes>>
  BY <1>1 DEF harnessVars, planVars, resultVars, faultVars, diskVars, worldVars, history
<1>3. task' = task /\ session' = session
  BY <1>2, TaskStays
<1>4. TypeInv' /\ TreesInv'
  BY <1>1, <1>2 DEF TypeInv, TreesInv, Staged, Working
<1>5. SessionInv'
  BY <1>1, <1>2, <1>3 DEF SessionInv, Working, TouchedIs, PlainFiles
<1>6. ResultInv' /\ LeftInv'
  BY <1>2, <1>3 DEF ResultInv, LeftInv
<1> QED BY <1>4, <1>5, <1>6

LEMMA SessionEndsKeeps ==
  ASSUME IInv, SessionEnds
  PROVE  IInv'
<1> USE DEF IInv
<1>1. /\ pc = "session"
      /\ \E fails \in BOOLEAN : RemoveHome(fails)
      /\ outcome' = [Unjudged EXCEPT !.ok = (Verdict(agent) = "ok")]
      /\ \/ pc' = "grade" /\ task.mode = "e2e"
         \/ pc' = "record"
      /\ UNCHANGED <<opts, project, slot, helper, trees, roots, e2eCounter, cwd, preSnapshot,
                     strays, opened, touched, missed, spilled, unstaged, stuckRoots>>
  BY DEF SessionEnds, Finish, planVars, resultVars, diskVars
<1>2. outcome' \in Outcomes /\ ~outcome'.boundary.graded
  BY <1>1, UnjudgedOK DEF Outcomes
<1>3. task' = task
  BY <1>1, TaskStays
<1>4. TypeInv' /\ TreesInv'
  BY <1>1, <1>2 DEF TypeInv, TreesInv, Stages, Staged, Working
<1>5. SessionInv'
  BY <1>1, <1>3 DEF SessionInv, Working, TouchedIs, PlainFiles
<1>6. ResultInv'
  BY <1>2 DEF ResultInv, OutcomeOK
<1>7. LeftInv'
  BY <1>1, HomesLeft DEF LeftInv
<1> QED BY <1>4, <1>5, <1>6, <1>7

\* What the snapshot finds is what the agent touched, if it could read all of it.
LEMMA GradeKeeps ==
  ASSUME IInv, Grade
  PROVE  IInv'
<1> USE DEF IInv
<1>1. PICK seen \in Snapshots(trees[cwd]) :
        /\ missed' = (missed \/ seen.missed)
        /\ outcome' = [outcome EXCEPT !.touched = touched \ Excluded, !.missed = missed',
                         !.boundary = gradeChangeBoundary(diffSnapshot(seen.of, preSnapshot),
                                                          task.gold)]
  BY Zenon DEF Grade
<1>2. PICK b : b = gradeChangeBoundary(diffSnapshot(seen.of, preSnapshot), task.gold)
  OBVIOUS
<1>3. /\ pc = "grade" /\ pc' \in {"tests", "record"}
      /\ UNCHANGED <<opts, project, slot, helper, trees, roots, e2eCounter, cwd, preSnapshot,
                     strays, homes, opened, touched, spilled, unstaged, stuckRoots, stuckHomes>>
  BY DEF Grade, childVars, planVars, resultVars, diskVars
<1>4. /\ DOMAIN preSnapshot = Kept /\ missed \in BOOLEAN
      /\ ~missed => \A f \in Kept : preSnapshot[f] = PlainFiles(opened)[f]
      /\ TouchedIs(trees[cwd])
      /\ touched \subseteq AllFiles /\ outcome \in Outcomes
  BY <1>3 DEF SessionInv, TypeInv, Working, AllFiles
<1>5. seen.missed \in BOOLEAN /\ (~seen.missed => \A f \in Kept : seen.of[f] = PlainFiles(trees[cwd])[f])
  BY <1>1, SnapshotOK
<1>6. missed' \in BOOLEAN /\ (~missed' => ~missed /\ ~seen.missed)
  BY <1>1, <1>4, <1>5
<1>7. diffSnapshot(seen.of, preSnapshot) = {f \in Kept : seen.of[f] # preSnapshot[f]}
  BY <1>4 DEF diffSnapshot
<1>8. ~missed' => diffSnapshot(seen.of, preSnapshot) = touched \ Excluded
  <2> SUFFICES ASSUME ~missed'
               PROVE  {f \in Kept : seen.of[f] # preSnapshot[f]} = touched \ Excluded
    BY <1>7
  <2>1. \A f \in Kept : (seen.of[f] # preSnapshot[f]) <=> f \in touched
    BY <1>4, <1>5, <1>6 DEF TouchedIs
  <2> QED BY <1>4, <2>1 DEF Kept
<1>9. b \in Boundaries /\ b.changed = diffSnapshot(seen.of, preSnapshot)
  BY <1>2, <1>7 DEF gradeChangeBoundary, Boundaries, Kept
<1>10. /\ outcome' \in Outcomes /\ outcome'.boundary = b
       /\ outcome'.touched = touched \ Excluded /\ outcome'.missed = missed'
  BY <1>1, <1>2, <1>4, <1>6, <1>9 DEF Outcomes
<1>11. task' = task
  BY <1>3, TaskStays
<1>12. TypeInv' /\ TreesInv'
  BY <1>3, <1>6, <1>10 DEF TypeInv, TreesInv, Stages, Staged, Working
<1>13. SessionInv'
  BY <1>3, <1>6, <1>11 DEF SessionInv, Working, PlainFiles
<1>14. ResultInv' /\ LeftInv'
  BY <1>3, <1>8, <1>9, <1>10 DEF ResultInv, OutcomeOK, LeftInv
<1> QED BY <1>12, <1>13, <1>14

LEMMA RecordKeeps ==
  ASSUME IInv, Record \/ RecordThrows
  PROVE  IInv'
<1> USE DEF IInv
<1>1. pc = "record"
      /\ UNCHANGED <<trees, roots, e2eCounter, cwd, homes, project, spilled, unstaged, stuckRoots,
                     stuckHomes>>
  BY DEF Record, RecordThrows, diskVars, worldVars, history, planVars
<1>2. CASE Record
  <2>1. /\ pc' = "next" /\ outcome' = Unjudged /\ touched' = {} /\ missed' = FALSE
        /\ helper' = "none" /\ strays' \subseteq strays \cup {cwd}
    BY <1>2 DEF Record
  <2>2. cwd \in DOMAIN trees
    BY <1>1 DEF SessionInv, Working
  <2>3. TypeInv'
    BY <1>1, <2>1, UnjudgedOK DEF TypeInv, Stages, Staged
  <2>4. TreesInv'
    BY <1>1, <2>1, <2>2 DEF TreesInv, Staged, Working
  <2>5. SessionInv' /\ ResultInv' /\ LeftInv'
    BY <1>1, <2>1, UnjudgedOK DEF SessionInv, ResultInv, OutcomeOK, LeftInv, Working
  <2> QED BY <2>3, <2>4, <2>5
<1>3. CASE RecordThrows
  <2>1. pc' = "cleanup" /\ UNCHANGED <<outcome, touched, missed, helper, strays>>
    BY <1>3 DEF RecordThrows, Throw, childVars, worldVars, history
  <2>2. TypeInv' /\ TreesInv'
    BY <1>1, <2>1 DEF TypeInv, TreesInv, Stages, Staged, Working
  <2>3. SessionInv' /\ ResultInv' /\ LeftInv'
    BY <1>1, <2>1 DEF SessionInv, ResultInv, LeftInv, Working
  <2> QED BY <2>2, <2>3
<1> QED BY <1>2, <1>3

-----------------------------------------------------------------------------

LEMMA InitKeeps == Init => IInv
<1> SUFFICES ASSUME Init
             PROVE  IInv
  OBVIOUS
<1>1. /\ pc = "preflight" /\ trees = <<>> /\ roots = {} /\ e2eCounter = 0
      /\ cwd = <<"without", 0>> /\ strays = {} /\ homes = {} /\ outcome = Unjudged
      /\ touched = {} /\ missed = FALSE /\ helper = "none"
  BY DEF Init, ChildInit
<1>2. DOMAIN trees = {} /\ trees = [w \in DOMAIN trees |-> trees[w]]
  BY <1>1
<1>3. TypeInv
  BY <1>1, <1>2, UnjudgedOK DEF TypeInv, Stages, Conditions
<1>4. TreesInv /\ SessionInv /\ ResultInv /\ LeftInv
  BY <1>1, <1>2, UnjudgedOK DEF TreesInv, SessionInv, ResultInv, OutcomeOK, LeftInv, Staged,
    Working
<1> QED BY <1>3, <1>4 DEF IInv

LEMMA NextKeeps == IInv /\ [Next]_vars => IInv'
<1> SUFFICES ASSUME IInv, [Next]_vars
             PROVE  IInv'
  OBVIOUS
<1>1. CASE UNCHANGED vars
  <2>1. UNCHANGED <<pc, opts, project, slot, helper, trees, roots, e2eCounter, cwd, preSnapshot,
                    strays, homes, outcome, opened, touched, missed, spilled, unstaged, stuckRoots,
                    stuckHomes>>
    BY <1>1 DEF vars, childVars, harnessVars, planVars, resultVars, faultVars, diskVars,
      worldVars, history
  <2>2. task' = task /\ session' = session
    BY <2>1, TaskStays
  <2>3. TypeInv' /\ TreesInv' /\ ResultInv' /\ LeftInv'
    BY <2>1, <2>2 DEF IInv, TypeInv, TreesInv, ResultInv, LeftInv
  <2>4. SessionInv'
    BY <2>1, <2>2 DEF IInv, SessionInv, TouchedIs, PlainFiles
  <2> QED BY <2>3, <2>4 DEF IInv
<1>2. CASE Next
  BY <1>1, <1>2, HarnessElsewhere, PrepareKeeps, CleanupKeeps, StartKeeps, AgentEditsKeeps,
    StrayEditsKeeps, RunTestsKeeps, ProcessesKeep, SessionEndsKeeps, GradeKeeps, RecordKeeps
    DEF Next, Harness, Fails, Agent, Ends
<1> QED BY <1>1, <1>2

LEMMA Inductive == Spec => []IInv
  BY InitKeeps, NextKeeps, PTL DEF Spec

\* The change boundary a run is recorded with is judged on what its own agent changed,
\* all of it that the snapshots could read, and on nothing the tests or the helper of
\* another session wrote.
THEOREM BoundaryIsOwn == Spec => []BoundaryIsAgentsOwn
<1>1. IInv => BoundaryIsAgentsOwn
  BY DEF IInv, ResultInv, OutcomeOK, BoundaryIsAgentsOwn
<1> QED BY <1>1, Inductive, PTL

\* When the command is over nothing of it is left in the temp directory, but for what
\* could not be removed and the copies of a project whose staging failed.
THEOREM LittleLeft == Spec => []LittleIsLeft
<1>1. IInv => LittleIsLeft
  BY DEF IInv, LeftInv, LittleIsLeft
<1> QED BY <1>1, Inductive, PTL

\* Every session starts from the project as it was staged, whatever the sessions before it,
\* their tests and the helpers they left have written, as long as nobody wrote in a copy
\* that sessions share or through a link.
THEOREM CleanStart == Spec => SessionsStartClean
<1>1. IInv => (StartSession /\ spilled = {} =>
                 \A f \in AllFiles \ Excluded : trees'[cwd'][f] = SourceTree[f])
  <2> SUFFICES ASSUME IInv, StartSession, spilled = {}
               PROVE  \A f \in Kept : trees'[cwd'][f] = SourceTree[f]
    BY DEF Kept
  <2>1. PICK c \in Conditions : sessionWorkspace(c) /\ pc = "next"
    BY DEF StartSession, OpenSession, MayStart
  <2>2. "shared" \notin spilled
    OBVIOUS
  <2> QED BY <2>1, <2>2, WorkspaceOK
<1> QED BY <1>1, Inductive, PTL DEF SessionsStartClean

-----------------------------------------------------------------------------
(* Loops over a file: sequences and what a scanner gives                   *)

LEMMA SequenceOf ==
  ASSUME NEW T, NEW s \in Seq(T)
  PROVE  IsSequence(s) /\ ToSet(s) \subseteq T /\ DOMAIN s = 1..Len(s) /\ Len(s) \in Nat
<1>1. DOMAIN s = 1..Len(s) /\ Len(s) \in Nat /\ s \in [1..Len(s) -> T]
  OBVIOUS
<1>2. s \in [1..Len(s) -> ToSet(s)]
  BY <1>1 DEF ToSet
<1>3. s \in Seq(ToSet(s))
  BY <1>1, <1>2
<1>4. QED BY <1>1, <1>3 DEF IsSequence, ToSet

LEMMA FunctionIsSequence ==
  ASSUME NEW n \in Nat, NEW f, f = [i \in 1..n |-> f[i]]
  PROVE  IsSequence(f) /\ DOMAIN f = 1..n /\ Len(f) = n
<1>1. f \in [1..n -> ToSet(f)] /\ DOMAIN f = 1..n
  BY DEF ToSet
<1>2. f \in Seq(ToSet(f)) /\ Len(f) = n
  BY <1>1
<1>3. QED BY <1>1, <1>2 DEF IsSequence

LEMMA Joins ==
  ASSUME NEW s, NEW t, IsSequence(s), IsSequence(t)
  PROVE  IsSequence(s \o t) /\ ToSet(s \o t) = ToSet(s) \cup ToSet(t)
<1> DEFINE T == ToSet(s) \cup ToSet(t)
<1>1. s \in Seq(T) /\ t \in Seq(T)
  BY DEF IsSequence
<1>2. s \o t \in Seq(T) /\ Len(s \o t) = Len(s) + Len(t)
  BY <1>1
<1>3. /\ \A i \in 1..Len(s) : (s \o t)[i] = s[i] /\ i \in 1..Len(s \o t)
      /\ \A i \in 1..Len(t) : (s \o t)[i + Len(s)] = t[i] /\ i + Len(s) \in 1..Len(s \o t)
      /\ \A i \in 1..Len(s \o t) : i \in 1..Len(s) \/ (i - Len(s) \in 1..Len(t) /\ (i - Len(s)) + Len(s) = i)
      /\ DOMAIN s = 1..Len(s) /\ DOMAIN t = 1..Len(t) /\ DOMAIN (s \o t) = 1..Len(s \o t)
  <2> HIDE DEF T
  <2>1. QED BY <1>1, <1>2
<1> HIDE DEF T
<1>4. IsSequence(s \o t)
  BY <1>2, SequenceOf
<1>5. ToSet(s) \subseteq ToSet(s \o t) /\ ToSet(t) \subseteq ToSet(s \o t)
  BY <1>3 DEF ToSet
<1>6. ToSet(s \o t) \subseteq ToSet(s) \cup ToSet(t)
  BY <1>3 DEF ToSet
<1>7. QED BY <1>4, <1>5, <1>6

LEMMA Single ==
  ASSUME NEW x
  PROVE  IsSequence(<<x>>) /\ ToSet(<<x>>) = {x}
<1>1. <<x>> \in Seq({x}) /\ DOMAIN <<x>> = {1} /\ <<x>>[1] = x
  OBVIOUS
<1>2. ToSet(<<x>>) = {x}
  BY <1>1 DEF ToSet
<1>3. QED BY <1>1, <1>2 DEF IsSequence

LEMMA EmptySequence == IsSequence(<<>>) /\ ToSet(<<>>) = {}
<1>1. <<>> \in Seq({}) /\ DOMAIN <<>> = {}
  OBVIOUS
<1>2. QED BY <1>1, SequenceOf DEF ToSet

\* Sequences one after the other hold what they hold.
LEMMA Flattened ==
  ASSUME NEW s, IsSequence(s), \A i \in DOMAIN s : IsSequence(s[i])
  PROVE  /\ IsSequence(FlattenSeq(s))
         /\ ToSet(FlattenSeq(s)) = UNION {ToSet(s[i]) : i \in DOMAIN s}
<1> DEFINE n == Len(s)
<1>1. n \in Nat /\ DOMAIN s = 1..n
  BY SequenceOf DEF IsSequence
<1>2. CASE n = 0
  <2>1. s = <<>> /\ DOMAIN s = {}
    BY <1>2, <1>1 DEF IsSequence
  <2>2. FlattenSeq(s) = <<>>
    BY <2>1, <1>2 DEF FlattenSeq
  <2>3. QED BY <2>1, <2>2, EmptySequence
<1>3. CASE n # 0
  <2> DEFINE step(g, i) == IF i = 1 THEN s[i] ELSE g[i - 1] \o s[i]
             Is(g) == g = [i \in 1..n |-> step(g, i)]
             T == UNION {ToSet(s[i]) : i \in 1..n}
             Upto(i) == UNION {ToSet(s[j]) : j \in 1..i}
  <2>1. FlattenSeq(s) = (CHOOSE g : Is(g))[n]
    BY <1>3 DEF FlattenSeq
  <2>2. \A i \in 1..n : s[i] \in Seq(T)
    <3> TAKE i \in 1..n
    <3>1. s[i] \in Seq(ToSet(s[i])) /\ ToSet(s[i]) \subseteq T
      BY <1>1 DEF IsSequence
    <3>2. QED BY <3>1
  <2>3. \E g : Is(g)
    <3> DEFINE State == Seq(T)
               move == [i \in 1..n |-> [a \in State |-> a \o s[i]]]
    <3>1. <<>> \in State /\ \A i \in 1..n : \A a \in State : a \o s[i] \in State
      BY <2>2
    <3>2. move \in [1..n -> [State -> State]]
      BY <3>1
    <3>3. \A i \in 1..n, a \in State : move[i][a] = a \o s[i]
      OBVIOUS
    <3> HIDE DEF move, State
    <3>4. PICK f : History(f, n, State, <<>>, move)
      BY <3>1, <3>2, <1>1, LoopExists, Zenon
    <3>5. f \in [0..n -> State] /\ f[0] = <<>> /\ \A i \in 1..n : f[i] = move[i][f[i - 1]]
      BY <3>4 DEF History
    <3>6. \A i \in 1..n : i - 1 \in 0..n /\ f[i] = f[i - 1] \o s[i]
      <4> TAKE i \in 1..n
      <4>1. i - 1 \in 0..n
        BY <1>1
      <4>2. f[i - 1] \in State /\ f[i] = move[i][f[i - 1]]
        BY <4>1, <3>5
      <4>3. QED BY <4>1, <4>2, <3>3
    <3> DEFINE g == [i \in 1..n |-> f[i]]
    <3>7. \A i \in 1..n : g[i] = step(g, i)
      <4> TAKE i \in 1..n
      <4>1. CASE i = 1
        <5>1. f[1] = <<>> \o s[1]
          <6>1. f[i] = f[i - 1] \o s[i]
            BY <3>6
          <6>2. i - 1 = 0
            BY <4>1
          <6>3. QED BY <6>1, <6>2, <3>5, <4>1
        <5>2. s[1] \in Seq(T)
          BY <2>2, <4>1
        <5>3. <<>> \o s[1] = s[1]
          BY <5>2
        <5>4. QED BY <5>1, <5>3, <4>1
      <4>2. CASE i # 1
        <5>1. i - 1 \in 1..n
          BY <4>2, <1>1
        <5>2. QED BY <5>1, <3>6, <4>2
      <4>3. QED BY <4>1, <4>2
    <3>8. g = [i \in 1..n |-> g[i]]
      OBVIOUS
    <3> HIDE DEF g
    <3>9. Is(g)
      BY <3>7, <3>8
    <3>10. QED BY <3>9
  <2> DEFINE g == CHOOSE x : Is(x)
  <2>4. Is(g)
    BY <2>3
  <2> HIDE DEF g
  <2>5. \A i \in 1..n : g[i] = step(g, i)
    BY <2>4
  <2> DEFINE S == {i \in 0..n : i = 0 \/ (IsSequence(g[i]) /\ ToSet(g[i]) = Upto(i))}
  <2>6. 0 \in S
    BY <1>1
  <2>7. ASSUME NEW i \in 0..(n - 1), i \in S PROVE i + 1 \in S
    <3>1. i + 1 \in 1..n /\ i + 1 \in 0..n /\ (i + 1) - 1 = i /\ 1..(i + 1) = (1..i) \cup {i + 1}
      BY <1>1
    <3>2. IsSequence(s[i + 1]) /\ Upto(i + 1) = Upto(i) \cup ToSet(s[i + 1])
      BY <3>1, <1>1
    <3>3. CASE i = 0
      <4>1. g[i + 1] = s[i + 1] /\ 1..i = {}
        BY <3>3, <2>5, <3>1
      <4>2. Upto(i) = {}
        BY <4>1
      <4>3. QED BY <4>1, <4>2, <3>1, <3>2
    <3>4. CASE i # 0
      <4>1. g[i + 1] = g[i] \o s[i + 1]
        <5>1. i + 1 # 1
          BY <3>4, <1>1
        <5>2. g[i + 1] = step(g, i + 1)
          BY <2>5, <3>1
        <5>3. QED BY <5>1, <5>2, <3>1
      <4>2. IsSequence(g[i]) /\ ToSet(g[i]) = Upto(i)
        BY <2>7, <3>4
      <4> HIDE DEF Upto
      <4>3. IsSequence(g[i + 1]) /\ ToSet(g[i + 1]) = Upto(i + 1)
        BY <4>1, <4>2, <3>2, Joins
      <4>4. QED BY <4>3, <3>1
    <3>5. QED BY <3>3, <3>4
  <2> HIDE DEF S
  <2>8. \A i \in 0..(n - 1) : i \in S => i + 1 \in S
    BY <2>7
  <2>9. n \in S
    <3>1. \A i \in 0..n : i \in S
      BY <2>6, <2>8, <1>1, Induction
    <3>2. QED BY <3>1, <1>1
  <2>10. IsSequence(g[n]) /\ ToSet(g[n]) = Upto(n)
    BY <2>9, <1>3 DEF S
  <2>11. FlattenSeq(s) = g[n]
    BY <2>1 DEF g
  <2>12. QED BY <2>10, <2>11, <1>1
<1>4. QED BY <1>2, <1>3

LEMMA PickedHolds ==
  ASSUME NEW s, IsSequence(s), NEW S
  PROVE  /\ IsSequence(Picked(s, S))
         /\ ToSet(Picked(s, S)) = {s[i] : i \in S \cap DOMAIN s}
<1> DEFINE piece == [i \in DOMAIN s |-> IF i \in S THEN <<s[i]>> ELSE <<>>]
<1>1. Len(s) \in Nat /\ DOMAIN s = 1..Len(s)
  BY SequenceOf DEF IsSequence
<1>2. piece = [i \in 1..Len(s) |-> piece[i]] /\ DOMAIN piece = DOMAIN s
  BY <1>1
<1>3. \A i \in DOMAIN s : /\ IsSequence(piece[i])
                          /\ ToSet(piece[i]) = IF i \in S THEN {s[i]} ELSE {}
  BY Single, EmptySequence
<1>4. Picked(s, S) = FlattenSeq(piece)
  BY DEF Picked
<1> HIDE DEF piece
<1>5. IsSequence(piece)
  BY <1>1, <1>2, FunctionIsSequence
<1>6. /\ IsSequence(FlattenSeq(piece))
      /\ ToSet(FlattenSeq(piece)) = UNION {ToSet(piece[i]) : i \in DOMAIN piece}
  BY <1>2, <1>3, <1>5, Flattened
<1>7. UNION {ToSet(piece[i]) : i \in DOMAIN piece} = {s[i] : i \in S \cap DOMAIN s}
  <2> DEFINE held == [i \in DOMAIN s |-> ToSet(piece[i])]
  <2>1. \A i \in DOMAIN s : ToSet(piece[i]) = held[i] /\ held[i] = IF i \in S THEN {s[i]} ELSE {}
    BY <1>3
  <2> HIDE DEF held
  <2>2. UNION {ToSet(piece[i]) : i \in DOMAIN piece} = UNION {held[i] : i \in DOMAIN s}
    BY <2>1, <1>2
  <2>3. UNION {held[i] : i \in DOMAIN s} = {s[i] : i \in S \cap DOMAIN s}
    BY <2>1
  <2>4. QED BY <2>2, <2>3
<1>8. QED BY <1>4, <1>6, <1>7
-----------------------------------------------------------------------------
(* What a scanner gives                                                    *)

\* A list of nodes, none of them a package.
Plain(nodes) == IsSequence(nodes) /\ \A n \in ToSet(nodes) : n.type # "package"

LEMMA PlainJoins ==
  ASSUME NEW s, NEW t, Plain(s), Plain(t)
  PROVE  Plain(s \o t)
BY Joins DEF Plain

LEMMA PlainMap ==
  ASSUME NEW s, IsSequence(s), NEW t, t = [i \in DOMAIN s |-> t[i]],
         \A i \in DOMAIN s : t[i].type # "package"
  PROVE  Plain(t)
<1>1. Len(s) \in Nat /\ DOMAIN s = 1..Len(s)
  BY SequenceOf DEF IsSequence
<1>2. IsSequence(t)
  BY <1>1, FunctionIsSequence
<1>3. ToSet(t) = {t[i] : i \in DOMAIN s}
  BY DEF ToSet
<1>4. QED BY <1>2, <1>3 DEF Plain

LEMMA NodeType ==
  ASSUME NEW id, NEW type, NEW label, NEW path
  PROVE  Node(id, type, label, path).type = type
BY DEF Node

LEMMA PlainNode ==
  ASSUME NEW n, n.type # "package"
  PROVE  Plain(<<n>>)
BY Single DEF Plain

LEMMA SymbolsPlain ==
  ASSUME NEW path, NEW defs, IsSequence(defs)
  PROVE  Plain(Symbols(path, defs).nodes)
<1> DEFINE nodes == [i \in DOMAIN defs |-> SymbolNode(path, defs[i])]
<1>1. Symbols(path, defs).nodes = nodes
  BY DEF Symbols, Contribution
<1>2. nodes = [i \in DOMAIN defs |-> nodes[i]] /\ \A i \in DOMAIN defs : nodes[i] = SymbolNode(path, defs[i])
  OBVIOUS
<1>3. \A i \in DOMAIN defs : SymbolNode(path, defs[i]).type # "package"
  BY NodeType DEF SymbolNode
<1> HIDE DEF nodes
<1>4. QED BY <1>1, <1>2, <1>3, PlainMap

LEMMA RoutesPlain ==
  ASSUME NEW path, NEW routes, IsSequence(routes)
  PROVE  Plain(Routes(path, routes).nodes)
<1> DEFINE node(i) == Node(<<"route", routes[i].url, routes[i].method>>, "route",
                           routes[i].method \o " " \o routes[i].url, path)
           nodes == [i \in DOMAIN routes |-> [node(i) EXCEPT !.url = routes[i].url]]
<1>1. Routes(path, routes).nodes = nodes
  BY DEF Routes, Contribution
<1>2. nodes = [i \in DOMAIN routes |-> nodes[i]]
  OBVIOUS
<1>3. \A i \in DOMAIN routes : nodes[i].type # "package"
  BY DEF Node
<1> HIDE DEF nodes
<1>4. QED BY <1>1, <1>2, <1>3, PlainMap

LEMMA FilePlain ==
  ASSUME NEW path
  PROVE  Plain(<<FileNode(path)>>)
<1>1. FileNode(path).type # "package"
  BY NodeType DEF FileNode
<1>2. QED BY <1>1, PlainNode

LEMMA NothingPlain == Plain(Nothing.nodes)
BY EmptySequence DEF Plain, Nothing, Contribution

LEMMA DefinitionsAreSequence ==
  ASSUME NEW body, IsSequence(body), NEW kinds
  PROVE  IsSequence(Definitions(body, kinds))
BY PickedHolds DEF Definitions

LEMMA CodePlain ==
  ASSUME NEW file, IsSequence(file.body), NEW targets, NEW packages
  PROVE  Plain(scanCode(file, targets, packages).nodes)
<1> DEFINE path == file.path
           url == routeUrlFor(path)
           body == file.body
           handlers == Picked(body, {i \in DOMAIN body : /\ body[i].k \in {"function", "const"}
                                                         /\ body[i].name \in HTTP_METHODS
                                                         /\ body[i].exported})
           routes == [i \in DOMAIN handlers |-> [method |-> handlers[i].name, url |-> url,
                                                 handler |-> handlers[i].name]]
<1>1. Plain(extractSymbols(path, body).nodes)
  BY DefinitionsAreSequence, SymbolsPlain DEF extractSymbols
<1>2. IsSequence(handlers)
  BY PickedHolds
<1>3. IsSequence(routes)
  <2>1. Len(handlers) \in Nat /\ DOMAIN handlers = 1..Len(handlers)
    BY <1>2, SequenceOf DEF IsSequence
  <2>2. routes = [i \in DOMAIN handlers |-> routes[i]]
    OBVIOUS
  <2> HIDE DEF routes, handlers
  <2>3. QED BY <2>1, <2>2, FunctionIsSequence
<1>4. extractRoutes(path, body) = IF url = None THEN Nothing ELSE Routes(path, routes)
  BY DEF extractRoutes
<1> HIDE DEF routes, handlers, url
<1>5. Plain(extractRoutes(path, body).nodes)
  BY <1>3, <1>4, RoutesPlain, NothingPlain
<1>6. scanCode(file, targets, packages).nodes
        = <<FileNode(path)>> \o extractSymbols(path, body).nodes \o extractRoutes(path, body).nodes
  BY DEF scanCode, Contribution
<1> HIDE DEF path, body
<1>7. QED BY <1>1, <1>5, <1>6, FilePlain, PlainJoins

LEMMA PyRoutesPlain ==
  ASSUME NEW path, NEW body, IsSequence(body),
         \A s \in ToSet(body) : s.k = "function" =>
           /\ IsSequence(s.decorators)
           /\ \A d \in ToSet(s.decorators) : IsSequence(d.methods)
  PROVE  Plain(extractPyRoutes(path, body).nodes)
<1> DEFINE ofDecorator(s, d) == [i \in DOMAIN RouteMethods(d) |->
                                   [method |-> RouteMethods(d)[i], url |-> d.url, handler |-> s.name]]
           ofFunction(s) == FlattenSeq([i \in DOMAIN s.decorators |-> ofDecorator(s, s.decorators[i])])
           parts == [i \in DOMAIN body |-> IF body[i].k = "function" THEN ofFunction(body[i]) ELSE <<>>]
<1>1. extractPyRoutes(path, body) = Routes(path, FlattenSeq(parts))
  BY DEF extractPyRoutes
<1>2. ASSUME NEW s, NEW d, IsSequence(d.methods) PROVE IsSequence(ofDecorator(s, d))
  <2>1. IsSequence(RouteMethods(d))
    BY <1>2, Single, EmptySequence DEF RouteMethods
  <2>2. Len(RouteMethods(d)) \in Nat /\ DOMAIN RouteMethods(d) = 1..Len(RouteMethods(d))
    BY <2>1, SequenceOf DEF IsSequence
  <2>3. ofDecorator(s, d) = [i \in DOMAIN RouteMethods(d) |-> ofDecorator(s, d)[i]]
    OBVIOUS
  <2> HIDE DEF ofDecorator
  <2>4. QED BY <2>2, <2>3, FunctionIsSequence
<1>3. ASSUME NEW s, IsSequence(s.decorators), \A d \in ToSet(s.decorators) : IsSequence(d.methods)
      PROVE  IsSequence(ofFunction(s))
  <2> DEFINE routes == [i \in DOMAIN s.decorators |-> ofDecorator(s, s.decorators[i])]
  <2>1. Len(s.decorators) \in Nat /\ DOMAIN s.decorators = 1..Len(s.decorators)
    BY <1>3, SequenceOf DEF IsSequence
  <2>2. \A i \in DOMAIN s.decorators : routes[i] = ofDecorator(s, s.decorators[i])
    OBVIOUS
  <2>3. \A i \in DOMAIN s.decorators : s.decorators[i] \in ToSet(s.decorators)
    BY DEF ToSet
  <2> HIDE DEF ofDecorator
  <2>4. routes = [i \in DOMAIN s.decorators |-> routes[i]] /\ DOMAIN routes = DOMAIN s.decorators
    OBVIOUS
  <2>5. \A i \in DOMAIN s.decorators : IsSequence(routes[i])
    BY <1>2, <1>3, <2>2, <2>3
  <2> HIDE DEF routes
  <2>6. IsSequence(routes)
    BY <2>1, <2>4, FunctionIsSequence
  <2>7. IsSequence(FlattenSeq(routes))
    BY <2>4, <2>5, <2>6, Flattened
  <2>8. QED BY <2>7 DEF routes
<1> HIDE DEF ofDecorator, ofFunction
<1>4. Len(body) \in Nat /\ DOMAIN body = 1..Len(body)
  BY SequenceOf DEF IsSequence
<1>5. \A i \in DOMAIN body : body[i] \in ToSet(body)
  BY DEF ToSet
<1>6. \A i \in DOMAIN body : IsSequence(parts[i])
  BY <1>3, <1>5, EmptySequence
<1>7. parts = [i \in 1..Len(body) |-> parts[i]] /\ DOMAIN parts = DOMAIN body
  BY <1>4
<1> HIDE DEF parts
<1>8. IsSequence(parts)
  BY <1>4, <1>7, FunctionIsSequence
<1>9. IsSequence(FlattenSeq(parts))
  BY <1>6, <1>7, <1>8, Flattened
<1>10. QED BY <1>1, <1>9, RoutesPlain

LEMMA PythonPlain ==
  ASSUME NEW file, IsSequence(file.body),
         \A s \in ToSet(file.body) : s.k = "function" =>
           /\ IsSequence(s.decorators)
           /\ \A d \in ToSet(s.decorators) : IsSequence(d.methods),
         NEW known
  PROVE  Plain(scanPython(file, known).nodes)
<1> DEFINE path == file.path
           body == file.body
<1>1. Plain(extractPySymbols(path, body).nodes)
  BY DefinitionsAreSequence, SymbolsPlain DEF extractPySymbols
<1>2. Plain(extractPyRoutes(path, body).nodes)
  BY PyRoutesPlain
<1>3. scanPython(file, known).nodes
        = <<FileNode(path)>> \o extractPySymbols(path, body).nodes \o extractPyRoutes(path, body).nodes
  BY DEF scanPython, Contribution
<1> HIDE DEF path, body
<1>4. QED BY <1>1, <1>2, <1>3, FilePlain, PlainJoins

LEMMA SqlPlain ==
  ASSUME NEW file, IsSequence(file.body)
  PROVE  Plain(scanSql(file).nodes)
<1> DEFINE clauses == file.body
           Of(k) == Picked(clauses, {i \in DOMAIN clauses : clauses[i].k = k})
           tables == Of("create") \o Of("alter") \o Of("references")
           named == [i \in DOMAIN tables |-> Node(tableId(tables[i].table), "table",
                                                  normalizeTable(tables[i].table), file.path)]
           migration == Node(<<"migration", file.path>>, "migration", posixBasename(file.path), file.path)
<1>1. scanSql(file).nodes = <<migration>> \o named
  BY DEF scanSql, Contribution
<1>2. IsSequence(Of("create")) /\ IsSequence(Of("alter")) /\ IsSequence(Of("references"))
  BY PickedHolds
<1> HIDE DEF Of
<1>3. IsSequence(tables)
  BY <1>2, Joins
<1> HIDE DEF tables
<1>4. named = [i \in DOMAIN tables |-> named[i]]
  OBVIOUS
<1>5. \A i \in DOMAIN tables : named[i].type # "package"
  BY NodeType
<1>6. migration.type # "package"
  BY NodeType
<1> HIDE DEF named, migration
<1>7. Plain(named) /\ Plain(<<migration>>)
  BY <1>3, <1>4, <1>5, <1>6, PlainMap, PlainNode
<1>8. QED BY <1>1, <1>7, PlainJoins

LEMMA DocsPlain ==
  ASSUME NEW file, IsSequence(file.body.headings)
  PROVE  Plain(scanDocs(file).nodes) /\ scanDocs(file).data # NoData
<1> DEFINE headings == file.body.headings
           sections == [i \in DOMAIN headings |->
                         Node(SectionId(file.path, headings, i), "section", headings[i].slug, file.path)]
           doc == Node(DocId(file.path), "doc", posixBasename(file.path), file.path)
<1>1. /\ scanDocs(file).nodes = <<doc>> \o sections
      /\ scanDocs(file).data = [doc |-> file.path, parsed |-> file.body]
  BY DEF scanDocs
<1>2. sections = [i \in DOMAIN headings |-> sections[i]]
  OBVIOUS
<1>3. \A i \in DOMAIN headings : sections[i].type # "package"
  BY NodeType
<1>4. doc.type # "package"
  BY NodeType
<1> HIDE DEF sections, doc
<1>5. Plain(sections) /\ Plain(<<doc>>)
  BY <1>2, <1>3, <1>4, PlainMap, PlainNode
<1>6. [doc |-> file.path, parsed |-> file.body] # NoData
  <2>1. "parsed" \in DOMAIN [doc |-> file.path, parsed |-> file.body] /\ "parsed" \notin DOMAIN NoData
    BY DEF NoData
  <2>2. QED BY <2>1
<1>7. QED BY <1>1, <1>5, <1>6, PlainJoins

\* Whatever plugin claims a file gives a list of nodes: the package plugin gives packages,
\* and nobody else does.
LEMMA Given ==
  ASSUME NEW r \in DOMAIN Repos, NEW f \in ToSet(Repos[r].files), NEW p, Claims(p, f), NEW names
  PROVE  /\ IsSequence(ScanOf(p, f, names).nodes)
         /\ p.kind # "package" => Plain(ScanOf(p, f, names).nodes)
         /\ p.kind = "package" => \A n \in ToSet(ScanOf(p, f, names).nodes) : n.type = "package"
         /\ p.kind = "docs" => ScanOf(p, f, names).data # NoData
<1>1. Parsed(f)
  BY ReposAssumption
<1>2. CASE p.kind = "package"
  <2>1. ScanOf(p, f, names) = scanPackageJson(f)
    BY <1>2 DEF ScanOf
  <2> DEFINE node == Node(packageId(f.body.name), "package", f.body.name, f.path)
             full == [node EXCEPT !.dir = posixDirname(f.path), !.deps = f.body.deps]
  <2>2. scanPackageJson(f).nodes = IF f.body.name = None THEN <<>> ELSE <<full>>
    BY DEF scanPackageJson, Contribution
  <2>3. full.type = "package"
    BY DEF Node
  <2> HIDE DEF full
  <2>4. QED BY <2>1, <2>2, <2>3, <1>2, Single, EmptySequence
<1>3. CASE p.kind = "code"
  <2>1. ScanOf(p, f, names) = scanCode(f, importTargets, names) /\ f.ext \in CodeExts
    BY <1>3 DEF ScanOf, Claims
  <2>2. QED BY <2>1, <1>1, <1>3, CodePlain DEF Parsed, Plain
<1>4. CASE p.kind = "python"
  <2>1. ScanOf(p, f, names) = scanPython(f, knownFiles) /\ f.ext = ".py"
    BY <1>4 DEF ScanOf, Claims
  <2>2. QED BY <2>1, <1>1, <1>4, PythonPlain DEF Parsed, Plain
<1>5. CASE p.kind = "sql"
  <2>1. ScanOf(p, f, names) = scanSql(f) /\ f.ext = ".sql"
    BY <1>5 DEF ScanOf, Claims
  <2>2. QED BY <2>1, <1>1, <1>5, SqlPlain DEF Parsed, Plain
<1>6. CASE p.kind = "docs"
  <2>1. ScanOf(p, f, names) = scanDocs(f) /\ f.ext \in {".md", ".mdx"}
    BY <1>6 DEF ScanOf, Claims
  <2>2. QED BY <2>1, <1>1, <1>6, DocsPlain DEF Parsed, Plain
<1>7. CASE p.kind \notin {"package", "code", "python", "sql", "docs"}
  <2>1. ScanOf(p, f, names) = Foreign(f) /\ f.ext = ".sql"
    BY <1>7 DEF ScanOf, Claims
  <2>2. QED BY <2>1, <1>7, ForeignAssumption DEF Plain
<1>8. QED BY <1>2, <1>3, <1>4, <1>5, <1>6, <1>7

LEMMA Validated ==
  ASSUME NEW c, IsSequence(c.nodes)
  PROVE  /\ IsSequence(validateContribution(c).nodes)
         /\ ToSet(validateContribution(c).nodes) \subseteq ToSet(c.nodes)
         /\ validateContribution(c).data = c.data
<1> DEFINE S == {i \in FirstOfItsId(c.nodes) : c.nodes[i].id # None}
<1>1. validateContribution(c).nodes = Picked(c.nodes, S) /\ validateContribution(c).data = c.data
  BY DEF validateContribution
<1> HIDE DEF S
<1>2. QED BY <1>1, PickedHolds DEF ToSet

LEMMA NothingValidated ==
  /\ IsSequence(validateContribution(Nothing).nodes)
  /\ ToSet(validateContribution(Nothing).nodes) = {}
  /\ validateContribution(Nothing).edges = {}
  /\ validateContribution(Nothing).data = NoData
<1>1. Nothing.nodes = <<>> /\ Nothing.edges = {} /\ Nothing.data = NoData
  BY DEF Nothing, Contribution
<1>2. validateContribution(Nothing).edges = {}
  BY <1>1 DEF validateContribution
<1>3. QED BY <1>1, <1>2, Validated, EmptySequence

LEMMA GraphOf ==
  ASSUME NEW nodes, IsSequence(nodes), NEW edges
  PROVE  /\ buildGraph(nodes, edges).nodes \subseteq ToSet(nodes)
         /\ {n.id : n \in buildGraph(nodes, edges).nodes} = {n.id : n \in ToSet(nodes)}
         /\ Cardinality(buildGraph(nodes, edges).nodes) = Cardinality({n.id : n \in ToSet(nodes)})
         /\ IdsOf(nodes) = {n.id : n \in ToSet(nodes)}
<1> DEFINE firsts == FirstOfItsId(nodes)
           kept == {nodes[i] : i \in firsts}
           ids == {n.id : n \in ToSet(nodes)}
<1>1. buildGraph(nodes, edges).nodes = kept
  BY DEF buildGraph
<1>2. DOMAIN nodes \subseteq Nat /\ nodes \in Seq(ToSet(nodes))
  BY SequenceOf DEF IsSequence
<1>3. kept \subseteq ToSet(nodes)
  BY DEF FirstOfItsId, ToSet
<1>4. ASSUME NEW i \in DOMAIN nodes PROVE \E j \in firsts : nodes[j].id = nodes[i].id
  <2> DEFINE same == {j \in DOMAIN nodes : nodes[j].id = nodes[i].id}
  <2>1. same \subseteq Nat /\ i \in same
    BY <1>2
  <2> HIDE DEF same
  <2>2. PICK j \in same : \A k \in same : j <= k
    BY <2>1, Least, Zenon
  <2>3. QED BY <2>2 DEF same, FirstOfItsId
<1>5. {n.id : n \in kept} = ids
  <2>1. \A j \in firsts : j \in DOMAIN nodes /\ nodes[j] \in kept /\ nodes[j] \in ToSet(nodes)
    BY DEF FirstOfItsId, ToSet
  <2>2. \A n \in ToSet(nodes) : \E i \in DOMAIN nodes : n = nodes[i]
    BY DEF ToSet
  <2> HIDE DEF firsts, kept
  <2>3. \A n \in ToSet(nodes) : \E m \in kept : m.id = n.id
    BY <1>4, <2>1, <2>2
  <2>4. QED BY <2>3, <1>3
<1>6. \A m, n \in kept : m.id = n.id => m = n
  <2>1. SUFFICES ASSUME NEW i \in firsts, NEW j \in firsts, nodes[i].id = nodes[j].id PROVE i = j
    OBVIOUS
  <2>2. i <= j /\ j <= i /\ i \in Nat /\ j \in Nat
    BY <2>1, <1>2 DEF FirstOfItsId
  <2>3. QED BY <2>2
<1>7. Cardinality(kept) = Cardinality(ids)
  <2> DEFINE id == [n \in kept |-> n.id]
  <2>1. IsFiniteSet(kept)
    <3>1. IsFiniteSet({nodes[i] : i \in DOMAIN nodes})
      BY <1>2, SeqRange
    <3>2. kept \subseteq {nodes[i] : i \in DOMAIN nodes}
      BY DEF FirstOfItsId
    <3>3. QED BY <3>1, <3>2, FS_Subset
  <2> HIDE DEF kept, ids
  <2>2. id \in [kept -> ids] /\ \A x \in ids : \E n \in kept : id[n] = x
    BY <1>5
  <2>3. \A m, n \in kept : id[m] = id[n] => m = n
    BY <1>6
  <2> HIDE DEF id
  <2>4. id \in Bijection(kept, ids)
    BY <2>2, <2>3, Fun_IsBij
  <2>5. ExistsBijection(kept, ids)
    BY <2>4 DEF ExistsBijection
  <2>6. QED BY <2>1, <2>5, FS_Bijection
<1>8. IdsOf(nodes) = ids
  BY DEF IdsOf, ToSet
<1>9. QED BY <1>1, <1>3, <1>5, <1>7, <1>8

LEMMA BeforeOrders ==
  ASSUME NEW p \in Offered, NEW q \in Offered
  PROVE  /\ ~Before(p, p)
         /\ ~ (Before(p, q) /\ Before(q, p))
         /\ p.id # q.id => Before(p, q) \/ Before(q, p)
         /\ \A s \in Offered : Before(p, q) /\ Before(q, s) => Before(p, s)
BY OfferedAssumption DEF Before

\* The sorted plugins are the registered ones, each before the next.
LEMMA OrderedLists ==
  ASSUME registered \in Seq(Offered), \A p, q \in ToSet(registered) : p.id = q.id => p = q
  PROVE  /\ ordered \in Seq(Offered) /\ ToSet(ordered) = ToSet(registered)
         /\ \A k, l \in DOMAIN ordered : k < l => Before(ordered[k], ordered[l])
<1> DEFINE plugins == ToSet(registered)
           below == [p \in plugins |-> {q \in plugins : Before(q, p)}]
           n == Cardinality(plugins)
<1>1. IsFiniteSet(plugins) /\ plugins \subseteq Offered
  BY SeqRange DEF ToSet
<1>2. StrictOrder(plugins, below)
  <2>1. \A p, q \in plugins : q \in below[p] <=> Before(q, p)
    OBVIOUS
  <2>2. below \in [plugins -> SUBSET plugins]
    OBVIOUS
  <2> HIDE DEF below, plugins
  <2>3. \A p \in plugins : p \in Offered
    BY <1>1
  <2>4. \A p \in plugins : p \notin below[p]
    BY <2>1, <2>3, BeforeOrders
  <2>5. \A x, y, z \in plugins : x \in below[y] /\ y \in below[z] => x \in below[z]
    BY <2>1, <2>3, BeforeOrders
  <2>6. \A x, y \in plugins : x # y => x \in below[y] \/ y \in below[x]
    BY <2>1, <2>3, BeforeOrders DEF plugins
  <2>7. QED BY <2>2, <2>4, <2>5, <2>6 DEF StrictOrder
<1>3. ordered = [k \in 1..n |->
                   CHOOSE p \in plugins : Cardinality({q \in plugins : Before(q, p)}) = k - 1]
  BY DEF ordered
<1>0. \A p \in plugins : below[p] = {q \in plugins : Before(q, p)}
  OBVIOUS
<1> HIDE DEF plugins, below
<1>4. /\ n \in Nat
      /\ \A k \in 1..n : \E p \in plugins : Cardinality(below[p]) = k - 1
  BY <1>1, <1>2, Places
<1>5. ordered \in [1..n -> plugins] /\ \A k \in 1..n : Cardinality(below[ordered[k]]) = k - 1
  <2> DEFINE at(k, p) == Cardinality({q \in plugins : Before(q, p)}) = k - 1
  <2>1. \A k \in 1..n : \E p \in plugins : at(k, p)
    BY <1>4, <1>0
  <2>2. ordered = [k \in 1..n |-> CHOOSE p \in plugins : at(k, p)]
    BY <1>3
  <2> HIDE DEF at
  <2>3. \A k \in 1..n : ordered[k] \in plugins /\ at(k, ordered[k])
    BY <2>1, <2>2
  <2>4. ordered \in [1..n -> plugins]
    BY <2>2, <2>3
  <2>5. QED BY <2>3, <2>4, <1>0 DEF at
<1>6. /\ Lists(ordered, plugins)
      /\ \A i, j \in 1..Len(ordered) : i < j => ordered[i] \in below[ordered[j]]
  BY <1>1, <1>2, <1>5, Listed, Zenon
<1>7. ordered \in Seq(plugins) /\ DOMAIN ordered = 1..Len(ordered)
  BY <1>6 DEF Lists
<1>8. ordered \in Seq(Offered)
  BY <1>7, <1>1
<1>9. ToSet(ordered) = plugins
  BY <1>5, <1>6, <1>7 DEF Lists, ToSet
<1>10. \A i, j \in DOMAIN ordered : i < j => Before(ordered[i], ordered[j])
  <2>1. \A p \in plugins : \A q \in below[p] : Before(q, p)
    BY DEF below
  <2>2. \A j \in DOMAIN ordered : ordered[j] \in plugins
    BY <1>9 DEF ToSet
  <2>3. QED BY <2>1, <2>2, <1>6, <1>7
<1>11. QED BY <1>8, <1>9, <1>10 DEF plugins

-----------------------------------------------------------------------------
(* The invariant of a scan                                                 *)

Later == {"detect", "scan", "finalize", "done"}
Scanning == {"scan", "finalize", "done"}
Steps == {"read"} \cup (IF phase \in Later THEN {"detect"} ELSE {})
                  \cup (IF phase \in Scanning THEN {"scan"} ELSE {})
                  \cup (IF phase \in {"finalize", "done"} THEN {"finalize"} ELSE {})

\* The plugins are sorted before any file is looked at, and a phase loses what is its own.
RegistryInv ==
  /\ repo \in DOMAIN Repos
  /\ phase \in {"register"} \cup Later
  /\ registered \in Seq(Offered)
  /\ \A p, q \in ToSet(registered) : p.id = q.id => p = q
  /\ phase \in Later => \A k, l \in DOMAIN registered : k < l => Before(registered[k], registered[l])
  /\ \A l \in lost : l.step \in Steps

Plug(i) == registered[assignment[i]]
LostAt(step, i) == Lost(step, Plug(i).id, fileAt(i).path) \in lost

\* The owner of a file is its rightful one.
Assigned(i) ==
  IF assignment[i] = NoOwner THEN OwnerOf(fileAt(i)) = None
  ELSE OwnerOf(fileAt(i)) = Plug(i) /\ Claims(Plug(i), fileAt(i))
Undetected(i) ==
  /\ assignment[i] = NoOwner
  /\ \A p \in ToSet(registered) : Lost("detect", p.id, fileAt(i).path) \notin lost

DetectInv ==
  /\ phase = "register" => done = {}
  /\ phase \in Later => assignment \in [inputs -> DOMAIN registered \cup {NoOwner}]
  /\ phase \in Scanning => \A i \in inputs : Assigned(i)
  /\ phase = "detect" => \A i \in inputs : IF i \in done THEN Assigned(i) ELSE Undetected(i)

\* What the files scanned so far gave, with the packages known by now.
Scanned == IF phase = "scan" THEN done ELSE Owned
KeptAt == {i \in Scanned : ~LostAt("scan", i)}
Gives(i) == validateContribution(ScanOf(Plug(i), fileAt(i), workspacePackages))
Labels(f) == {n.label : n \in ToSet(validateContribution(scanPackageJson(f)).nodes)}
LostFinalize(k) == Lost("finalize", registered[k].id, NoFile) \in lost
Finalized == {k \in finalizers \cap done : phase \in {"finalize", "done"} /\ ~LostFinalize(k)}

\* Plugins scan in their order: what is left belongs to no earlier one.
OrderInv ==
  phase = "scan" =>
    /\ done \subseteq Owned
    /\ \A i \in done, j \in Owned \ done : assignment[i] <= assignment[j]
    /\ \A i \in Owned \ done : ~LostAt("scan", i)

\* The accumulation is what the kept files give; the packages known grow while the
\* package plugin scans, when no code file has been read yet.
GatherInv ==
  IF phase \in Scanning
  THEN /\ IsSequence(allNodes)
       /\ ToSet(allNodes) = UNION {ToSet(Gives(i).nodes) : i \in KeptAt}
       /\ allEdges = (UNION {Gives(i).edges : i \in KeptAt})
                     \cup (UNION {FinalizeOf(registered[k], allNodes, own) : k \in Finalized})
       /\ own = {Gives(i).data : i \in {j \in KeptAt : Plug(j).kind = "docs"}}
       /\ workspacePackages = UNION {Labels(fileAt(i)) : i \in {j \in KeptAt : Plug(j).kind = "package"}}
  ELSE allNodes = <<>> /\ allEdges = {} /\ own = {} /\ workspacePackages = {}

EndInv ==
  /\ phase = "finalize" => \A k \in finalizers \ done : ~LostFinalize(k)
  /\ phase = "done" => finalizers \subseteq done /\ graph = buildGraph(allNodes, allEdges)

PipelineInv == RegistryInv /\ DetectInv /\ OrderInv /\ GatherInv /\ EndInv

-----------------------------------------------------------------------------
(* Who owns a file                                                         *)

USE DEF NoOwner

LEMMA FileOf ==
  ASSUME repo \in DOMAIN Repos, NEW i \in inputs
  PROVE  /\ i \in DOMAIN Repos[repo].files /\ i \in Nat
         /\ fileAt(i) \in ToSet(Repos[repo].files) /\ fileAt(i).size \in Nat
         /\ \A j \in inputs : fileAt(j).path = fileAt(i).path => i = j
<1>1. \A j \in inputs : j \in DOMAIN Repos[repo].files
  BY DEF inputs, Readable
<1>2. DOMAIN Repos[repo].files \subseteq Nat
  BY ReposAssumption, SequenceOf DEF IsSequence
<1>3. fileAt(i) \in ToSet(Repos[repo].files)
  BY <1>1 DEF fileAt, ToSet
<1>4. QED BY <1>1, <1>2, <1>3, ReposAssumption DEF fileAt

LEMMA PluginAt ==
  ASSUME registered \in Seq(Offered)
  PROVE  /\ DOMAIN registered \subseteq Nat \ {0}
         /\ \A k \in DOMAIN registered : registered[k] \in Offered /\ registered[k] \in ToSet(registered)
BY DEF ToSet

\* Sorted plugins have distinct ids.
LEMMA PlacesDiffer ==
  ASSUME RegistryInv, phase \in Later, NEW k \in DOMAIN registered, NEW l \in DOMAIN registered,
         registered[k].id = registered[l].id
  PROVE  k = l
<1>1. registered \in Seq(Offered)
  BY DEF RegistryInv
<1>2. k \in Nat /\ l \in Nat /\ registered[k] \in Offered /\ registered[k] \in ToSet(registered)
      /\ registered[l] \in ToSet(registered)
  BY <1>1, PluginAt
<1>3. registered[k] = registered[l]
  BY <1>2 DEF RegistryInv
<1>4. \A a, b \in DOMAIN registered : a < b => Before(registered[a], registered[b])
  BY DEF RegistryInv
<1>5. ~ (k < l) /\ ~ (l < k)
  BY <1>2, <1>3, <1>4, BeforeOrders
<1>6. QED BY <1>2, <1>5

\* A plugin before another stands before it.
LEMMA PlacesFollow ==
  ASSUME RegistryInv, phase \in Later, NEW k \in DOMAIN registered, NEW l \in DOMAIN registered,
         Before(registered[k], registered[l])
  PROVE  k < l
<1>1. registered \in Seq(Offered)
  BY DEF RegistryInv
<1>2. k \in Nat /\ l \in Nat /\ registered[k] \in Offered /\ registered[l] \in Offered
  BY <1>1, PluginAt
<1>3. \A a, b \in DOMAIN registered : a < b => Before(registered[a], registered[b])
  BY DEF RegistryInv
<1>4. k # l /\ ~ (l < k)
  BY <1>2, <1>3, BeforeOrders
<1>5. QED BY <1>2, <1>4

\* OwnerOf with what detect lost in L.
OwnerIn(f, L) ==
  LET claimants == {p \in ToSet(registered) : /\ Claims(p, f) /\ f.size <= MaxBytes
                                              /\ Lost("detect", p.id, f.path) \notin L}
  IN IF claimants = {} THEN None
     ELSE CHOOSE p \in claimants : \A q \in claimants \ {p} : Before(p, q)

\* The first of the sorted plugins that claims a file is the one no other precedes.
LEMMA OwnerIsFirst ==
  ASSUME RegistryInv, phase \in Later, NEW f, f.size <= MaxBytes, NEW L, NEW thrown,
         \A k \in DOMAIN registered :
           k \in thrown <=> Lost("detect", registered[k].id, f.path) \in L
  PROVE  /\ Owner(f, thrown) \in DOMAIN registered \cup {NoOwner}
         /\ Owner(f, thrown) = NoOwner => OwnerIn(f, L) = None
         /\ Owner(f, thrown) # NoOwner => /\ OwnerIn(f, L) = registered[Owner(f, thrown)]
                                          /\ Claims(registered[Owner(f, thrown)], f)
<1> DEFINE places == {k \in DOMAIN registered : Claims(registered[k], f)} \ thrown
           claimants == {p \in ToSet(registered) : /\ Claims(p, f) /\ f.size <= MaxBytes
                                                   /\ Lost("detect", p.id, f.path) \notin L}
<1>1. registered \in Seq(Offered)
  BY DEF RegistryInv
<1>2. DOMAIN registered \subseteq Nat \ {0} /\ places \subseteq Nat \ {0} /\ places \subseteq DOMAIN registered
  BY <1>1, PluginAt
<1>3. \A p : p \in claimants <=> \E k \in places : p = registered[k]
  BY DEF ToSet
<1>4. Owner(f, thrown) = IF places = {} THEN NoOwner ELSE CHOOSE k \in places : \A l \in places : k <= l
  BY DEF Owner
<1>5. OwnerIn(f, L) = IF claimants = {} THEN None
                      ELSE CHOOSE p \in claimants : \A q \in claimants \ {p} : Before(p, q)
  BY DEF OwnerIn
<1>6. \A k \in places : Claims(registered[k], f)
  OBVIOUS
<1> HIDE DEF places, claimants
<1>7. CASE places = {}
  BY <1>3, <1>4, <1>5, <1>7
<1>8. CASE places # {}
  <2> DEFINE first == CHOOSE k \in places : \A l \in places : k <= l
  <2>1. \E k \in places : \A l \in places : k <= l
    <3>1. places \subseteq Nat
      BY <1>2
    <3>2. QED BY <3>1, <1>8, Least, Zenon
  <2>2. first \in places /\ \A l \in places : first <= l
    BY <2>1
  <2> HIDE DEF first
  <2>3. \A k, l \in DOMAIN registered : k < l => Before(registered[k], registered[l])
    BY DEF RegistryInv
  <2>4. \A q \in claimants \ {registered[first]} : Before(registered[first], q)
    <3> TAKE q \in claimants \ {registered[first]}
    <3>1. PICK l \in places : q = registered[l]
      BY <1>3
    <3>2. first < l
      BY <3>1, <2>2, <1>2
    <3>3. QED BY <3>1, <3>2, <2>2, <2>3, <1>2
  <2>5. registered[first] \in claimants
    BY <1>3, <2>2
  <2>6. \A p \in claimants : (\A q \in claimants \ {p} : Before(p, q)) => p = registered[first]
    <3>1. \A p \in claimants : p \in Offered
      BY <1>1, <1>2, <1>3, PluginAt
    <3>2. QED BY <3>1, <2>4, <2>5, BeforeOrders
  <2>7. (CHOOSE p \in claimants : \A q \in claimants \ {p} : Before(p, q)) = registered[first]
    BY <2>4, <2>5, <2>6
  <2>8. Owner(f, thrown) = first /\ OwnerIn(f, L) = registered[first]
    BY <1>4, <1>5, <1>8, <2>5, <2>7 DEF first
  <2>9. QED BY <2>2, <2>8, <1>2, <1>6
<1>9. QED BY <1>7, <1>8

\* What is lost to another phase changes no owner and no input.
LEMMA InputsStay ==
  ASSUME repo' = repo, NEW S, lost' = lost \cup S, \A l \in S : l.step # "read"
  PROVE  /\ inputs' = inputs
         /\ \A i : fileAt(i)' = fileAt(i)
<1>1. \A i : fileAt(i)' = fileAt(i)
  BY DEF fileAt
<1>2. Readable(repo)' = Readable(repo)
  BY DEF Readable
<1>3. \A f : Unreadable(f)' <=> Unreadable(f)
  BY DEF Unreadable
<1>4. QED BY <1>1, <1>2, <1>3 DEF inputs

LEMMA OwnerThen ==
  ASSUME registered' = registered, NEW f
  PROVE  OwnerOf(f)' = OwnerIn(f, lost')
<1> DEFINE A == {p \in ToSet(registered) : /\ Claims(p, f) /\ f.size <= MaxBytes
                                           /\ Lost("detect", p.id, f.path) \notin lost'}
<1>1. OwnerIn(f, lost') = IF A = {} THEN None ELSE CHOOSE p \in A : \A q \in A \ {p} : Before(p, q)
  BY DEF OwnerIn
<1>2. OwnerOf(f)' = IF A = {} THEN None ELSE CHOOSE p \in A : \A q \in A \ {p} : Before(p, q)
  BY DEF OwnerOf
<1> HIDE DEF A
<1>3. QED BY <1>1, <1>2

LEMMA OwnersStay ==
  ASSUME registered' = registered, NEW S, lost' = lost \cup S, NEW f,
         \A l \in S : l.step # "detect" \/ l.file # f.path
  PROVE  OwnerOf(f)' = OwnerOf(f)
<1>1. \A p : Lost("detect", p.id, f.path) \in lost' <=> Lost("detect", p.id, f.path) \in lost
  BY DEF Lost
<1> DEFINE now == {p \in ToSet(registered) : /\ Claims(p, f) /\ f.size <= MaxBytes
                                             /\ Lost("detect", p.id, f.path) \notin lost}
           then == {p \in ToSet(registered) : /\ Claims(p, f) /\ f.size <= MaxBytes
                                              /\ Lost("detect", p.id, f.path) \notin lost'}
<1>2. now = then
  BY <1>1
<1>3. OwnerOf(f) = IF now = {} THEN None ELSE CHOOSE p \in now : \A q \in now \ {p} : Before(p, q)
  BY DEF OwnerOf
<1>4. OwnerOf(f)' = IF then = {} THEN None ELSE CHOOSE p \in then : \A q \in then \ {p} : Before(p, q)
  BY DEF OwnerOf
<1> HIDE DEF now, then
<1>5. QED BY <1>2, <1>3, <1>4

-----------------------------------------------------------------------------
(* Registration and detection                                              *)

LEMMA PipelineStarts == PipelineInit => PipelineInv
<1> SUFFICES ASSUME PipelineInit PROVE PipelineInv
  OBVIOUS
<1> USE DEF PipelineInit
<1>1. \A l \in lost : l.step = "read"
  BY DEF Lost
<1>2. registered \in Seq(Offered) /\ ToSet(registered) = {}
  BY EmptySequence
<1>3. RegistryInv
  BY <1>1, <1>2 DEF RegistryInv, Later, Steps
<1>4. DetectInv
  BY DEF DetectInv, Later, Scanning
<1>5. OrderInv /\ GatherInv /\ EndInv
  BY DEF OrderInv, GatherInv, EndInv, Scanning
<1>6. QED BY <1>3, <1>4, <1>5 DEF PipelineInv

LEMMA RegisterKeeps ==
  ASSUME PipelineInv, NEW p \in Offered, Register(p)
  PROVE  PipelineInv'
<1>1. /\ phase = "register" /\ phase' = phase /\ repo' = repo /\ lost' = lost /\ done' = done
      /\ allNodes' = allNodes /\ allEdges' = allEdges /\ own' = own
      /\ workspacePackages' = workspacePackages
  BY DEF Register
<1>2. \/ registered' = registered
      \/ registered' = Append(registered, p) /\ \A q \in ToSet(registered) : q.id # p.id
  BY DEF Register
<1>3. RegistryInv
  BY DEF PipelineInv
<1>4. registered \in Seq(Offered)
  BY <1>3 DEF RegistryInv
<1>5. registered' \in Seq(Offered) /\ ToSet(registered)' \subseteq ToSet(registered) \cup {p}
  <2>1. CASE registered' = registered
    BY <2>1, <1>4
  <2>2. CASE registered' = Append(registered, p)
    <3>1. /\ registered' \in Seq(Offered) /\ DOMAIN registered' = 1..(Len(registered) + 1)
          /\ DOMAIN registered = 1..Len(registered) /\ Len(registered) \in Nat
          /\ \A k \in 1..Len(registered) : registered'[k] = registered[k]
          /\ registered'[Len(registered) + 1] = p
      BY <2>2, <1>4
    <3>2. \A k \in DOMAIN registered' : k \in DOMAIN registered \/ k = Len(registered) + 1
      BY <3>1
    <3>3. QED BY <3>1, <3>2 DEF ToSet
  <2>3. QED BY <2>1, <2>2, <1>2
<1>6. \A a, b \in ToSet(registered)' : a.id = b.id => a = b
  <2>1. \A a, b \in ToSet(registered) : a.id = b.id => a = b
    BY <1>3 DEF RegistryInv
  <2>2. CASE registered' = registered
    BY <2>1, <2>2
  <2>3. CASE \A q \in ToSet(registered) : q.id # p.id
    BY <2>1, <2>3, <1>5
  <2>4. QED BY <2>2, <2>3, <1>2
<1>7. RegistryInv'
  BY <1>1, <1>3, <1>5, <1>6 DEF RegistryInv, Later, Scanning, Steps
<1>8. DetectInv' /\ OrderInv' /\ GatherInv' /\ EndInv'
  BY <1>1 DEF PipelineInv, DetectInv, OrderInv, GatherInv, EndInv, Later, Scanning
<1>9. QED BY <1>7, <1>8 DEF PipelineInv

LEMMA StartScanKeeps ==
  ASSUME PipelineInv, StartScan
  PROVE  PipelineInv'
<1>1. /\ phase = "register" /\ phase' = "detect" /\ repo' = repo /\ lost' = lost /\ done' = done
      /\ allNodes' = allNodes /\ allEdges' = allEdges /\ own' = own
      /\ workspacePackages' = workspacePackages
      /\ registered' = ordered /\ assignment' = [i \in inputs |-> NoOwner]
  BY DEF StartScan
<1>2. RegistryInv /\ done = {}
  BY <1>1 DEF PipelineInv, DetectInv
<1>3. registered \in Seq(Offered) /\ \A p, q \in ToSet(registered) : p.id = q.id => p = q
  BY <1>2 DEF RegistryInv
<1>4. /\ registered' \in Seq(Offered) /\ ToSet(registered)' = ToSet(registered)
      /\ \A k, l \in DOMAIN registered' : k < l => Before(registered'[k], registered'[l])
  <2>1. /\ ordered \in Seq(Offered) /\ ToSet(ordered) = ToSet(registered)
        /\ \A k, l \in DOMAIN ordered : k < l => Before(ordered[k], ordered[l])
    BY <1>3, OrderedLists
  <2>2. ToSet(registered)' = ToSet(ordered)
    BY <1>1
  <2>3. QED BY <2>1, <2>2, <1>1
<1>5. \A l \in lost : l.step = "read"
  BY <1>1, <1>2 DEF RegistryInv, Steps, Later, Scanning
<1>6. RegistryInv'
  BY <1>1, <1>2, <1>3, <1>4, <1>5 DEF RegistryInv, Later, Scanning, Steps
<1>7. inputs' = inputs
  <2> DEFINE none == {}
  <2>1. lost' = lost \cup none /\ \A l \in none : l.step # "read"
    BY <1>1
  <2> HIDE DEF none
  <2>2. QED BY <1>1, <2>1, InputsStay
<1>8. DetectInv'
  <2>1. \A p, f : Lost("detect", p, f) \notin lost
    BY <1>5 DEF Lost
  <2>2. \A i \in inputs : Undetected(i)'
    BY <2>1, <1>1 DEF Undetected
  <2>3. QED BY <2>2, <1>1, <1>2, <1>7 DEF DetectInv, Later, Scanning
<1>9. OrderInv' /\ GatherInv' /\ EndInv'
  BY <1>1 DEF PipelineInv, OrderInv, GatherInv, EndInv, Scanning
<1>10. QED BY <1>6, <1>8, <1>9 DEF PipelineInv

LEMMA DetectKeeps ==
  ASSUME PipelineInv, Detect
  PROVE  PipelineInv'
<1>1. /\ phase = "detect" /\ phase' = phase /\ repo' = repo /\ registered' = registered
      /\ allNodes' = allNodes /\ allEdges' = allEdges /\ own' = own
      /\ workspacePackages' = workspacePackages
  BY DEF Detect
<1>2. PICK i \in inputs \ done : DetectFile(i) /\ done' = done \cup {i}
  BY DEF Detect
<1> DEFINE f == fileAt(i)
<1>3. RegistryInv /\ phase \in Later
  BY <1>1 DEF PipelineInv, Later
<1>4. /\ assignment \in [inputs -> DOMAIN registered \cup {NoOwner}]
      /\ \A j \in inputs : IF j \in done THEN Assigned(j) ELSE Undetected(j)
  BY <1>1 DEF PipelineInv, DetectInv, Later
<1>5. f.size \in Nat /\ \A j \in inputs : j # i => fileAt(j).path # f.path
  BY <1>3, FileOf DEF RegistryInv
<1>6. assignment[i] = NoOwner /\ \A p \in ToSet(registered) : Lost("detect", p.id, f.path) \notin lost
  BY <1>2, <1>4 DEF Undetected
<1>7. registered \in Seq(Offered) /\ \A k \in DOMAIN registered : registered[k] \in ToSet(registered)
  BY <1>3, PluginAt DEF RegistryInv
<1>8. \E o, S :
        /\ o \in DOMAIN registered \cup {NoOwner}
        /\ assignment' = [assignment EXCEPT ![i] = o] /\ lost' = lost \cup S
        /\ \A l \in S : l.step = "detect" /\ l.file = f.path
        /\ o = NoOwner => OwnerIn(f, lost') = None
        /\ o # NoOwner => OwnerIn(f, lost') = registered[o] /\ Claims(registered[o], f)
  <2>1. CASE f.size > MaxBytes
    <3>1. assignment' = assignment /\ lost' = lost
      BY <1>2, <2>1 DEF DetectFile
    <3> DEFINE none == {}
    <3>2. assignment' = [assignment EXCEPT ![i] = NoOwner] /\ lost' = lost \cup none /\ none = {}
      BY <3>1, <1>4, <1>6
    <3>3. {p \in ToSet(registered) : /\ Claims(p, f) /\ f.size <= MaxBytes
                                     /\ Lost("detect", p.id, f.path) \notin lost'} = {}
      BY <2>1, <1>5, ReposAssumption
    <3>4. OwnerIn(f, lost') = None
      BY <3>3 DEF OwnerIn
    <3> HIDE DEF none, f
    <3>5. \A l \in none : l.step = "detect" /\ l.file = f.path
      BY <3>2
    <3> WITNESS NoOwner, none
    <3>6. QED BY <3>2, <3>4, <3>5
  <2>2. CASE ~ (f.size > MaxBytes)
    <3>0. f.size <= MaxBytes
      BY <2>2, <1>5, ReposAssumption
    <3>1. CASE assignment' = [assignment EXCEPT ![i] = Owner(f, {})] /\ lost' = lost
      <4>1. \A k \in DOMAIN registered : k \in {} <=> Lost("detect", registered[k].id, f.path) \in lost
        BY <1>6, <1>7
      <4>2. /\ Owner(f, {}) \in DOMAIN registered \cup {NoOwner}
            /\ Owner(f, {}) = NoOwner => OwnerIn(f, lost) = None
            /\ Owner(f, {}) # NoOwner => /\ OwnerIn(f, lost) = registered[Owner(f, {})]
                                         /\ Claims(registered[Owner(f, {})], f)
        BY <1>3, <3>0, <4>1, OwnerIsFirst
      <4> DEFINE none == {}
      <4>3. lost' = lost \cup none /\ none = {}
        BY <3>1
      <4> HIDE DEF none, f
      <4>4. QED BY <3>1, <4>2, <4>3
    <3>2. CASE \E k \in DOMAIN registered :
                 /\ assignment' = [assignment EXCEPT ![i] = Owner(f, {k})]
                 /\ lost' = lost \cup {Lost("detect", registered[k].id, f.path)}
      <4>1. PICK k \in DOMAIN registered :
              /\ assignment' = [assignment EXCEPT ![i] = Owner(f, {k})]
              /\ lost' = lost \cup {Lost("detect", registered[k].id, f.path)}
        BY <3>2
      <4>2. \A l \in DOMAIN registered : l \in {k} <=> Lost("detect", registered[l].id, f.path) \in lost'
        <5> TAKE l \in DOMAIN registered
        <5>1. Lost("detect", registered[l].id, f.path) \in lost'
                <=> Lost("detect", registered[l].id, f.path) = Lost("detect", registered[k].id, f.path)
          BY <4>1, <1>6, <1>7
        <5>2. Lost("detect", registered[l].id, f.path) = Lost("detect", registered[k].id, f.path)
                <=> registered[l].id = registered[k].id
          BY DEF Lost
        <5>3. QED BY <5>1, <5>2, <1>3, PlacesDiffer
      <4>3. /\ Owner(f, {k}) \in DOMAIN registered \cup {NoOwner}
            /\ Owner(f, {k}) = NoOwner => OwnerIn(f, lost') = None
            /\ Owner(f, {k}) # NoOwner => /\ OwnerIn(f, lost') = registered[Owner(f, {k})]
                                          /\ Claims(registered[Owner(f, {k})], f)
        BY <1>3, <3>0, <4>2, OwnerIsFirst
      <4>4. /\ Lost("detect", registered[k].id, f.path).step = "detect"
            /\ Lost("detect", registered[k].id, f.path).file = f.path
        BY DEF Lost
      <4>5. QED BY <4>1, <4>3, <4>4
    <3>3. QED BY <1>2, <2>2, <3>1, <3>2 DEF DetectFile
  <2>3. QED BY <2>1, <2>2
<1>9. PICK o, S :
        /\ o \in DOMAIN registered \cup {NoOwner}
        /\ assignment' = [assignment EXCEPT ![i] = o] /\ lost' = lost \cup S
        /\ \A l \in S : l.step = "detect" /\ l.file = f.path
        /\ o = NoOwner => OwnerIn(f, lost') = None
        /\ o # NoOwner => OwnerIn(f, lost') = registered[o] /\ Claims(registered[o], f)
  BY <1>8
<1>10. inputs' = inputs /\ \A j : fileAt(j)' = fileAt(j)
  BY <1>1, <1>9, InputsStay
<1>11. RegistryInv'
  BY <1>1, <1>3, <1>9 DEF RegistryInv, Steps, Later, Scanning
<1>12. Assigned(i)'
  <2>1. OwnerOf(f)' = OwnerIn(f, lost')
    BY <1>1, <1>10, OwnerThen
  <2>2. assignment'[i] = o
    BY <1>4, <1>9
  <2>3. fileAt(i)' = f /\ Plug(i)' = registered[o]
    BY <1>1, <1>10, <2>2 DEF Plug
  <2>4. OwnerOf(fileAt(i))' = OwnerIn(f, lost')
    BY <2>1
  <2> HIDE DEF f
  <2>5. QED BY <1>9, <2>2, <2>3, <2>4 DEF Assigned
<1>13. ASSUME NEW j \in inputs, j # i
       PROVE  IF j \in done' THEN Assigned(j)' ELSE Undetected(j)'
  <2>1. assignment'[j] = assignment[j] /\ fileAt(j)' = fileAt(j) /\ Plug(j)' = Plug(j)
    BY <1>1, <1>4, <1>9, <1>10, <1>13 DEF Plug
  <2>2. \A l \in S : l.file # fileAt(j).path
    BY <1>9, <1>5, <1>13
  <2>3. OwnerOf(fileAt(j))' = OwnerOf(fileAt(j))
    BY <1>1, <1>9, <2>1, <2>2, OwnersStay
  <2>4. CASE j \in done
    BY <2>1, <2>3, <2>4, <1>2, <1>4 DEF Assigned
  <2>5. CASE j \notin done
    <3>1. \A p : Lost("detect", p, fileAt(j).path) \notin S
      BY <2>2 DEF Lost
    <3>2. QED BY <1>1, <1>2, <1>4, <1>9, <1>13, <2>1, <2>5, <3>1 DEF Undetected
  <2>6. QED BY <2>4, <2>5
<1>14. DetectInv'
  <2>1. assignment' \in [inputs -> DOMAIN registered \cup {NoOwner}]
    BY <1>4, <1>9
  <2>2. \A j \in inputs' : IF j \in done' THEN Assigned(j)' ELSE Undetected(j)'
    BY <1>2, <1>10, <1>12, <1>13
  <2>3. QED BY <2>1, <2>2, <1>1, <1>10 DEF DetectInv, Later, Scanning
<1>15. OrderInv' /\ GatherInv' /\ EndInv'
  BY <1>1 DEF PipelineInv, OrderInv, GatherInv, EndInv, Scanning
<1>16. QED BY <1>11, <1>14, <1>15 DEF PipelineInv

-----------------------------------------------------------------------------
(* Once the files are assigned                                             *)

\* Once the files are assigned, who scans what is settled.
LEMMA Settled ==
  ASSUME PipelineInv, phase \in Scanning, phase' \in Scanning,
         repo' = repo, registered' = registered, assignment' = assignment,
         NEW S, lost' = lost \cup S, \A l \in S : l.step \in {"scan", "finalize"}
  PROVE  /\ inputs' = inputs /\ Owned' = Owned /\ finalizers' = finalizers
         /\ knownFiles' = knownFiles /\ importTargets' = importTargets
         /\ \A i : fileAt(i)' = fileAt(i) /\ Plug(i)' = Plug(i)
         /\ DetectInv'
<1>1. inputs' = inputs /\ \A i : fileAt(i)' = fileAt(i)
  BY InputsStay
<1>2. \A i : Plug(i)' = Plug(i)
  BY DEF Plug
<1>3. Owned' = Owned /\ finalizers' = finalizers
  BY <1>1 DEF Owned, finalizers
<1>4. knownFiles' = knownFiles /\ importTargets' = importTargets
  BY <1>1, <1>3 DEF knownFiles, importTargets
<1>5. \A i \in inputs : OwnerOf(fileAt(i))' = OwnerOf(fileAt(i))
  <2> TAKE i \in inputs
  <2>1. \A l \in S : l.step # "detect" \/ l.file # fileAt(i).path
    OBVIOUS
  <2>2. QED BY <2>1, <1>1, OwnersStay
<1>6. /\ assignment \in [inputs -> DOMAIN registered \cup {NoOwner}]
      /\ \A i \in inputs : Assigned(i)
  BY DEF PipelineInv, DetectInv, Later, Scanning
<1>7. \A i \in inputs : Assigned(i)'
  BY <1>1, <1>2, <1>5, <1>6 DEF Assigned
<1>8. DetectInv'
  BY <1>1, <1>6, <1>7 DEF DetectInv, Later, Scanning
<1>9. QED BY <1>1, <1>2, <1>3, <1>4, <1>8

\* Only the code plugin looks at the packages known.
LEMMA NamesMatterToCode ==
  ASSUME NEW p, p.kind # "code", NEW f, NEW a, NEW b
  PROVE  ScanOf(p, f, a) = ScanOf(p, f, b)
BY DEF ScanOf

LEMMA GivesThen ==
  ASSUME importTargets' = importTargets, knownFiles' = knownFiles, NEW i,
         fileAt(i)' = fileAt(i), Plug(i)' = Plug(i)
  PROVE  Gives(i)' = validateContribution(ScanOf(Plug(i), fileAt(i), workspacePackages'))
<1>1. PICK p, f, w : p = Plug(i) /\ f = fileAt(i) /\ w = workspacePackages'
  OBVIOUS
<1>2. ScanOf(p, f, w)' = ScanOf(p, f, w)
  BY DEF ScanOf
<1>3. Gives(i)' = validateContribution(ScanOf(p, f, w)')
  BY <1>1 DEF Gives
<1>4. QED BY <1>1, <1>2, <1>3

\* A file that is owned belongs to a plugin that claims it.
LEMMA OwnedIs ==
  ASSUME RegistryInv, DetectInv, phase \in Scanning, NEW i \in Owned
  PROVE  /\ i \in inputs /\ assignment[i] \in DOMAIN registered /\ assignment[i] \in Nat
         /\ Plug(i) \in ToSet(registered) /\ Plug(i) \in Offered
         /\ Claims(Plug(i), fileAt(i)) /\ OwnerOf(fileAt(i)) = Plug(i)
         /\ fileAt(i) \in ToSet(Repos[repo].files)
<1>1. i \in inputs /\ assignment[i] # NoOwner
  BY DEF Owned
<1>2. /\ assignment \in [inputs -> DOMAIN registered \cup {NoOwner}]
      /\ Assigned(i)
  BY <1>1 DEF DetectInv, Later, Scanning
<1>3. assignment[i] \in DOMAIN registered
  BY <1>1, <1>2
<1>4. registered \in Seq(Offered) /\ repo \in DOMAIN Repos
  BY DEF RegistryInv
<1>5. Plug(i) \in ToSet(registered) /\ Plug(i) \in Offered /\ assignment[i] \in Nat
  BY <1>3, <1>4, PluginAt DEF Plug
<1>6. fileAt(i) \in ToSet(Repos[repo].files)
  BY <1>1, <1>4, FileOf
<1>7. QED BY <1>1, <1>2, <1>3, <1>5, <1>6 DEF Assigned


LEMMA UnionAdds ==
  ASSUME NEW g, NEW X, NEW k
  PROVE  UNION {g[l] : l \in X \cup {k}} = (UNION {g[l] : l \in X}) \cup g[k]
OBVIOUS

LEMMA EndDetectKeeps ==
  ASSUME PipelineInv, EndDetect
  PROVE  PipelineInv'
<1>1. /\ phase = "detect" /\ inputs \subseteq done /\ phase' = "scan" /\ done' = {}
      /\ repo' = repo /\ registered' = registered /\ assignment' = assignment /\ lost' = lost
      /\ allNodes' = allNodes /\ allEdges' = allEdges /\ own' = own
      /\ workspacePackages' = workspacePackages
  BY DEF EndDetect
<1>2. RegistryInv
  BY DEF PipelineInv
<1>3. RegistryInv'
  BY <1>1, <1>2 DEF RegistryInv, Steps, Later, Scanning
<1>4. inputs' = inputs /\ (\A i : fileAt(i)' = fileAt(i)) /\ \A f : OwnerOf(f)' = OwnerOf(f)
  <2> DEFINE none == {}
  <2>1. lost' = lost \cup none /\ \A l \in none : l.step # "read" /\ l.step # "detect"
    BY <1>1
  <2> HIDE DEF none
  <2>2. inputs' = inputs /\ (\A i : fileAt(i)' = fileAt(i))
    BY <1>1, <2>1, InputsStay
  <2>3. ASSUME NEW f PROVE OwnerOf(f)' = OwnerOf(f)
    BY <1>1, <2>1, OwnersStay
  <2>4. QED BY <2>2, <2>3
<1>5. DetectInv'
  <2>1. /\ assignment \in [inputs -> DOMAIN registered \cup {NoOwner}]
        /\ \A i \in inputs : Assigned(i)
    BY <1>1 DEF PipelineInv, DetectInv, Later
  <2>2. \A i \in inputs : Assigned(i)'
    <3> TAKE i \in inputs
    <3>1. OwnerOf(fileAt(i))' = OwnerOf(fileAt(i))
      BY <1>4
    <3>2. Plug(i)' = Plug(i)
      BY <1>1 DEF Plug
    <3>3. QED BY <1>1, <1>4, <2>1, <3>1, <3>2 DEF Assigned
  <2>3. QED BY <1>1, <1>4, <2>1, <2>2 DEF DetectInv, Later, Scanning
<1>6. \A p, f : Lost("scan", p, f) \notin lost
  BY <1>1, <1>2 DEF RegistryInv, Steps, Later, Scanning, Lost
<1>7. OrderInv'
  BY <1>1, <1>6 DEF OrderInv, LostAt
<1>8. KeptAt' = {} /\ Finalized' = {}
  BY <1>1 DEF KeptAt, Scanned, Finalized
<1>9. allNodes = <<>> /\ allEdges = {} /\ own = {} /\ workspacePackages = {}
  BY <1>1 DEF PipelineInv, GatherInv, Scanning
<1>10. GatherInv'
  BY <1>1, <1>8, <1>9, EmptySequence DEF GatherInv, Scanning
<1>11. EndInv'
  BY <1>1 DEF EndInv
<1>12. QED BY <1>3, <1>5, <1>7, <1>10, <1>11 DEF PipelineInv

LEMMA EndScanKeeps ==
  ASSUME PipelineInv, EndScan
  PROVE  PipelineInv'
<1>1. /\ phase = "scan" /\ Owned \subseteq done /\ phase' = "finalize" /\ done' = {}
      /\ repo' = repo /\ registered' = registered /\ assignment' = assignment /\ lost' = lost
      /\ allNodes' = allNodes /\ allEdges' = allEdges /\ own' = own
      /\ workspacePackages' = workspacePackages
  BY DEF EndScan
<1>2. RegistryInv /\ phase \in Scanning /\ phase' \in Scanning
  BY <1>1 DEF PipelineInv, Scanning
<1>3. RegistryInv'
  BY <1>1, <1>2 DEF RegistryInv, Steps, Later, Scanning
<1>4. /\ Owned' = Owned /\ finalizers' = finalizers
      /\ knownFiles' = knownFiles /\ importTargets' = importTargets
      /\ \A i : fileAt(i)' = fileAt(i) /\ Plug(i)' = Plug(i)
      /\ DetectInv'
  <2> DEFINE none == {}
  <2>1. lost' = lost \cup none /\ \A l \in none : l.step \in {"scan", "finalize"}
    BY <1>1
  <2> HIDE DEF none
  <2>2. QED BY <1>1, <1>2, <2>1, Settled
<1>5. done = Owned
  BY <1>1 DEF PipelineInv, OrderInv
<1>6. KeptAt' = KeptAt
  BY <1>1, <1>4, <1>5 DEF KeptAt, Scanned, LostAt
<1>7. Finalized = {} /\ Finalized' = {}
  BY <1>1 DEF Finalized
<1>8. \A i : Gives(i)' = Gives(i)
  <2> TAKE i
  <2>1. Gives(i)' = validateContribution(ScanOf(Plug(i), fileAt(i), workspacePackages'))
    BY <1>4, GivesThen
  <2>2. QED BY <1>1, <2>1 DEF Gives
<1>9. GatherInv'
  <2>1. /\ IsSequence(allNodes)
        /\ ToSet(allNodes) = UNION {ToSet(Gives(i).nodes) : i \in KeptAt}
        /\ allEdges = UNION {Gives(i).edges : i \in KeptAt}
        /\ own = {Gives(i).data : i \in {j \in KeptAt : Plug(j).kind = "docs"}}
        /\ workspacePackages = UNION {Labels(fileAt(i)) : i \in {j \in KeptAt : Plug(j).kind = "package"}}
    BY <1>1, <1>2, <1>7 DEF PipelineInv, GatherInv
  <2>2. QED BY <1>1, <1>4, <1>6, <1>7, <1>8, <2>1 DEF GatherInv, Scanning
<1>10. OrderInv'
  BY <1>1 DEF OrderInv
<1>11. EndInv'
  <2>1. \A p, f : Lost("finalize", p, f) \notin lost
    BY <1>1, <1>2 DEF RegistryInv, Steps, Later, Scanning, Lost
  <2>2. QED BY <1>1, <2>1 DEF EndInv, LostFinalize
<1>12. QED BY <1>3, <1>4, <1>9, <1>10, <1>11 DEF PipelineInv

LEMMA FinalizeKeeps ==
  ASSUME PipelineInv, Finalize
  PROVE  PipelineInv'
<1>1. /\ phase = "finalize" /\ phase' = phase /\ repo' = repo /\ registered' = registered
      /\ assignment' = assignment /\ allNodes' = allNodes /\ own' = own
      /\ workspacePackages' = workspacePackages
  BY DEF Finalize
<1>2. PICK k \in finalizers \ done : FinalizePlugin(registered[k]) /\ done' = done \cup {k}
  BY DEF Finalize
<1>3. RegistryInv /\ phase \in Scanning /\ phase \in Later
  BY <1>1 DEF PipelineInv, Scanning, Later
<1> DEFINE gone == Lost("finalize", registered[k].id, NoFile)
<1>4. \E S : /\ lost' = lost \cup S
             /\ \/ S = {} /\ allEdges' = allEdges \cup FinalizeOf(registered[k], allNodes, own)
                \/ S = {gone} /\ allEdges' = allEdges
  <2>1. CASE lost' = lost /\ allEdges' = allEdges \cup FinalizeOf(registered[k], allNodes, own)
    <3> DEFINE none == {}
    <3>1. lost' = lost \cup none /\ none = {}
      BY <2>1
    <3> HIDE DEF none
    <3>2. QED BY <2>1, <3>1
  <2>2. CASE lost' = lost \cup {gone} /\ allEdges' = allEdges
    BY <2>2
  <2>3. QED BY <1>2, <2>1, <2>2 DEF FinalizePlugin
<1>5. PICK S : /\ lost' = lost \cup S
               /\ \/ S = {} /\ allEdges' = allEdges \cup FinalizeOf(registered[k], allNodes, own)
                  \/ S = {gone} /\ allEdges' = allEdges
  BY <1>4
<1>6. \A l \in S : l = gone /\ l.step = "finalize"
  BY <1>5 DEF Lost
<1>7. RegistryInv'
  BY <1>1, <1>3, <1>5, <1>6 DEF RegistryInv, Steps, Later, Scanning
<1>8. /\ Owned' = Owned /\ finalizers' = finalizers
      /\ knownFiles' = knownFiles /\ importTargets' = importTargets
      /\ \A i : fileAt(i)' = fileAt(i) /\ Plug(i)' = Plug(i)
      /\ DetectInv'
  BY <1>1, <1>3, <1>5, <1>6, Settled
<1>9. \A p, f : Lost("scan", p, f) \notin S
  BY <1>6 DEF Lost
<1>10. KeptAt' = KeptAt
  BY <1>1, <1>5, <1>8, <1>9 DEF KeptAt, Scanned, LostAt
<1>11. \A i : Gives(i)' = Gives(i)
  <2> TAKE i
  <2>1. Gives(i)' = validateContribution(ScanOf(Plug(i), fileAt(i), workspacePackages'))
    BY <1>8, GivesThen
  <2>2. QED BY <1>1, <2>1 DEF Gives
<1>12. \A l \in finalizers : l # k => (LostFinalize(l)' <=> LostFinalize(l))
  <2> TAKE l \in finalizers
  <2> HAVE l # k
  <2>1. registered[l].id # registered[k].id
    BY <1>2, <1>3, PlacesDiffer DEF finalizers
  <2>2. Lost("finalize", registered[l].id, NoFile) # gone
    BY <2>1 DEF Lost
  <2>3. QED BY <1>1, <1>5, <1>6, <2>2 DEF LostFinalize
<1>13. ~LostFinalize(k) /\ (LostFinalize(k)' <=> S # {})
  <2>1. ~LostFinalize(k)
    BY <1>1, <1>2 DEF PipelineInv, EndInv
  <2>2. QED BY <1>1, <1>5, <2>1 DEF LostFinalize
<1>14. Finalized' = IF S = {} THEN Finalized \cup {k} ELSE Finalized
  BY <1>1, <1>2, <1>8, <1>12, <1>13 DEF Finalized
<1>15. GatherInv'
  <2>1. /\ IsSequence(allNodes)
        /\ ToSet(allNodes) = UNION {ToSet(Gives(i).nodes) : i \in KeptAt}
        /\ allEdges = (UNION {Gives(i).edges : i \in KeptAt})
                      \cup (UNION {FinalizeOf(registered[l], allNodes, own) : l \in Finalized})
        /\ own = {Gives(i).data : i \in {j \in KeptAt : Plug(j).kind = "docs"}}
        /\ workspacePackages = UNION {Labels(fileAt(i)) : i \in {j \in KeptAt : Plug(j).kind = "package"}}
    BY <1>1, <1>3 DEF PipelineInv, GatherInv
  <2>2. allEdges' = (UNION {Gives(i).edges : i \in KeptAt})
                    \cup (UNION {FinalizeOf(registered[l], allNodes, own) : l \in Finalized'})
    <3> DEFINE from == [l \in finalizers |-> FinalizeOf(registered[l], allNodes, own)]
               scanned == UNION {Gives(i).edges : i \in KeptAt}
               derived == UNION {FinalizeOf(registered[l], allNodes, own) : l \in Finalized}
               then == UNION {FinalizeOf(registered[l], allNodes, own) : l \in Finalized'}
    <3>1. Finalized \subseteq finalizers /\ Finalized' \subseteq finalizers
      BY <1>2, <1>14 DEF Finalized
    <3>2. \A l \in finalizers : from[l] = FinalizeOf(registered[l], allNodes, own)
      OBVIOUS
    <3> HIDE DEF from
    <3>3. derived = UNION {from[l] : l \in Finalized} /\ then = UNION {from[l] : l \in Finalized'}
      <4>1. {FinalizeOf(registered[l], allNodes, own) : l \in Finalized} = {from[l] : l \in Finalized}
        BY <3>1, <3>2
      <4>2. {FinalizeOf(registered[l], allNodes, own) : l \in Finalized'} = {from[l] : l \in Finalized'}
        BY <3>1, <3>2
      <4> DEFINE a == {FinalizeOf(registered[l], allNodes, own) : l \in Finalized}
                 b == {FinalizeOf(registered[l], allNodes, own) : l \in Finalized'}
                 c == {from[l] : l \in Finalized}
                 d == {from[l] : l \in Finalized'}
      <4>3. derived = UNION a /\ then = UNION b /\ a = c /\ b = d
        BY <4>1, <4>2, Zenon
      <4>4. derived = UNION c /\ then = UNION d
        <5> HIDE DEF derived, then, a, b, c, d
        <5>1. QED BY <4>3
      <4>5. QED BY <4>4, Zenon
    <3>4. allEdges = scanned \cup derived
      BY <2>1
    <3>5. \/ S = {} /\ allEdges' = allEdges \cup from[k] /\ Finalized' = Finalized \cup {k}
          \/ allEdges' = allEdges /\ Finalized' = Finalized
      <4>1. from[k] = FinalizeOf(registered[k], allNodes, own)
        BY <1>2, <3>2
      <4>2. CASE S = {} /\ allEdges' = allEdges \cup FinalizeOf(registered[k], allNodes, own)
        <5>1. Finalized' = Finalized \cup {k}
          BY <4>2, <1>14
        <5>2. QED BY <4>1, <4>2, <5>1
      <4>3. CASE S = {gone} /\ allEdges' = allEdges
        <5>1. S # {}
          BY <4>3
        <5>2. Finalized' = Finalized
          BY <5>1, <1>14
        <5>3. QED BY <4>3, <5>2
      <4>4. QED BY <1>5, <4>2, <4>3
    <3> HIDE DEF scanned, derived, then
    <3>6. allEdges' = scanned \cup then
      <4>1. CASE allEdges' = allEdges \cup from[k] /\ Finalized' = Finalized \cup {k}
        <5>1. then = derived \cup from[k]
          BY <4>1, <3>3, UnionAdds
        <5>2. QED BY <4>1, <5>1, <3>4
      <4>2. CASE allEdges' = allEdges /\ Finalized' = Finalized
        BY <4>2, <3>3, <3>4
      <4>3. QED BY <3>5, <4>1, <4>2
    <3>7. QED BY <3>6 DEF scanned, then
  <2>3. QED BY <1>1, <1>3, <1>8, <1>10, <1>11, <2>1, <2>2 DEF GatherInv
<1>16. OrderInv'
  BY <1>1 DEF OrderInv
<1>17. EndInv'
  <2>1. \A l \in finalizers \ done : ~LostFinalize(l)
    BY <1>1 DEF PipelineInv, EndInv
  <2>2. QED BY <1>1, <1>2, <1>8, <1>12, <2>1 DEF EndInv
<1>18. QED BY <1>7, <1>8, <1>15, <1>16, <1>17 DEF PipelineInv

LEMMA BuildKeeps ==
  ASSUME PipelineInv, Build
  PROVE  PipelineInv'
<1>1. /\ phase = "finalize" /\ finalizers \subseteq done /\ phase' = "done" /\ done' = done
      /\ repo' = repo /\ registered' = registered /\ assignment' = assignment /\ lost' = lost
      /\ allNodes' = allNodes /\ allEdges' = allEdges /\ own' = own
      /\ workspacePackages' = workspacePackages /\ graph' = buildGraph(allNodes, allEdges)
  BY DEF Build
<1>2. RegistryInv /\ phase \in Scanning /\ phase' \in Scanning
  BY <1>1 DEF PipelineInv, Scanning
<1>3. RegistryInv'
  BY <1>1, <1>2 DEF RegistryInv, Steps, Later, Scanning
<1>4. /\ Owned' = Owned /\ finalizers' = finalizers
      /\ knownFiles' = knownFiles /\ importTargets' = importTargets
      /\ \A i : fileAt(i)' = fileAt(i) /\ Plug(i)' = Plug(i)
      /\ DetectInv'
  <2> DEFINE none == {}
  <2>1. lost' = lost \cup none /\ \A l \in none : l.step \in {"scan", "finalize"}
    BY <1>1
  <2> HIDE DEF none
  <2>2. QED BY <1>1, <1>2, <2>1, Settled
<1>5. KeptAt' = KeptAt /\ Finalized' = Finalized
  BY <1>1, <1>4 DEF KeptAt, Scanned, LostAt, Finalized, LostFinalize
<1>6. \A i : Gives(i)' = Gives(i)
  <2> TAKE i
  <2>1. Gives(i)' = validateContribution(ScanOf(Plug(i), fileAt(i), workspacePackages'))
    BY <1>4, GivesThen
  <2>2. QED BY <1>1, <2>1 DEF Gives
<1>7. GatherInv'
  BY <1>1, <1>2, <1>4, <1>5, <1>6 DEF PipelineInv, GatherInv
<1>8. OrderInv' /\ EndInv'
  BY <1>1, <1>4 DEF OrderInv, EndInv
<1>9. QED BY <1>3, <1>4, <1>7, <1>8 DEF PipelineInv

-----------------------------------------------------------------------------
(* Scanning a file                                                         *)

\* A file that is scanned adds what its owner gives for it, or nothing.
LEMMA ScannedAdds ==
  ASSUME PipelineInv, phase = "scan", NEW i \in Owned, ScanFile(Plug(i), fileAt(i))
  PROVE  \E S :
           /\ lost' = lost \cup S
           /\ \/ S = {} /\ Accumulate(Plug(i), ScanOf(Plug(i), fileAt(i), workspacePackages))
              \/ /\ S = {Lost("scan", Plug(i).id, fileAt(i).path)}
                 /\ IsSequence(allNodes') /\ ToSet(allNodes)' = ToSet(allNodes)
                 /\ allEdges' = allEdges /\ own' = own /\ workspacePackages' = workspacePackages
<1> DEFINE gone == Lost("scan", Plug(i).id, fileAt(i).path)
<1>1. IsSequence(allNodes)
  BY DEF PipelineInv, GatherInv, Scanning
<1>2. CASE /\ Accumulate(Plug(i), ScanOf(Plug(i), fileAt(i), workspacePackages))
           /\ lost' = lost
  <2> DEFINE none == {}
  <2>1. lost' = lost \cup none /\ none = {}
    BY <1>2
  <2> HIDE DEF none
  <2>2. QED BY <1>2, <2>1
<1>3. CASE /\ lost' = lost \cup {gone}
           /\ UNCHANGED <<allNodes, allEdges, own, workspacePackages>>
  <2> DEFINE S == {gone}
  <2>1. lost' = lost \cup S /\ S = {gone}
    BY <1>3
  <2>2. IsSequence(allNodes') /\ ToSet(allNodes)' = ToSet(allNodes)
    BY <1>1, <1>3
  <2> HIDE DEF S
  <2>3. QED BY <1>3, <2>1, <2>2
<1>4. CASE Accumulate(Plug(i), Nothing) /\ lost' = lost \cup {gone}
  <2> DEFINE c == validateContribution(Nothing)
  <2>1. /\ allNodes' = allNodes \o c.nodes
        /\ allEdges' = allEdges \cup c.edges
        /\ own' = own \cup {d \in {c.data} : Plug(i).kind = "docs" /\ d # NoData}
        /\ workspacePackages' = workspacePackages \cup {n.label : n \in PackageNodes(c.nodes)}
    BY <1>4 DEF Accumulate
  <2>2. IsSequence(c.nodes) /\ ToSet(c.nodes) = {} /\ c.edges = {} /\ c.data = NoData
    BY NothingValidated
  <2>3. PackageNodes(c.nodes) = {}
    BY <2>2 DEF PackageNodes
  <2> HIDE DEF c
  <2>4. IsSequence(allNodes') /\ ToSet(allNodes') = ToSet(allNodes)
    <3>1. /\ IsSequence(allNodes \o c.nodes)
          /\ ToSet(allNodes \o c.nodes) = ToSet(allNodes) \cup ToSet(c.nodes)
      BY <1>1, <2>2, Joins
    <3>2. QED BY <3>1, <2>1, <2>2
  <2>5. {d \in {c.data} : Plug(i).kind = "docs" /\ d # NoData} = {}
    BY <2>2
  <2>6. {n.label : n \in PackageNodes(c.nodes)} = {}
    BY <2>3
  <2>7. allEdges' = allEdges /\ own' = own /\ workspacePackages' = workspacePackages
    BY <2>1, <2>2, <2>5, <2>6
  <2> DEFINE S == {gone}
  <2>8. lost' = lost \cup S /\ S = {gone}
    BY <1>4
  <2> HIDE DEF S
  <2>9. QED BY <2>4, <2>7, <2>8
<1>5. QED BY <1>2, <1>3, <1>4 DEF ScanFile

LEMMA ScanKeeps ==
  ASSUME PipelineInv, Scan
  PROVE  PipelineInv'
<1>1. /\ phase = "scan" /\ phase' = phase /\ repo' = repo /\ registered' = registered
      /\ assignment' = assignment
  BY DEF Scan
<1>2. PICK i \in Owned \ done : /\ \A j \in Owned \ done : ScansFirst(i, j)
                                /\ ScanFile(registered[assignment[i]], fileAt(i))
                                /\ done' = done \cup {i}
  BY DEF Scan
<1> DEFINE p == Plug(i)
           f == fileAt(i)
           gone == Lost("scan", p.id, f.path)
           c == validateContribution(ScanOf(p, f, workspacePackages))
<1>3. RegistryInv /\ DetectInv /\ phase \in Scanning /\ phase \in Later
  BY <1>1 DEF PipelineInv, Scanning, Later
<1>4. PICK S : /\ lost' = lost \cup S
               /\ \/ S = {} /\ Accumulate(p, ScanOf(p, f, workspacePackages))
                  \/ /\ S = {gone}
                     /\ IsSequence(allNodes') /\ ToSet(allNodes)' = ToSet(allNodes)
                     /\ allEdges' = allEdges /\ own' = own /\ workspacePackages' = workspacePackages
  <2>1. ScanFile(Plug(i), fileAt(i))
    BY <1>2 DEF Plug
  <2>2. QED BY <1>1, <1>2, <2>1, ScannedAdds
<1>5. \A l \in S : l = gone /\ l.step = "scan" /\ l.file = f.path
  BY <1>4 DEF Lost
<1>6. RegistryInv'
  BY <1>1, <1>3, <1>4, <1>5 DEF RegistryInv, Steps, Later, Scanning
<1>7. /\ inputs' = inputs /\ Owned' = Owned /\ finalizers' = finalizers
      /\ knownFiles' = knownFiles /\ importTargets' = importTargets
      /\ \A j : fileAt(j)' = fileAt(j) /\ Plug(j)' = Plug(j)
      /\ DetectInv'
  <2>1. \A l \in S : l.step \in {"scan", "finalize"}
    BY <1>5
  <2>2. QED BY <1>1, <1>3, <1>4, <2>1, Settled
<1>8. /\ done \subseteq Owned
      /\ \A j \in done, k \in Owned \ done : assignment[j] <= assignment[k]
      /\ \A j \in Owned \ done : ~LostAt("scan", j)
  BY <1>1 DEF PipelineInv, OrderInv
<1>9. \A j \in Owned : j # i => (LostAt("scan", j)' <=> LostAt("scan", j))
  <2> TAKE j \in Owned
  <2> HAVE j # i
  <2>1. fileAt(j).path # f.path
    BY <1>2, <1>3, FileOf DEF RegistryInv, Owned
  <2>2. Lost("scan", Plug(j).id, fileAt(j).path) \notin S
    BY <1>5, <2>1 DEF Lost
  <2>3. QED BY <1>4, <1>7, <2>2 DEF LostAt
<1>10. LostAt("scan", i)' <=> S # {}
  BY <1>2, <1>4, <1>7, <1>8 DEF LostAt
<1>11. KeptAt' = IF S = {} THEN KeptAt \cup {i} ELSE KeptAt
  <2>1. KeptAt = {j \in done : ~LostAt("scan", j)}
    BY <1>1 DEF KeptAt, Scanned
  <2>2. KeptAt' = {j \in done \cup {i} : ~LostAt("scan", j)'}
    BY <1>1, <1>2 DEF KeptAt, Scanned
  <2>3. \A j \in done : j # i /\ j \in Owned
    BY <1>2, <1>8
  <2>4. QED BY <2>1, <2>2, <2>3, <1>9, <1>10
<1>12. /\ IsSequence(allNodes)
       /\ ToSet(allNodes) = UNION {ToSet(Gives(j).nodes) : j \in KeptAt}
       /\ allEdges = UNION {Gives(j).edges : j \in KeptAt}
       /\ own = {Gives(j).data : j \in {k \in KeptAt : Plug(k).kind = "docs"}}
       /\ workspacePackages = UNION {Labels(fileAt(j)) : j \in {k \in KeptAt : Plug(k).kind = "package"}}
       /\ Finalized' = {}
  <2>1. Finalized = {} /\ Finalized' = {}
    BY <1>1 DEF Finalized
  <2>2. QED BY <1>1, <1>3, <2>1 DEF PipelineInv, GatherInv
<1>13. KeptAt \subseteq done
  BY <1>1 DEF KeptAt, Scanned
<1>14. \A j : Gives(j)' = validateContribution(ScanOf(Plug(j), fileAt(j), workspacePackages'))
  BY <1>7, GivesThen
<1>15. ASSUME S # {} PROVE GatherInv'
  <2>1. /\ KeptAt' = KeptAt
        /\ IsSequence(allNodes') /\ ToSet(allNodes)' = ToSet(allNodes)
        /\ allEdges' = allEdges /\ own' = own /\ workspacePackages' = workspacePackages
    BY <1>4, <1>11, <1>15
  <2>2. \A j : Gives(j)' = Gives(j)
    BY <1>14, <2>1 DEF Gives
  <2>3. QED BY <1>1, <1>3, <1>7, <1>12, <2>1, <2>2 DEF GatherInv
<1>16. ASSUME S = {} PROVE GatherInv'
  <2>1. /\ KeptAt' = KeptAt \cup {i}
        /\ allNodes' = allNodes \o c.nodes
        /\ allEdges' = allEdges \cup c.edges
        /\ own' = own \cup {d \in {c.data} : p.kind = "docs" /\ d # NoData}
        /\ workspacePackages' = workspacePackages \cup {n.label : n \in PackageNodes(c.nodes)}
    <3>1. Accumulate(p, ScanOf(p, f, workspacePackages))
      BY <1>4, <1>16
    <3>2. QED BY <3>1, <1>11, <1>16 DEF Accumulate
  <2>2. /\ p \in Offered /\ Claims(p, f) /\ f \in ToSet(Repos[repo].files) /\ repo \in DOMAIN Repos
        /\ assignment[i] \in DOMAIN registered /\ assignment[i] \in Nat
    BY <1>2, <1>3, OwnedIs DEF RegistryInv
  <2>3. /\ IsSequence(ScanOf(p, f, workspacePackages).nodes)
        /\ p.kind # "package" => Plain(ScanOf(p, f, workspacePackages).nodes)
        /\ p.kind = "package" => \A n \in ToSet(ScanOf(p, f, workspacePackages).nodes) : n.type = "package"
        /\ p.kind = "docs" => ScanOf(p, f, workspacePackages).data # NoData
    <3> HIDE DEF p, f
    <3>1. QED BY <2>2, Given
  <2>4. /\ IsSequence(c.nodes) /\ ToSet(c.nodes) \subseteq ToSet(ScanOf(p, f, workspacePackages).nodes)
        /\ c.data = ScanOf(p, f, workspacePackages).data
    BY <2>3, Validated
  <2>5. /\ p.kind # "package" => PackageNodes(c.nodes) = {}
        /\ p.kind = "package" => PackageNodes(c.nodes) = ToSet(c.nodes)
    BY <2>3, <2>4 DEF PackageNodes, Plain
  <2>6. p.kind # "package" => workspacePackages' = workspacePackages
    <3> HIDE DEF p, c
    <3>1. SUFFICES ASSUME p.kind # "package" PROVE workspacePackages' = workspacePackages
      OBVIOUS
    <3>2. {n.label : n \in PackageNodes(c.nodes)} = {}
      BY <2>5, <3>1
    <3>3. QED BY <2>1, <3>2
  <2>7. p.kind = "package" => workspacePackages' = workspacePackages \cup Labels(f)
    <3>1. SUFFICES ASSUME p.kind = "package" PROVE workspacePackages' = workspacePackages \cup Labels(f)
      OBVIOUS
    <3>2. ScanOf(p, f, workspacePackages) = scanPackageJson(f)
      BY <3>1 DEF ScanOf
    <3>3. Labels(f) = {n.label : n \in ToSet(c.nodes)}
      BY <3>2 DEF Labels
    <3> HIDE DEF p, c, f
    <3>4. QED BY <2>1, <2>5, <3>1, <3>3
  <2>8. Gives(i)' = c
    <3>1. Gives(i)' = validateContribution(ScanOf(p, f, workspacePackages'))
      BY <1>14
    <3>2. CASE p.kind = "package"
      BY <3>1, <3>2, NamesMatterToCode
    <3>3. CASE p.kind # "package"
      BY <3>1, <3>3, <2>6
    <3>4. QED BY <3>2, <3>3
  <2>9. \A j \in KeptAt : Gives(j)' = Gives(j)
    <3> TAKE j \in KeptAt
    <3>1. Gives(j)' = validateContribution(ScanOf(Plug(j), fileAt(j), workspacePackages'))
      BY <1>14
    <3>2. CASE p.kind = "package"
      <4>1. j \in done /\ j \in Owned
        BY <1>8, <1>13
      <4>2. assignment[j] <= assignment[i]
        BY <4>1, <1>2, <1>8
      <4>3. Plug(j) \in Offered /\ assignment[j] \in DOMAIN registered /\ assignment[j] \in Nat
        BY <4>1, <1>3, OwnedIs
      <4>4. Plug(j).kind # "code"
        <5>1. SUFFICES ASSUME Plug(j).kind = "code" PROVE FALSE
          OBVIOUS
        <5>2. Before(p, Plug(j))
          BY <2>2, <3>2, <4>3, <5>1, OfferedAssumption DEF Before
        <5>3. assignment[i] < assignment[j]
          BY <1>3, <2>2, <4>3, <5>2, PlacesFollow DEF Plug
        <5>4. QED BY <5>3, <4>2, <4>3, <2>2
      <4>5. ScanOf(Plug(j), fileAt(j), workspacePackages') = ScanOf(Plug(j), fileAt(j), workspacePackages)
        BY <4>4, NamesMatterToCode
      <4>6. QED BY <3>1, <4>5 DEF Gives
    <3>3. CASE p.kind # "package"
      BY <3>1, <3>3, <2>6 DEF Gives
    <3>4. QED BY <3>2, <3>3
  <2> DEFINE now == [j \in KeptAt \cup {i} |-> Gives(j)']
  <2>10. /\ \A j \in KeptAt : now[j] = Gives(j)
         /\ \A j \in KeptAt \cup {i} : now[j] = Gives(j)'
         /\ now[i] = c
    BY <2>8, <2>9
  <2>11. IsSequence(allNodes') /\ ToSet(allNodes') = ToSet(allNodes) \cup ToSet(c.nodes)
    <3> HIDE DEF c
    <3>1. QED BY <1>12, <2>1, <2>4, Joins
  <2> HIDE DEF now, c
  <2>12. ToSet(allNodes') = UNION {ToSet(Gives(j)'.nodes) : j \in KeptAt \cup {i}}
    <3>1. {ToSet(Gives(j)'.nodes) : j \in KeptAt \cup {i}}
            = {ToSet(Gives(j).nodes) : j \in KeptAt} \cup {ToSet(c.nodes)}
      BY <2>8, <2>9
    <3> DEFINE all == {ToSet(Gives(j).nodes) : j \in KeptAt}
               one == ToSet(c.nodes)
               new == {ToSet(Gives(j)'.nodes) : j \in KeptAt \cup {i}}
    <3>2. new = all \cup {one} /\ ToSet(allNodes) = UNION all /\ ToSet(allNodes') = ToSet(allNodes) \cup one
      BY <1>12, <2>11, <3>1
    <3> HIDE DEF all, one, new
    <3>3. ToSet(allNodes') = UNION new
      BY <3>2
    <3>4. QED BY <3>3 DEF new
  <2>13. allEdges' = UNION {Gives(j)'.edges : j \in KeptAt \cup {i}}
    <3>1. {Gives(j)'.edges : j \in KeptAt \cup {i}}
            = {Gives(j).edges : j \in KeptAt} \cup {c.edges}
      BY <2>8, <2>9
    <3> DEFINE all == {Gives(j).edges : j \in KeptAt}
               one == c.edges
               new == {Gives(j)'.edges : j \in KeptAt \cup {i}}
    <3>2. new = all \cup {one} /\ allEdges = UNION all /\ allEdges' = allEdges \cup one
      BY <1>12, <2>1, <3>1
    <3> HIDE DEF all, one, new
    <3>3. allEdges' = UNION new
      BY <3>2
    <3>4. QED BY <3>3 DEF new
  <2>14. own' = {Gives(j)'.data : j \in {k \in KeptAt \cup {i} : Plug(k).kind = "docs"}}
    <3> DEFINE docs == {k \in KeptAt : Plug(k).kind = "docs"}
               then == {k \in KeptAt \cup {i} : Plug(k).kind = "docs"}
    <3>1. own = {Gives(j).data : j \in docs} /\ docs \subseteq KeptAt
      BY <1>12
    <3>2. CASE p.kind = "docs"
      <4>1. then = docs \cup {i}
        BY <3>2
      <4>2. own' = own \cup {c.data}
        BY <2>1, <2>3, <2>4, <3>2
      <4> HIDE DEF docs, then
      <4>3. {Gives(j)'.data : j \in then} = {Gives(j).data : j \in docs} \cup {c.data}
        BY <2>8, <2>9, <3>1, <4>1
      <4>4. QED BY <3>1, <4>2, <4>3 DEF then
    <3>3. CASE p.kind # "docs"
      <4>1. then = docs
        BY <3>3
      <4>2. own' = own
        <5>1. {d \in {c.data} : p.kind = "docs" /\ d # NoData} = {}
          BY <3>3
        <5>2. QED BY <2>1, <5>1
      <4> HIDE DEF docs, then
      <4>3. {Gives(j)'.data : j \in then} = {Gives(j).data : j \in docs}
        BY <2>9, <3>1, <4>1
      <4>4. QED BY <3>1, <4>2, <4>3 DEF then
    <3>4. QED BY <3>2, <3>3
  <2>15. workspacePackages'
           = UNION {Labels(fileAt(j)) : j \in {k \in KeptAt \cup {i} : Plug(k).kind = "package"}}
    <3> DEFINE pkgs == {k \in KeptAt : Plug(k).kind = "package"}
               then == {k \in KeptAt \cup {i} : Plug(k).kind = "package"}
               labels == [k \in Owned |-> Labels(fileAt(k))]
    <3>0. KeptAt \subseteq Owned /\ i \in Owned
      BY <1>2, <1>8, <1>13
    <3>1. workspacePackages = UNION {Labels(fileAt(j)) : j \in pkgs} /\ pkgs \subseteq Owned
      BY <1>12, <3>0
    <3>2. CASE p.kind = "package"
      <4>1. then = pkgs \cup {i}
        BY <3>2
      <4> HIDE DEF pkgs, then
      <4>2. {Labels(fileAt(j)) : j \in then} = {Labels(fileAt(j)) : j \in pkgs} \cup {Labels(f)}
        BY <4>1
      <4> DEFINE all == {Labels(fileAt(j)) : j \in pkgs}
                 one == Labels(f)
                 new == {Labels(fileAt(j)) : j \in then}
      <4>3. new = all \cup {one} /\ workspacePackages = UNION all
            /\ workspacePackages' = workspacePackages \cup one
        BY <2>7, <3>1, <3>2, <4>2
      <4> HIDE DEF all, one, new
      <4>4. workspacePackages' = UNION new
        BY <4>3
      <4>5. QED BY <4>4 DEF new, then
    <3>3. CASE p.kind # "package"
      <4>1. then = pkgs
        BY <3>3
      <4>2. workspacePackages' = workspacePackages
        BY <2>6, <3>3
      <4>3. QED BY <1>12, <4>1, <4>2
    <3>4. QED BY <3>2, <3>3
  <2>16. /\ ToSet(allNodes)' = ToSet(allNodes')
         /\ \A j : Labels(fileAt(j))' = Labels(fileAt(j))
    BY <1>7 DEF Labels
  <2>17. ToSet(allNodes)' = UNION {ToSet(Gives(j).nodes)' : j \in KeptAt'}
    BY <2>1, <2>12, <2>16
  <2>18. /\ allEdges' = UNION {Gives(j)'.edges : j \in KeptAt'}
         /\ Finalized' = {}
    BY <1>12, <2>1, <2>13
  <2>19. /\ own' = {Gives(j)'.data : j \in {k \in KeptAt' : Plug(k)'.kind = "docs"}}
         /\ workspacePackages'
              = UNION {Labels(fileAt(j))' : j \in {k \in KeptAt' : Plug(k)'.kind = "package"}}
    <3>1. /\ {k \in KeptAt' : Plug(k)'.kind = "docs"} = {k \in KeptAt \cup {i} : Plug(k).kind = "docs"}
          /\ {k \in KeptAt' : Plug(k)'.kind = "package"} = {k \in KeptAt \cup {i} : Plug(k).kind = "package"}
      BY <1>7, <2>1
    <3>2. own' = {Gives(j)'.data : j \in {k \in KeptAt' : Plug(k)'.kind = "docs"}}
      BY <2>14, <3>1
    <3> DEFINE theirs == {Labels(fileAt(j)) : j \in {k \in KeptAt \cup {i} : Plug(k).kind = "package"}}
               then == {Labels(fileAt(j))' : j \in {k \in KeptAt' : Plug(k)'.kind = "package"}}
    <3>3. theirs = then
      BY <2>16, <3>1
    <3>4. workspacePackages' = UNION theirs
      BY <2>15
    <3> HIDE DEF theirs, then
    <3>5. workspacePackages' = UNION then
      BY <3>3, <3>4
    <3>6. QED BY <3>2, <3>5 DEF then
  <2>20. (UNION {FinalizeOf(registered[k], allNodes, own) : k \in Finalized})' = {}
    BY <2>18
  <2>21. allEdges' = ((UNION {Gives(j).edges : j \in KeptAt})
                      \cup (UNION {FinalizeOf(registered[k], allNodes, own) : k \in Finalized}))'
    <3>1. (UNION {Gives(j).edges : j \in KeptAt})' = UNION {Gives(j)'.edges : j \in KeptAt'}
      OBVIOUS
    <3>2. QED BY <2>18, <2>20, <3>1
  <2>22. phase' \in Scanning /\ IsSequence(allNodes)'
    BY <1>1, <1>3, <2>11
  <2>23. QED BY <2>17, <2>19, <2>21, <2>22 DEF GatherInv
<1>17. OrderInv'
  <2>1. done' \subseteq Owned
    BY <1>2, <1>8
  <2>2. \A j \in done', k \in Owned \ done' : assignment[j] <= assignment[k]
    <3> TAKE j \in done', k \in Owned \ done'
    <3>1. k \in Owned \ done
      BY <1>2
    <3>2. CASE j \in done
      BY <3>1, <3>2, <1>8
    <3>3. CASE j = i
      <4>1. assignment[k] \in Nat /\ assignment[i] \in Nat
        BY <1>2, <1>3, <3>1, OwnedIs
      <4>2. ScansFirst(i, k)
        BY <1>2, <3>1
      <4>3. QED BY <3>3, <4>1, <4>2 DEF ScansFirst
    <3>4. QED BY <1>2, <3>2, <3>3
  <2>3. \A j \in Owned \ done' : ~LostAt("scan", j)'
    BY <1>2, <1>8, <1>9
  <2>4. QED BY <1>1, <1>7, <2>1, <2>2, <2>3 DEF OrderInv
<1>18. EndInv'
  BY <1>1 DEF EndInv
<1>19. QED BY <1>6, <1>7, <1>15, <1>16, <1>17, <1>18 DEF PipelineInv

-----------------------------------------------------------------------------
(* The results of a scan                                                   *)

LEMMA PipelineStutters ==
  ASSUME PipelineInv, UNCHANGED pipelineVars
  PROVE  PipelineInv'
<1>1. /\ phase' = phase /\ repo' = repo /\ registered' = registered /\ assignment' = assignment
      /\ lost' = lost /\ done' = done /\ allNodes' = allNodes /\ allEdges' = allEdges
      /\ own' = own /\ workspacePackages' = workspacePackages /\ graph' = graph
  BY DEF pipelineVars
<1>2. RegistryInv /\ DetectInv /\ OrderInv /\ GatherInv /\ EndInv
  BY DEF PipelineInv
<1>3. RegistryInv'
  BY <1>1, <1>2 DEF RegistryInv, Steps, Later, Scanning
<1>4. CASE phase \in Scanning
  <2>1. /\ Owned' = Owned /\ finalizers' = finalizers
        /\ knownFiles' = knownFiles /\ importTargets' = importTargets
        /\ \A i : fileAt(i)' = fileAt(i) /\ Plug(i)' = Plug(i)
        /\ DetectInv'
    <3> DEFINE none == {}
    <3>1. lost' = lost \cup none /\ \A l \in none : l.step \in {"scan", "finalize"}
      BY <1>1
    <3> HIDE DEF none
    <3>2. QED BY <1>1, <1>4, <3>1, Settled
  <2>2. KeptAt' = KeptAt /\ Finalized' = Finalized /\ \A k : LostFinalize(k)' <=> LostFinalize(k)
    BY <1>1, <2>1 DEF KeptAt, Scanned, LostAt, Finalized, LostFinalize
  <2>3. \A i : Gives(i)' = Gives(i)
    <3> TAKE i
    <3>1. Gives(i)' = validateContribution(ScanOf(Plug(i), fileAt(i), workspacePackages'))
      BY <2>1, GivesThen
    <3>2. QED BY <1>1, <3>1 DEF Gives
  <2>4. GatherInv'
    BY <1>1, <1>2, <1>4, <2>1, <2>2, <2>3 DEF GatherInv
  <2>5. OrderInv'
    BY <1>1, <1>2, <2>1 DEF OrderInv, LostAt
  <2>6. EndInv'
    BY <1>1, <1>2, <2>1, <2>2 DEF EndInv
  <2>7. QED BY <1>3, <2>1, <2>4, <2>5, <2>6 DEF PipelineInv
<1>5. CASE phase \notin Scanning
  <2>1. OrderInv' /\ GatherInv' /\ EndInv'
    BY <1>1, <1>2, <1>5 DEF OrderInv, GatherInv, EndInv, Scanning
  <2>2. inputs' = inputs /\ (\A i : fileAt(i)' = fileAt(i)) /\ \A f : OwnerOf(f)' = OwnerOf(f)
    <3> DEFINE none == {}
    <3>1. lost' = lost \cup none /\ \A l \in none : l.step # "read" /\ l.step # "detect"
      BY <1>1
    <3> HIDE DEF none
    <3>2. inputs' = inputs /\ (\A i : fileAt(i)' = fileAt(i))
      BY <1>1, <3>1, InputsStay
    <3>3. ASSUME NEW f PROVE OwnerOf(f)' = OwnerOf(f)
      BY <1>1, <3>1, OwnersStay
    <3>4. QED BY <3>2, <3>3
  <2>3. \A i : (Assigned(i)' <=> Assigned(i)) /\ (Undetected(i)' <=> Undetected(i))
    <3> TAKE i
    <3>1. OwnerOf(fileAt(i))' = OwnerOf(fileAt(i)) /\ fileAt(i)' = fileAt(i) /\ Plug(i)' = Plug(i)
      BY <1>1, <2>2 DEF Plug
    <3>2. Assigned(i)' <=> Assigned(i)
      BY <1>1, <3>1 DEF Assigned
    <3>3. Undetected(i)' <=> Undetected(i)
      BY <1>1, <3>1 DEF Undetected
    <3>4. QED BY <3>2, <3>3
  <2>4. DetectInv'
    BY <1>1, <1>2, <2>2, <2>3 DEF DetectInv
  <2>5. QED BY <1>3, <2>1, <2>4 DEF PipelineInv
<1>6. QED BY <1>4, <1>5

\* At every step of a scan a file's owner is its rightful one, and what has been
\* gathered is what the owners of the files scanned so far give.
THEOREM PipelineKept == PipelineSpec => []PipelineInv
<1>1. PipelineInit => PipelineInv
  BY PipelineStarts
<1>2. ASSUME PipelineInv, [PipelineNext]_pipelineVars PROVE PipelineInv'
  <2>1. CASE \E p \in Offered : Register(p)
    BY <1>2, <2>1, RegisterKeeps
  <2>2. CASE StartScan
    BY <1>2, <2>2, StartScanKeeps
  <2>3. CASE Detect
    BY <1>2, <2>3, DetectKeeps
  <2>4. CASE EndDetect
    BY <1>2, <2>4, EndDetectKeeps
  <2>5. CASE Scan
    BY <1>2, <2>5, ScanKeeps
  <2>6. CASE EndScan
    BY <1>2, <2>6, EndScanKeeps
  <2>7. CASE Finalize
    BY <1>2, <2>7, FinalizeKeeps
  <2>8. CASE Build
    BY <1>2, <2>8, BuildKeeps
  <2>9. CASE UNCHANGED pipelineVars
    BY <1>2, <2>9, PipelineStutters
  <2>10. QED BY <1>2, <2>1, <2>2, <2>3, <2>4, <2>5, <2>6, <2>7, <2>8, <2>9 DEF PipelineNext
<1>3. QED BY <1>1, <1>2, PTL DEF PipelineSpec

\* When a scan is done, what is kept is what was kept on the way.
LEMMA FilesKept ==
  ASSUME PipelineInv, phase = "done"
  PROVE  /\ KeptFiles = {fileAt(i) : i \in KeptAt}
         /\ \A kind : KeptBy(kind) = {fileAt(i) : i \in {j \in KeptAt : Plug(j).kind = kind}}
         /\ PackageNames = workspacePackages
         /\ \A i \in KeptAt : ContributionOf(fileAt(i)) = Gives(i)
<1>1. RegistryInv /\ DetectInv /\ GatherInv /\ phase \in Scanning
  BY DEF PipelineInv, Scanning
<1>2. KeptAt = {i \in Owned : ~LostAt("scan", i)} /\ Owned \subseteq inputs
  BY DEF KeptAt, Scanned, Owned
<1>3. ASSUME NEW i \in inputs
      PROVE  OwnerOf(fileAt(i)) = IF i \in Owned THEN Plug(i) ELSE None
  <2>1. CASE i \in Owned
    BY <1>1, <2>1, OwnedIs
  <2>2. CASE i \notin Owned
    BY <1>1, <2>2 DEF Owned, DetectInv, Assigned
  <2>3. QED BY <2>1, <2>2
<1>4. \A i \in Owned : Plug(i) # None
  BY <1>1, OwnedIs, OfferedAssumption
<1>5. \A i \in inputs : i \in KeptAt <=> /\ OwnerOf(fileAt(i)) # None
                                         /\ Lost("scan", OwnerOf(fileAt(i)).id, fileAt(i).path) \notin lost
  BY <1>2, <1>3, <1>4 DEF LostAt
<1>6. KeptFiles = {fileAt(i) : i \in KeptAt}
  <2>1. \A f : f \in KeptFiles <=> \E i \in inputs : /\ f = fileAt(i) /\ OwnerOf(f) # None
                                                     /\ Lost("scan", OwnerOf(f).id, f.path) \notin lost
    BY DEF KeptFiles
  <2>2. \A f : f \in KeptFiles <=> \E i \in KeptAt : f = fileAt(i)
    BY <2>1, <1>2, <1>5
  <2>3. QED BY <2>2
<1>7. \A i \in KeptAt : OwnerOf(fileAt(i)) = Plug(i)
  BY <1>2, <1>3
<1>8. ASSUME NEW kind
      PROVE  KeptBy(kind) = {fileAt(i) : i \in {j \in KeptAt : Plug(j).kind = kind}}
  <2>1. \A f : f \in KeptBy(kind) <=> \E i \in KeptAt : f = fileAt(i) /\ OwnerOf(f).kind = kind
    BY <1>6 DEF KeptBy
  <2>2. QED BY <2>1, <1>7
<1>9. PackageNames = workspacePackages
  <2>1. PackageNames = UNION {Labels(f) : f \in KeptBy("package")}
    BY DEF PackageNames, Labels
  <2> DEFINE places == {j \in KeptAt : Plug(j).kind = "package"}
             theirs == {Labels(f) : f \in KeptBy("package")}
             found == {Labels(fileAt(i)) : i \in places}
  <2>2. KeptBy("package") = {fileAt(i) : i \in places}
    BY <1>8
  <2>3. workspacePackages = UNION found
    BY <1>1 DEF GatherInv
  <2>4. theirs = found
    <3> HIDE DEF places
    <3>1. QED BY <2>2
  <2>5. PackageNames = UNION theirs
    BY <2>1
  <2> HIDE DEF theirs, found
  <2>6. QED BY <2>3, <2>4, <2>5
<1>10. \A i \in KeptAt : ContributionOf(fileAt(i)) = Gives(i)
  BY <1>7, <1>9 DEF ContributionOf, Gives
<1>11. QED BY <1>6, <1>8, <1>9, <1>10

LEMMA FinalizersKept ==
  ASSUME PipelineInv, phase = "done"
  PROVE  KeptFinalizers = {registered[k] : k \in Finalized} /\ Finalized \subseteq DOMAIN registered
<1>1. Finalized = {k \in finalizers : ~LostFinalize(k)}
  BY DEF PipelineInv, EndInv, Finalized
<1>2. \A p : p \in KeptFinalizers <=> \E k \in DOMAIN registered :
               p = registered[k] /\ HasFinalize(p) /\ Lost("finalize", p.id, NoFile) \notin lost
  BY DEF KeptFinalizers, ToSet
<1>3. \A p : p \in KeptFinalizers <=> \E k \in Finalized : p = registered[k]
  BY <1>1, <1>2 DEF finalizers, LostFinalize
<1>4. QED BY <1>1, <1>3 DEF finalizers

LEMMA OwnCosts == PipelineInv => FailureCostsItsOwn
<1> SUFFICES ASSUME PipelineInv, phase = "done"
             PROVE  \A nodes \in {UNION {ToSet(ContributionOf(f).nodes) : f \in KeptFiles}} :
                    \A ids \in {{n.id : n \in nodes}} :
                    \A docs \in {{ContributionOf(f).data : f \in KeptBy("docs")}} :
                    \A edges \in {(UNION {ContributionOf(f).edges : f \in KeptFiles})
                                  \cup (UNION {FinalizeOf(p, allNodes, docs) : p \in KeptFinalizers})} :
                      /\ {n.id : n \in graph.nodes} = ids
                      /\ Cardinality(graph.nodes) = Cardinality(ids)
                      /\ graph.nodes \subseteq nodes
                      /\ graph.edges = {e \in edges : e[2] \in ids /\ e[3] \in ids}
  BY DEF FailureCostsItsOwn
<1>1. /\ IsSequence(allNodes)
      /\ ToSet(allNodes) = UNION {ToSet(Gives(i).nodes) : i \in KeptAt}
      /\ allEdges = (UNION {Gives(i).edges : i \in KeptAt})
                    \cup (UNION {FinalizeOf(registered[k], allNodes, own) : k \in Finalized})
      /\ own = {Gives(i).data : i \in {j \in KeptAt : Plug(j).kind = "docs"}}
      /\ graph = buildGraph(allNodes, allEdges)
  BY DEF PipelineInv, GatherInv, EndInv, Scanning
<1>2. /\ KeptFiles = {fileAt(i) : i \in KeptAt}
      /\ KeptBy("docs") = {fileAt(i) : i \in {j \in KeptAt : Plug(j).kind = "docs"}}
      /\ \A i \in KeptAt : ContributionOf(fileAt(i)) = Gives(i)
  BY FilesKept
<1>3. KeptFinalizers = {registered[k] : k \in Finalized}
  BY FinalizersKept
<1>4. UNION {ToSet(ContributionOf(f).nodes) : f \in KeptFiles} = ToSet(allNodes)
  <2> DEFINE theirs == {ToSet(ContributionOf(f).nodes) : f \in KeptFiles}
             found == {ToSet(Gives(i).nodes) : i \in KeptAt}
  <2>1. theirs = found
    BY <1>2
  <2>2. ToSet(allNodes) = UNION found
    BY <1>1
  <2> HIDE DEF theirs, found
  <2>3. UNION theirs = ToSet(allNodes)
    BY <2>1, <2>2
  <2>4. QED BY <2>3 DEF theirs
<1>5. {ContributionOf(f).data : f \in KeptBy("docs")} = own
  <2> DEFINE places == {j \in KeptAt : Plug(j).kind = "docs"}
  <2>1. own = {Gives(i).data : i \in places} /\ places \subseteq KeptAt
        /\ KeptBy("docs") = {fileAt(i) : i \in places}
    BY <1>1, <1>2
  <2> HIDE DEF places
  <2>2. QED BY <1>2, <2>1
<1>6. (UNION {ContributionOf(f).edges : f \in KeptFiles})
      \cup (UNION {FinalizeOf(p, allNodes, own) : p \in KeptFinalizers}) = allEdges
  <2> DEFINE theirs == {ContributionOf(f).edges : f \in KeptFiles}
             found == {Gives(i).edges : i \in KeptAt}
             linked == {FinalizeOf(p, allNodes, own) : p \in KeptFinalizers}
             derived == {FinalizeOf(registered[k], allNodes, own) : k \in Finalized}
  <2>1. theirs = found
    BY <1>2
  <2>2. linked = derived
    BY <1>3
  <2>3. allEdges = (UNION found) \cup (UNION derived)
    BY <1>1
  <2> HIDE DEF theirs, found, linked, derived
  <2>4. allEdges = (UNION theirs) \cup (UNION linked)
    BY <2>1, <2>2, <2>3
  <2>5. QED BY <2>4 DEF theirs, linked
<1> DEFINE nodes == UNION {ToSet(ContributionOf(f).nodes) : f \in KeptFiles}
           docs == {ContributionOf(f).data : f \in KeptBy("docs")}
           edges == (UNION {ContributionOf(f).edges : f \in KeptFiles})
                    \cup (UNION {FinalizeOf(p, allNodes, docs) : p \in KeptFinalizers})
           ids == {n.id : n \in nodes}
<1>7. nodes = ToSet(allNodes) /\ docs = own
  BY <1>4, <1>5
<1>8. edges = allEdges
  <2> HIDE DEF docs
  <2>1. QED BY <1>6, <1>7
<1> SUFFICES /\ {n.id : n \in graph.nodes} = ids
             /\ Cardinality(graph.nodes) = Cardinality(ids)
             /\ graph.nodes \subseteq nodes
             /\ graph.edges = {e \in edges : e[2] \in ids /\ e[3] \in ids}
  OBVIOUS
<1> HIDE DEF nodes, docs, edges
<1>9. /\ graph.nodes \subseteq ToSet(allNodes)
      /\ {n.id : n \in graph.nodes} = {n.id : n \in ToSet(allNodes)}
      /\ Cardinality(graph.nodes) = Cardinality({n.id : n \in ToSet(allNodes)})
      /\ IdsOf(allNodes) = {n.id : n \in ToSet(allNodes)}
  BY <1>1, GraphOf
<1>10. ids = {n.id : n \in ToSet(allNodes)}
  BY <1>7
<1>11. graph.edges = {e \in allEdges : e[2] \in IdsOf(allNodes) /\ e[3] \in IdsOf(allNodes)}
  BY <1>1 DEF buildGraph
<1> HIDE DEF ids
<1>12. QED BY <1>7, <1>8, <1>9, <1>10, <1>11

\* A file or a plugin that fails costs its own results and nothing else, and the order
\* of registration decides nothing.
THEOREM FailureIsolated == PipelineSpec => []FailureCostsItsOwn
BY PipelineKept, OwnCosts, PTL

-----------------------------------------------------------------------------
(* What each scanner gives: nodes and edges                                *)

\* What a plugin other than the package plugin gives for a file: no node is a package or
\* has a package's id, and a file or migration node is that of the file.
OfFile(n, path) ==
  /\ n.type # "package" /\ (n.id = None \/ n.id[1] # "package")
  /\ n.type \in {"file", "migration"} => n.id = <<n.type, path>> /\ n.path = path

\* No edge makes anything a member of a package.
NoMembers(edges) == \A e \in edges : e[1] = "belongs_to" => e[3][1] # "package"

LEMMA NodeIs ==
  ASSUME NEW id, NEW type, NEW label, NEW path
  PROVE  /\ Node(id, type, label, path).type = type /\ Node(id, type, label, path).id = id
         /\ Node(id, type, label, path).path = path /\ Node(id, type, label, path).label = label
BY DEF Node

LEMMA FileNodeIs ==
  ASSUME NEW path
  PROVE  FileNode(path).id = fileId(path) /\ OfFile(FileNode(path), path)
BY NodeIs DEF FileNode, fileId, OfFile

LEMMA SymbolsGive ==
  ASSUME NEW path, NEW defs
  PROVE  /\ ToSet(Symbols(path, defs).nodes) = {SymbolNode(path, s) : s \in ToSet(defs)}
         /\ \A s : SymbolNode(path, s).id = SymbolId(path, s) /\ OfFile(SymbolNode(path, s), path)
         /\ NoMembers(Symbols(path, defs).edges)
<1> DEFINE nodes == [i \in DOMAIN defs |-> SymbolNode(path, defs[i])]
<1>1. /\ Symbols(path, defs).nodes = nodes
      /\ Symbols(path, defs).edges = {E("defines", fileId(path), SymbolId(path, defs[i])) : i \in DOMAIN defs}
  BY DEF Symbols, Contribution
<1>2. ToSet(nodes) = {SymbolNode(path, s) : s \in ToSet(defs)}
  BY DEF ToSet
<1>3. \A s : SymbolNode(path, s).id = SymbolId(path, s) /\ OfFile(SymbolNode(path, s), path)
  <2> TAKE s
  <2> DEFINE type == IF isTestPath(path) THEN "test" ELSE IF s.k = "class" THEN "class" ELSE "function"
  <2>1. SymbolNode(path, s).id = SymbolId(path, s) /\ SymbolNode(path, s).type = type
    BY NodeIs DEF SymbolNode
  <2>2. type \in {"test", "class", "function"} /\ SymbolId(path, s)[1] \in {"class", "function"}
    BY DEF SymbolId
  <2> HIDE DEF type
  <2>3. QED BY <2>1, <2>2 DEF OfFile
<1>4. NoMembers(Symbols(path, defs).edges)
  BY <1>1 DEF NoMembers, E
<1>5. QED BY <1>1, <1>2, <1>3, <1>4

LEMMA RoutesGive ==
  ASSUME NEW path, NEW routes
  PROVE  /\ \A n \in ToSet(Routes(path, routes).nodes) : OfFile(n, path)
         /\ NoMembers(Routes(path, routes).edges)
<1> DEFINE Id(r) == <<"route", r.url, r.method>>
           node(i) == Node(Id(routes[i]), "route", routes[i].method \o " " \o routes[i].url, path)
           nodes == [i \in DOMAIN routes |-> [node(i) EXCEPT !.url = routes[i].url]]
           edges == {{E("defines", fileId(path), Id(routes[i])),
                      E("references", Id(routes[i]), functionId(path, routes[i].handler))} : i \in DOMAIN routes}
<1>1. Routes(path, routes).nodes = nodes /\ Routes(path, routes).edges = UNION edges
  BY DEF Routes, Contribution
<1>2. \A i \in DOMAIN routes : nodes[i].type = "route" /\ nodes[i].id[1] = "route"
  BY DEF Node
<1>3. \A n \in ToSet(nodes) : \E i \in DOMAIN routes : n = nodes[i]
  BY DEF ToSet
<1> HIDE DEF nodes
<1>4. \A n \in ToSet(nodes) : OfFile(n, path)
  BY <1>2, <1>3 DEF OfFile
<1>5. \A S \in edges : \A e \in S : e[1] \in {"defines", "references"}
  BY DEF E
<1> HIDE DEF edges
<1>6. NoMembers(UNION edges)
  BY <1>5 DEF NoMembers
<1>7. QED BY <1>1, <1>4, <1>6

LEMMA CallsGive ==
  ASSUME NEW path, NEW defs, NEW imported, NEW pairs
  PROVE  NoMembers(Calls(path, defs, imported, pairs))
<1>1. \A e \in Calls(path, defs, imported, pairs) : e[1] = "calls"
  BY DEF Calls, E
<1>2. QED BY <1>1 DEF NoMembers

LEMMA NoMembersJoin ==
  ASSUME NEW a, NEW b, NoMembers(a), NoMembers(b)
  PROVE  NoMembers(a \cup b)
BY DEF NoMembers

LEMMA NothingGives == ToSet(Nothing.nodes) = {} /\ NoMembers(Nothing.edges)
BY EmptySequence DEF Nothing, Contribution, NoMembers

CodeKinds == {"function", "class", "const"}

\* A code file's nodes: the file, a node for each definition, and routes.
LEMMA CodeGives ==
  ASSUME NEW file, IsSequence(file.body), NEW targets, NEW packages
  PROVE  /\ \A n \in ToSet(scanCode(file, targets, packages).nodes) : OfFile(n, file.path)
         /\ NoMembers(scanCode(file, targets, packages).edges)
         /\ FileNode(file.path) \in ToSet(scanCode(file, targets, packages).nodes)
         /\ \A s \in ToSet(Definitions(file.body, CodeKinds)) :
              SymbolNode(file.path, s) \in ToSet(scanCode(file, targets, packages).nodes)
         /\ extractImports(file.path, file.body, targets, packages).edges
              \subseteq scanCode(file, targets, packages).edges
         /\ extractCalls(file.path, file.body, Definitions(file.body, CodeKinds),
                         extractImports(file.path, file.body, targets, packages).names)
              \subseteq scanCode(file, targets, packages).edges
<1> DEFINE path == file.path
           body == file.body
           url == routeUrlFor(path)
           defs == Definitions(body, CodeKinds)
           handlers == Picked(body, {i \in DOMAIN body : /\ body[i].k \in {"function", "const"}
                                                         /\ body[i].name \in HTTP_METHODS
                                                         /\ body[i].exported})
           routes == [i \in DOMAIN handlers |-> [method |-> handlers[i].name, url |-> url,
                                                 handler |-> handlers[i].name]]
           symbols == extractSymbols(path, body)
           imports == extractImports(path, body, targets, packages)
           handled == extractRoutes(path, body)
           calls == extractCalls(path, body, defs, imports.names)
<1>1. symbols = Symbols(path, defs)
  BY DEF extractSymbols, CodeKinds
<1>2. handled = IF url = None THEN Nothing ELSE Routes(path, routes)
  BY DEF extractRoutes
<1>3. /\ scanCode(file, targets, packages).nodes = <<FileNode(path)>> \o symbols.nodes \o handled.nodes
      /\ scanCode(file, targets, packages).edges = symbols.edges \cup imports.edges \cup handled.edges \cup calls
  BY DEF scanCode, Contribution, CodeKinds
<1>4. IsSequence(symbols.nodes)
  BY <1>1, DefinitionsAreSequence, SymbolsPlain DEF Plain
<1>5. IsSequence(handled.nodes)
  <2>1. IsSequence(handlers)
    BY PickedHolds
  <2>2. Len(handlers) \in Nat /\ DOMAIN handlers = 1..Len(handlers)
    BY <2>1, SequenceOf DEF IsSequence
  <2>3. routes = [i \in DOMAIN handlers |-> routes[i]]
    OBVIOUS
  <2> HIDE DEF routes, handlers, url, handled
  <2>4. IsSequence(routes)
    BY <2>2, <2>3, FunctionIsSequence
  <2>5. QED BY <2>4, <1>2, RoutesPlain, NothingPlain DEF Plain
<1>6. \A n \in ToSet(handled.nodes) : OfFile(n, path)
  <2> HIDE DEF routes, url, handled
  <2>1. QED BY <1>2, RoutesGive, NothingGives
<1>7. NoMembers(handled.edges)
  <2> HIDE DEF routes, url, handled
  <2>1. QED BY <1>2, RoutesGive, NothingGives
<1>8. NoMembers(imports.edges)
  <2>1. \A e \in imports.edges : e[1] = "imports"
    BY DEF extractImports, E
  <2>2. QED BY <2>1 DEF NoMembers
<1>9. NoMembers(calls)
  BY CallsGive DEF extractCalls
<1>10. ToSet(symbols.nodes) = {SymbolNode(path, s) : s \in ToSet(defs)} /\ NoMembers(symbols.edges)
       /\ \A s : OfFile(SymbolNode(path, s), path)
  BY <1>1, SymbolsGive
<1> HIDE DEF path, body, url, defs, handlers, routes, symbols, imports, handled, calls
<1>11. ToSet(scanCode(file, targets, packages).nodes)
         = {FileNode(path)} \cup {SymbolNode(path, s) : s \in ToSet(defs)} \cup ToSet(handled.nodes)
  <2>1. IsSequence(<<FileNode(path)>>) /\ ToSet(<<FileNode(path)>>) = {FileNode(path)}
    BY Single
  <2>2. IsSequence(<<FileNode(path)>> \o symbols.nodes)
        /\ ToSet(<<FileNode(path)>> \o symbols.nodes) = {FileNode(path)} \cup ToSet(symbols.nodes)
    BY <2>1, <1>4, Joins
  <2>3. QED BY <2>2, <1>3, <1>5, <1>10, Joins
<1>12. NoMembers(scanCode(file, targets, packages).edges)
  BY <1>3, <1>7, <1>8, <1>9, <1>10, NoMembersJoin
<1>13. \A n \in ToSet(scanCode(file, targets, packages).nodes) : OfFile(n, path)
  BY <1>6, <1>10, <1>11, FileNodeIs
<1>14. QED BY <1>3, <1>11, <1>12, <1>13 DEF path, body, defs, imports, calls

LEMMA PythonGives ==
  ASSUME NEW file, IsSequence(file.body),
         \A s \in ToSet(file.body) : s.k = "function" =>
           /\ IsSequence(s.decorators)
           /\ \A d \in ToSet(s.decorators) : IsSequence(d.methods),
         NEW known
  PROVE  /\ \A n \in ToSet(scanPython(file, known).nodes) : OfFile(n, file.path)
         /\ NoMembers(scanPython(file, known).edges)
<1> DEFINE path == file.path
           body == file.body
           defs == Definitions(body, {"function", "class"})
           symbols == extractPySymbols(path, body)
           imports == extractPyImports(path, body, known)
           handled == extractPyRoutes(path, body)
           calls == extractPyCalls(path, body, defs, imports.names)
<1>1. symbols = Symbols(path, defs)
  BY DEF extractPySymbols
<1>2. PICK routes : handled = Routes(path, routes)
  BY DEF extractPyRoutes
<1>3. /\ scanPython(file, known).nodes = <<FileNode(path)>> \o symbols.nodes \o handled.nodes
      /\ scanPython(file, known).edges = symbols.edges \cup imports.edges \cup handled.edges \cup calls
  BY DEF scanPython, Contribution
<1>4. IsSequence(symbols.nodes) /\ IsSequence(handled.nodes)
  BY <1>1, DefinitionsAreSequence, SymbolsPlain, PyRoutesPlain DEF Plain
<1>5. NoMembers(imports.edges)
  <2>1. \A e \in imports.edges : e[1] = "imports"
    BY DEF extractPyImports, E
  <2>2. QED BY <2>1 DEF NoMembers
<1>6. NoMembers(calls)
  BY CallsGive DEF extractPyCalls
<1>7. ToSet(symbols.nodes) = {SymbolNode(path, s) : s \in ToSet(defs)} /\ NoMembers(symbols.edges)
      /\ \A s : OfFile(SymbolNode(path, s), path)
  BY <1>1, SymbolsGive
<1> HIDE DEF path, body, defs, symbols, imports, handled, calls
<1>8. NoMembers(handled.edges) /\ \A n \in ToSet(handled.nodes) : OfFile(n, path)
  BY <1>2, RoutesGive
<1>9. ToSet(scanPython(file, known).nodes)
         = {FileNode(path)} \cup ToSet(symbols.nodes) \cup ToSet(handled.nodes)
  <2>1. IsSequence(<<FileNode(path)>>) /\ ToSet(<<FileNode(path)>>) = {FileNode(path)}
    BY Single
  <2>2. IsSequence(<<FileNode(path)>> \o symbols.nodes)
        /\ ToSet(<<FileNode(path)>> \o symbols.nodes) = {FileNode(path)} \cup ToSet(symbols.nodes)
    BY <2>1, <1>4, Joins
  <2>3. QED BY <2>2, <1>3, <1>4, Joins
<1>10. NoMembers(scanPython(file, known).edges)
  BY <1>3, <1>5, <1>6, <1>7, <1>8, NoMembersJoin
<1>11. \A n \in ToSet(scanPython(file, known).nodes) : OfFile(n, path)
  BY <1>7, <1>8, <1>9, FileNodeIs
<1>12. QED BY <1>10, <1>11 DEF path

LEMMA SqlGives ==
  ASSUME NEW file, IsSequence(file.body)
  PROVE  /\ \A n \in ToSet(scanSql(file).nodes) : OfFile(n, file.path)
         /\ NoMembers(scanSql(file).edges)
<1> DEFINE clauses == file.body
           Of(k) == Picked(clauses, {i \in DOMAIN clauses : clauses[i].k = k})
           tables == Of("create") \o Of("alter") \o Of("references")
           named == [i \in DOMAIN tables |-> Node(tableId(tables[i].table), "table",
                                                  normalizeTable(tables[i].table), file.path)]
           migration == Node(<<"migration", file.path>>, "migration", posixBasename(file.path), file.path)
<1>1. scanSql(file).nodes = <<migration>> \o named
  BY DEF scanSql, Contribution
<1>2. IsSequence(Of("create")) /\ IsSequence(Of("alter")) /\ IsSequence(Of("references"))
  BY PickedHolds
<1>0. \A e \in scanSql(file).edges : e[1] \in {"defines", "references"}
  <2> DEFINE TableBefore(i) == LET before == {j \in 1..(i - 1) : clauses[j].k \in {"create", "alter"}}
                          IN IF before = {} THEN None
                             ELSE tableId(clauses[CHOOSE j \in before : \A l \in before : l <= j].table)
             keys == {i \in DOMAIN clauses : /\ clauses[i].k = "references" /\ TableBefore(i) # None
                                             /\ TableBefore(i) # tableId(clauses[i].table)}
             first == {E("defines", <<"migration", file.path>>, tableId(c.table)) : c \in ToSet(Of("create"))}
             second == {E("references", TableBefore(i), tableId(clauses[i].table)) : i \in keys}
  <2>1. scanSql(file).edges = first \cup second
    BY DEF scanSql, Contribution
  <2> HIDE DEF Of, TableBefore, keys, clauses
  <2>2. \A e \in first : e[1] = "defines"
    BY DEF E
  <2>3. \A e \in second : e[1] = "references"
    BY DEF E
  <2> HIDE DEF first, second
  <2>4. QED BY <2>1, <2>2, <2>3
<1> HIDE DEF Of
<1>3. IsSequence(tables)
  BY <1>2, Joins
<1> HIDE DEF tables
<1>4. named = [i \in DOMAIN tables |-> named[i]]
  OBVIOUS
<1>5. \A i \in DOMAIN tables : /\ named[i].type = "table" /\ named[i].id[1] = "table"
  BY NodeIs DEF tableId
<1>6. OfFile(migration, file.path)
  BY NodeIs DEF OfFile
<1>7. \A n \in ToSet(named) : OfFile(n, file.path)
  <2>1. \A n \in ToSet(named) : \E i \in DOMAIN tables : n = named[i]
    BY DEF ToSet
  <2> HIDE DEF named
  <2>2. QED BY <2>1, <1>5 DEF OfFile
<1> HIDE DEF named, migration
<1>8. IsSequence(named)
  <2>1. \A i \in DOMAIN tables : named[i].type # "package"
    BY <1>5
  <2>2. QED BY <2>1, <1>3, <1>4, PlainMap DEF Plain
<1>9. ToSet(scanSql(file).nodes) = {migration} \cup ToSet(named)
  BY <1>1, <1>8, Single, Joins
<1>10. QED BY <1>0, <1>6, <1>7, <1>9 DEF NoMembers

LEMMA DocsGive ==
  ASSUME NEW file, IsSequence(file.body.headings)
  PROVE  /\ \A n \in ToSet(scanDocs(file).nodes) : OfFile(n, file.path)
         /\ NoMembers(scanDocs(file).edges)
<1> DEFINE headings == file.body.headings
           sections == [i \in DOMAIN headings |->
                         Node(SectionId(file.path, headings, i), "section", headings[i].slug, file.path)]
           doc == Node(DocId(file.path), "doc", posixBasename(file.path), file.path)
<1>1. /\ scanDocs(file).nodes = <<doc>> \o sections
      /\ scanDocs(file).edges = {E("belongs_to", s.id, DocId(file.path)) : s \in ToSet(sections)}
  BY DEF scanDocs
<1>2. sections = [i \in DOMAIN headings |-> sections[i]]
  OBVIOUS
<1>3. \A i \in DOMAIN headings : sections[i].type = "section" /\ sections[i].id[1] = "section"
  BY NodeIs DEF SectionId
<1>4. OfFile(doc, file.path)
  BY NodeIs DEF OfFile, DocId
<1>5. \A n \in ToSet(sections) : OfFile(n, file.path)
  <2>1. \A n \in ToSet(sections) : \E i \in DOMAIN headings : n = sections[i]
    BY DEF ToSet
  <2> HIDE DEF sections
  <2>2. QED BY <2>1, <1>3 DEF OfFile
<1> HIDE DEF sections, doc
<1>6. IsSequence(sections)
  <2>1. \A i \in DOMAIN headings : sections[i].type # "package"
    BY <1>3
  <2>2. QED BY <2>1, <1>2, PlainMap DEF Plain
<1>7. ToSet(scanDocs(file).nodes) = {doc} \cup ToSet(sections)
  BY <1>1, <1>6, Single, Joins
<1>8. NoMembers(scanDocs(file).edges)
  BY <1>1 DEF NoMembers, E, DocId
<1>9. QED BY <1>4, <1>5, <1>7, <1>8

LEMMA LinksGive ==
  ASSUME NEW docs, NEW nodes
  PROVE  NoMembers(linkDocsToCode(docs, nodes))
<1>1. ASSUME NEW d PROVE \A e \in LinksOf(d, nodes) : e[1] # "belongs_to"
  <2> DEFINE doc == d.doc
             read == d.parsed
             files == {n.path : n \in {m \in ToSet(nodes) : m.type = "file"}}
             explains == {x \in (DOMAIN read.headings) \X Linkable(nodes) :
                            Names(read.headings[x[1]].words, x[2])}
             explained == {x[2] : x \in explains}
             documented == {resolveFile(doc, l, files) : l \in read.links} \ {None}
             first == {E("explains", SectionId(doc, read.headings, x[1]), x[2].id) : x \in explains}
             second == {E("documents", DocId(doc), fileId(p)) : p \in documented}
             third == {E("mentions", DocId(doc), n.id) : n \in Mentionable(read, nodes, explained)}
             fourth == {E("mentions", DocId(doc), fileId(p)) : p \in (files \cap read.paths) \ documented}
  <2>1. LinksOf(d, nodes) = first \cup second \cup third \cup fourth
    BY DEF LinksOf
  <2> HIDE DEF explains, explained, documented, files, doc, read
  <2>2. \A e \in first : e[1] = "explains"
    BY DEF E
  <2>3. \A e \in second : e[1] = "documents"
    BY DEF E
  <2>4. \A e \in third : e[1] = "mentions"
    BY DEF E
  <2>5. \A e \in fourth : e[1] = "mentions"
    BY DEF E
  <2> HIDE DEF first, second, third, fourth
  <2>6. QED BY <2>1, <2>2, <2>3, <2>4, <2>5
<1>2. QED BY <1>1 DEF linkDocsToCode, NoMembers

\* The package plugin gives a package, of the name and in the directory of the manifest.
LEMMA PackageGives ==
  ASSUME NEW file
  PROVE  /\ scanPackageJson(file).edges = {}
         /\ IsSequence(scanPackageJson(file).nodes)
         /\ \A n \in ToSet(scanPackageJson(file).nodes) :
              /\ n.type = "package" /\ n.label # None /\ n.id = packageId(n.label)
              /\ n.dir = posixDirname(file.path)
<1> DEFINE node == Node(packageId(file.body.name), "package", file.body.name, file.path)
           full == [node EXCEPT !.dir = posixDirname(file.path), !.deps = file.body.deps]
<1>1. /\ scanPackageJson(file).nodes = IF file.body.name = None THEN <<>> ELSE <<full>>
      /\ scanPackageJson(file).edges = {}
  BY DEF scanPackageJson, Contribution
<1>2. /\ full.type = "package" /\ full.label = file.body.name /\ full.id = packageId(file.body.name)
      /\ full.dir = posixDirname(file.path)
  BY DEF Node
<1> HIDE DEF full
<1>3. QED BY <1>1, <1>2, Single, EmptySequence

-----------------------------------------------------------------------------
(* Imports of workspace packages                                           *)

LEMMA Greatest ==
  ASSUME NEW n \in Nat, NEW S, S \subseteq 1..n, S # {}
  PROVE  \E m \in S : \A i \in S : i <= m
<1> DEFINE T == {n - i : i \in S}
<1>1. T \subseteq Nat /\ T # {}
  <2>1. \A i \in S : n - i \in Nat
    OBVIOUS
  <2>2. QED BY <2>1
<1> HIDE DEF T
<1>2. PICK t \in T : \A u \in T : t <= u
  BY <1>1, Least
<1>3. PICK m \in S : t = n - m
  BY <1>2 DEF T
<1>4. \A i \in S : n - m <= n - i
  BY <1>2, <1>3 DEF T
<1>5. QED BY <1>4

\* A contribution keeps a node of every id but null.
LEMMA ValidatedKeeps ==
  ASSUME NEW c, IsSequence(c.nodes)
  PROVE  /\ \A n \in ToSet(c.nodes) : n.id # None => n.id \in {m.id : m \in ToSet(validateContribution(c).nodes)}
         /\ \A m \in ToSet(validateContribution(c).nodes) : m.id # None /\ m \in ToSet(c.nodes)
         /\ validateContribution(c).edges = {e \in c.edges : e[2] # None /\ e[3] # None}
<1> DEFINE nodes == c.nodes
           S == {i \in FirstOfItsId(nodes) : nodes[i].id # None}
<1>1. /\ validateContribution(c).nodes = Picked(nodes, S)
      /\ validateContribution(c).edges = {e \in c.edges : e[2] # None /\ e[3] # None}
  BY DEF validateContribution
<1>2. S \subseteq DOMAIN nodes /\ DOMAIN nodes \subseteq Nat
  BY SequenceOf DEF FirstOfItsId, IsSequence
<1>3. \A i \in S : nodes[i].id # None /\ nodes[i] \in ToSet(nodes)
  BY <1>2 DEF ToSet
<1>4. ASSUME NEW i \in DOMAIN nodes, nodes[i].id # None PROVE \E j \in S : nodes[j].id = nodes[i].id
  <2> DEFINE same == {j \in DOMAIN nodes : nodes[j].id = nodes[i].id}
  <2>1. same \subseteq Nat /\ i \in same
    BY <1>2
  <2> HIDE DEF same
  <2>2. PICK j \in same : \A k \in same : j <= k
    BY <2>1, Least, Zenon
  <2>3. QED BY <2>2, <1>4 DEF same, FirstOfItsId
<1> HIDE DEF S
<1>5. ToSet(Picked(nodes, S)) = {nodes[i] : i \in S}
  <2>1. S \cap DOMAIN nodes = S
    BY <1>2
  <2>2. ToSet(Picked(nodes, S)) = {nodes[i] : i \in S \cap DOMAIN nodes}
    BY PickedHolds
  <2>3. QED BY <2>1, <2>2
<1>6. \A n \in ToSet(nodes) : n.id # None => \E j \in S : nodes[j].id = n.id
  BY <1>4 DEF ToSet
<1> HIDE DEF nodes
<1>7. \A n \in ToSet(nodes) : n.id # None => n.id \in {m.id : m \in {nodes[i] : i \in S}}
  BY <1>6
<1>8. QED BY <1>1, <1>3, <1>5, <1>7 DEF nodes

\* What the owner of a file gives for it.
LEMMA OwnersGive ==
  ASSUME NEW r \in DOMAIN Repos, NEW f \in ToSet(Repos[r].files), NEW p, Claims(p, f), NEW names
  PROVE  /\ p.kind # "package" => \A n \in ToSet(ScanOf(p, f, names).nodes) : OfFile(n, f.path)
         /\ p.kind = "package" => ScanOf(p, f, names) = scanPackageJson(f) /\ Last(f.path) = "package.json"
         /\ p.kind = "code" => /\ ScanOf(p, f, names) = scanCode(f, importTargets, names)
                               /\ f.ext \in CodeExts /\ IsSequence(f.body)
         /\ NoMembers(ScanOf(p, f, names).edges)
<1>1. Parsed(f)
  BY ReposAssumption
<1>2. CASE p.kind = "package"
  <2>1. ScanOf(p, f, names) = scanPackageJson(f) /\ Last(f.path) = "package.json"
    BY <1>2 DEF ScanOf, Claims
  <2>2. QED BY <2>1, <1>2, PackageGives DEF NoMembers
<1>3. CASE p.kind = "code"
  <2>1. ScanOf(p, f, names) = scanCode(f, importTargets, names) /\ f.ext \in CodeExts
    BY <1>3 DEF ScanOf, Claims
  <2>2. IsSequence(f.body)
    BY <2>1, <1>1 DEF Parsed
  <2>3. QED BY <2>1, <2>2, <1>3, CodeGives
<1>4. CASE p.kind = "python"
  <2>1. ScanOf(p, f, names) = scanPython(f, knownFiles) /\ f.ext = ".py"
    BY <1>4 DEF ScanOf, Claims
  <2>2. QED BY <2>1, <1>1, <1>4, PythonGives DEF Parsed
<1>5. CASE p.kind = "sql"
  <2>1. ScanOf(p, f, names) = scanSql(f) /\ f.ext = ".sql"
    BY <1>5 DEF ScanOf, Claims
  <2>2. QED BY <2>1, <1>1, <1>5, SqlGives DEF Parsed
<1>6. CASE p.kind = "docs"
  <2>1. ScanOf(p, f, names) = scanDocs(f) /\ f.ext \in {".md", ".mdx"}
    BY <1>6 DEF ScanOf, Claims
  <2>2. QED BY <2>1, <1>1, <1>6, DocsGive DEF Parsed
<1>7. CASE p.kind \notin {"package", "code", "python", "sql", "docs"}
  <2>1. ScanOf(p, f, names) = Foreign(f) /\ f.ext = ".sql"
    BY <1>7 DEF ScanOf, Claims
  <2>2. /\ \A n \in ToSet(Foreign(f).nodes) : n.type = "table" /\ (n.id = None \/ n.id[1] = "table")
        /\ \A e \in Foreign(f).edges : e[1] = "references"
    BY <2>1, TablesAssumption
  <2>3. \A n \in ToSet(Foreign(f).nodes) : OfFile(n, f.path)
    BY <2>2 DEF OfFile
  <2>4. NoMembers(Foreign(f).edges)
    BY <2>2 DEF NoMembers
  <2>5. QED BY <2>1, <2>3, <2>4, <1>7
<1>8. QED BY <1>2, <1>3, <1>4, <1>5, <1>6, <1>7

\* A file that was kept belongs to a plugin that claims it.
LEMMA KeptIs ==
  ASSUME PipelineInv, phase = "done", NEW i \in KeptAt
  PROVE  /\ repo \in DOMAIN Repos /\ fileAt(i) \in ToSet(Repos[repo].files)
         /\ Plug(i) \in Offered /\ Claims(Plug(i), fileAt(i))
         /\ IsSequence(ScanOf(Plug(i), fileAt(i), workspacePackages).nodes)
<1>1. RegistryInv /\ DetectInv /\ phase \in Scanning
  BY DEF PipelineInv, Scanning
<1>2. i \in Owned
  BY DEF KeptAt, Scanned
<1>3. repo \in DOMAIN Repos
  BY <1>1 DEF RegistryInv
<1>4. Plug(i) \in Offered /\ Claims(Plug(i), fileAt(i)) /\ fileAt(i) \in ToSet(Repos[repo].files)
  BY <1>1, <1>2, OwnedIs
<1>5. QED BY <1>3, <1>4, Given

\* The graph that a scan has built, and where its parts come from.
LEMMA BuiltFrom ==
  ASSUME PipelineInv, phase = "done"
  PROVE  /\ {n.id : n \in graph.nodes} = {n.id : n \in ToSet(allNodes)}
         /\ graph.edges = {e \in allEdges : /\ e[2] \in {n.id : n \in ToSet(allNodes)}
                                            /\ e[3] \in {n.id : n \in ToSet(allNodes)}}
         /\ \A n : n \in ToSet(allNodes) <=> \E i \in KeptAt : n \in ToSet(Gives(i).nodes)
         /\ \A e : e \in allEdges <=> \/ \E i \in KeptAt : e \in Gives(i).edges
                                      \/ \E k \in Finalized : e \in FinalizeOf(registered[k], allNodes, own)
         /\ \A i \in KeptAt : Plug(i).kind = "package" => Labels(fileAt(i)) \subseteq workspacePackages
         /\ IsSequence(allNodes)
<1>1. /\ IsSequence(allNodes)
      /\ ToSet(allNodes) = UNION {ToSet(Gives(i).nodes) : i \in KeptAt}
      /\ allEdges = (UNION {Gives(i).edges : i \in KeptAt})
                    \cup (UNION {FinalizeOf(registered[k], allNodes, own) : k \in Finalized})
      /\ workspacePackages = UNION {Labels(fileAt(i)) : i \in {j \in KeptAt : Plug(j).kind = "package"}}
      /\ graph = buildGraph(allNodes, allEdges)
  BY DEF PipelineInv, GatherInv, EndInv, Scanning
<1>2. /\ {n.id : n \in graph.nodes} = {n.id : n \in ToSet(allNodes)}
      /\ IdsOf(allNodes) = {n.id : n \in ToSet(allNodes)}
  BY <1>1, GraphOf
<1>3. graph.edges = {e \in allEdges : e[2] \in IdsOf(allNodes) /\ e[3] \in IdsOf(allNodes)}
  BY <1>1 DEF buildGraph
<1>4. \A n : n \in ToSet(allNodes) <=> \E i \in KeptAt : n \in ToSet(Gives(i).nodes)
  BY <1>1
<1>5. \A e : e \in allEdges <=> \/ \E i \in KeptAt : e \in Gives(i).edges
                                \/ \E k \in Finalized : e \in FinalizeOf(registered[k], allNodes, own)
  <2> DEFINE found == UNION {Gives(i).edges : i \in KeptAt}
             linked == UNION {FinalizeOf(registered[k], allNodes, own) : k \in Finalized}
  <2>1. \A e : e \in found <=> \E i \in KeptAt : e \in Gives(i).edges
    OBVIOUS
  <2>2. \A e : e \in linked <=> \E k \in Finalized : e \in FinalizeOf(registered[k], allNodes, own)
    OBVIOUS
  <2>3. allEdges = found \cup linked
    BY <1>1
  <2> HIDE DEF found, linked
  <2>4. QED BY <2>1, <2>2, <2>3
<1>6. \A i \in KeptAt : Plug(i).kind = "package" => Labels(fileAt(i)) \subseteq workspacePackages
  BY <1>1
<1>7. QED BY <1>1, <1>2, <1>3, <1>4, <1>5, <1>6

\* A node with the id of a package is a package, from the manifest in its directory, and
\* its name is known.
LEMMA PackagesKnown ==
  ASSUME PipelineInv, phase = "done", NEW n \in ToSet(allNodes),
         n.type = "package" \/ n.id[1] = "package"
  PROVE  /\ n.type = "package" /\ n.id = packageId(n.label) /\ n.label # None
         /\ n.label \in workspacePackages
         /\ \E f \in ToSet(Repos[repo].files) : Last(f.path) = "package.json" /\ n.dir = posixDirname(f.path)
<1>1. PICK i \in KeptAt : n \in ToSet(Gives(i).nodes)
  BY BuiltFrom
<1>2. /\ repo \in DOMAIN Repos /\ fileAt(i) \in ToSet(Repos[repo].files) /\ Claims(Plug(i), fileAt(i))
      /\ IsSequence(ScanOf(Plug(i), fileAt(i), workspacePackages).nodes)
  BY KeptIs
<1>3. n \in ToSet(ScanOf(Plug(i), fileAt(i), workspacePackages).nodes) /\ n.id # None
  BY <1>1, <1>2, ValidatedKeeps DEF Gives
<1>4. Plug(i).kind = "package"
  BY <1>2, <1>3, OwnersGive DEF OfFile
<1>5. ScanOf(Plug(i), fileAt(i), workspacePackages) = scanPackageJson(fileAt(i))
      /\ Last(fileAt(i).path) = "package.json"
  BY <1>2, <1>4, OwnersGive
<1>6. /\ n.type = "package" /\ n.label # None /\ n.id = packageId(n.label)
      /\ n.dir = posixDirname(fileAt(i).path)
  BY <1>3, <1>5, PackageGives
<1>7. n.label \in Labels(fileAt(i))
  BY <1>1, <1>5 DEF Gives, Labels
<1>8. n.label \in workspacePackages
  BY <1>4, <1>7, BuiltFrom
<1>9. QED BY <1>2, <1>5, <1>6, <1>8

\* An import of a known package is an edge.
LEMMA PackageImports ==
  ASSUME NEW path, NEW body, NEW targets, NEW packages, NEW s \in ToSet(body), s.k = "import",
         s.spec[1] \notin {".", ".."}, s.spec[1] \in packages, s.spec[1] # None
  PROVE  E("imports", fileId(path), packageId(s.spec[1])) \in extractImports(path, body, targets, packages).edges
<1>1. resolveLocalImport(path, s.spec, targets) = None
  BY DEF resolveLocalImport
<1>2. matchWorkspacePackage(s.spec, packages) = s.spec[1]
  BY DEF matchWorkspacePackage
<1>3. PICK i \in DOMAIN body : body[i] = s
  BY DEF ToSet
<1> DEFINE imports == {j \in DOMAIN body : body[j].k \in {"import", "reexport"}}
           linked == {j \in imports : resolveLocalImport(path, body[j].spec, targets) # None}
           foreign == {matchWorkspacePackage(body[j].spec, packages) : j \in imports \ linked} \ {None}
<1>4. s.spec[1] \in foreign
  <2>1. i \in imports \ linked
    BY <1>1, <1>3
  <2>2. QED BY <2>1, <1>2, <1>3
<1>5. {E("imports", fileId(path), packageId(pkg)) : pkg \in foreign}
        \subseteq extractImports(path, body, targets, packages).edges
  BY DEF extractImports
<1> HIDE DEF foreign
<1>6. QED BY <1>4, <1>5

LEMMA ImportsLink == PipelineInv => WorkspaceImportsLinked
<1> SUFFICES ASSUME PipelineInv, phase = "done", NEW f \in KeptBy("code"), NEW s \in ToSet(f.body),
                    s.k = "import", s.spec[1] \notin {".", ".."},
                    packageId(s.spec[1]) \in {n.id : n \in graph.nodes}
             PROVE  E("imports", fileId(f.path), packageId(s.spec[1])) \in graph.edges
  BY DEF WorkspaceImportsLinked
<1> DEFINE ids == {n.id : n \in ToSet(allNodes)}
           edge == E("imports", fileId(f.path), packageId(s.spec[1]))
<1>1. PICK i \in KeptAt : f = fileAt(i) /\ Plug(i).kind = "code"
  BY FilesKept
<1>2. /\ repo \in DOMAIN Repos /\ f \in ToSet(Repos[repo].files) /\ Claims(Plug(i), f)
      /\ IsSequence(ScanOf(Plug(i), f, workspacePackages).nodes)
  BY <1>1, KeptIs
<1> DEFINE given == scanCode(f, importTargets, workspacePackages)
<1>3. ScanOf(Plug(i), f, workspacePackages) = given /\ IsSequence(f.body)
  BY <1>1, <1>2, OwnersGive
<1>4. Gives(i) = validateContribution(given) /\ IsSequence(given.nodes)
  BY <1>1, <1>2, <1>3 DEF Gives
<1>5. PICK n \in ToSet(allNodes) : n.id = packageId(s.spec[1])
  <2>1. {n.id : n \in graph.nodes} = {n.id : n \in ToSet(allNodes)}
    BY BuiltFrom
  <2>2. packageId(s.spec[1]) \in {n.id : n \in ToSet(allNodes)}
    BY <2>1
  <2>3. QED BY <2>2
<1>6. n.id[1] = "package"
  BY <1>5 DEF packageId
<1>7. packageId(s.spec[1]) = packageId(n.label) /\ n.label # None /\ n.label \in workspacePackages
  BY <1>5, <1>6, PackagesKnown
<1>8. s.spec[1] = n.label
  BY <1>7 DEF packageId
<1> HIDE DEF given
<1>9. edge \in given.edges
  <2>1. edge \in extractImports(f.path, f.body, importTargets, workspacePackages).edges
    BY <1>7, <1>8, PackageImports
  <2>2. QED BY <2>1, <1>3, CodeGives DEF given
<1>10. fileId(f.path) # None
  BY <1>2, PathsAssumption
<1>11. packageId(s.spec[1]) \in ids /\ packageId(s.spec[1]) # None
  <2>1. PICK j \in KeptAt : n \in ToSet(Gives(j).nodes)
    BY BuiltFrom
  <2>2. IsSequence(ScanOf(Plug(j), fileAt(j), workspacePackages).nodes)
    BY KeptIs
  <2>3. n.id # None
    BY <2>1, <2>2, ValidatedKeeps DEF Gives
  <2>4. QED BY <2>3, <1>5
<1>12. fileId(f.path) \in ids
  <2>1. FileNode(f.path) \in ToSet(given.nodes) /\ FileNode(f.path).id = fileId(f.path)
    BY <1>3, CodeGives, FileNodeIs DEF given
  <2>2. fileId(f.path) \in {m.id : m \in ToSet(Gives(i).nodes)}
    BY <2>1, <1>4, <1>10, ValidatedKeeps
  <2>3. \A m \in ToSet(Gives(i).nodes) : m \in ToSet(allNodes)
    BY BuiltFrom
  <2>4. QED BY <2>2, <2>3
<1>13. edge[2] = fileId(f.path) /\ edge[3] = packageId(s.spec[1])
  BY DEF E
<1> HIDE DEF edge, ids
<1>14. edge \in Gives(i).edges
  BY <1>4, <1>9, <1>10, <1>11, <1>13, ValidatedKeeps
<1>15. edge \in allEdges
  BY <1>14, BuiltFrom
<1>16. edge \in graph.edges
  BY <1>11, <1>12, <1>13, <1>15, BuiltFrom DEF ids
<1>17. QED BY <1>16 DEF edge

\* The package plugin goes before the code plugin, so an import of a workspace package
\* is linked whichever file came first.
THEOREM WorkspaceLinked == PipelineSpec => []WorkspaceImportsLinked
BY PipelineKept, ImportsLink, PTL

-----------------------------------------------------------------------------
(* Calls across files                                                      *)

\* Every name a file defines has its definition among those kept.
LEMMA DefinitionsKeep ==
  ASSUME NEW body, IsSequence(body), NEW kinds
  PROVE  /\ \A d \in ToSet(Definitions(body, kinds)) : d \in ToSet(body) /\ d.k \in kinds
         /\ \A s \in ToSet(body) : s.k \in kinds => \E d \in ToSet(Definitions(body, kinds)) : d.name = s.name
<1> DEFINE symbols == {i \in DOMAIN body : body[i].k \in kinds}
           S == {i \in symbols : \A j \in symbols : body[j].name = body[i].name => i <= j}
<1>1. Definitions(body, kinds) = Picked(body, S)
  BY DEF Definitions
<1>2. DOMAIN body \subseteq Nat /\ S \subseteq symbols /\ symbols \subseteq DOMAIN body
  BY SequenceOf DEF IsSequence
<1>3. \A i \in S : body[i] \in ToSet(body) /\ body[i].k \in kinds
  BY DEF ToSet
<1>4. ASSUME NEW i \in symbols PROVE \E j \in S : body[j].name = body[i].name
  <2> DEFINE same == {j \in symbols : body[j].name = body[i].name}
  <2>1. same \subseteq Nat /\ i \in same
    BY <1>2
  <2> HIDE DEF same
  <2>2. PICK j \in same : \A k \in same : j <= k
    BY <2>1, Least, Zenon
  <2>3. j \in symbols /\ body[j].name = body[i].name
    BY <2>2 DEF same
  <2>4. \A k \in symbols : body[k].name = body[j].name => j <= k
    BY <2>2, <2>3 DEF same
  <2> HIDE DEF symbols
  <2>5. QED BY <2>3, <2>4
<1>5. \A s \in ToSet(body) : s.k \in kinds => \E i \in symbols : s = body[i]
  BY DEF ToSet
<1> HIDE DEF S, symbols
<1>6. ToSet(Picked(body, S)) = {body[i] : i \in S}
  <2>1. S \cap DOMAIN body = S
    BY <1>2
  <2>2. ToSet(Picked(body, S)) = {body[i] : i \in S \cap DOMAIN body}
    BY PickedHolds
  <2>3. QED BY <2>1, <2>2
<1>7. QED BY <1>1, <1>3, <1>4, <1>5, <1>6

\* Whatever binds the name that b binds binds it to the same.
BoundOnce(path, body, targets, b) ==
  \A x \in ToSet(body) : x.k = "import" => \A m \in x.names :
    m.local = b.local => /\ resolveLocalImport(path, x.spec, targets) = b.from
                         /\ m.exported = b.exported

\* A name that one import of a file binds is known as what it was exported as.
LEMMA ImportBinds ==
  ASSUME NEW path, NEW body, IsSequence(body), NEW targets, NEW packages,
         NEW c, c.from # None,
         NEW s \in ToSet(body), s.k = "import", resolveLocalImport(path, s.spec, targets) = c.from,
         NEW n \in s.names, n.local = c.local, BoundOnce(path, body, targets, c)
  PROVE  /\ \E b \in extractImports(path, body, targets, packages).names : b.local = c.local
         /\ \A b \in extractImports(path, body, targets, packages).names :
              b.local = c.local => b.file = c.from /\ b.name = c.exported
<1> DEFINE names == extractImports(path, body, targets, packages).names
           Target(i) == resolveLocalImport(path, body[i].spec, targets)
           bound == {i \in DOMAIN body : body[i].k = "import" /\ Target(i) # None}
           Rebound(m, i) == \E j \in bound : j > i /\ \E o \in body[j].names : o.local = m.local
           given(i) == {[local |-> m.local, file |-> Target(i), name |-> m.exported] :
                          m \in {o \in body[i].names : ~Rebound(o, i)}}
<1>1. names = UNION {given(i) : i \in bound}
  <2> DEFINE imports == {i \in DOMAIN body : body[i].k \in {"import", "reexport"}}
             linked == {i \in imports : Target(i) # None}
             those == {i \in linked : body[i].k = "import"}
  <2>1. those = bound
    OBVIOUS
  <2> DEFINE Re(m, i) == \E j \in those : j > i /\ \E o \in body[j].names : o.local = m.local
             parts == {{[local |-> m.local, file |-> Target(i), name |-> m.exported] :
                          m \in {o \in body[i].names : ~Re(o, i)}} : i \in those}
  <2>2. names = UNION parts
    BY DEF extractImports
  <2>3. \A m, i : Re(m, i) <=> Rebound(m, i)
    BY <2>1
  <2> HIDE DEF Re, Rebound, those, bound, Target
  <2>4. \A i : {[local |-> m.local, file |-> Target(i), name |-> m.exported] :
                   m \in {o \in body[i].names : ~Re(o, i)}} = given(i)
    BY <2>3
  <2> HIDE DEF given, names
  <2>5. parts = {given(i) : i \in bound}
    BY <2>1, <2>4
  <2> HIDE DEF parts
  <2>6. QED BY <2>2, <2>5
<1> HIDE DEF names
<1>2. \A b \in names : b.local = c.local => b.file = c.from /\ b.name = c.exported
  <2> SUFFICES ASSUME NEW b \in names, b.local = c.local PROVE b.file = c.from /\ b.name = c.exported
    OBVIOUS
  <2>1. PICK i \in bound : b \in given(i)
    <3> HIDE DEF given, bound
    <3>1. QED BY <1>1
  <2>2. PICK m \in body[i].names : b = [local |-> m.local, file |-> Target(i), name |-> m.exported]
    BY <2>1
  <2>3. body[i] \in ToSet(body) /\ body[i].k = "import"
    BY DEF ToSet
  <2>4. QED BY <2>2, <2>3 DEF BoundOnce
<1>3. \E b \in names : b.local = c.local
  <2> DEFINE places == {i \in bound : \E m \in body[i].names : m.local = c.local}
  <2>1. PICK k \in DOMAIN body : body[k] = s
    BY DEF ToSet
  <2>2. k \in places
    BY <2>1
  <2>3. places \subseteq 1..Len(body) /\ Len(body) \in Nat
    BY SequenceOf DEF IsSequence
  <2>4. PICK last \in places : \A i \in places : i <= last
    <3> HIDE DEF places
    <3>1. QED BY <2>2, <2>3, Greatest
  <2>5. PICK m \in body[last].names : m.local = c.local
    OBVIOUS
  <2>6. ~Rebound(m, last)
    <3> SUFFICES ASSUME Rebound(m, last) PROVE FALSE
      OBVIOUS
    <3>1. PICK j \in bound : j > last /\ \E o \in body[j].names : o.local = m.local
      OBVIOUS
    <3>2. j \in places
      BY <3>1, <2>5
    <3>3. j <= last /\ j \in Nat /\ last \in Nat
      BY <3>2, <2>3, <2>4
    <3>4. QED BY <3>1, <3>3
  <2> HIDE DEF Rebound
  <2>7. [local |-> m.local, file |-> Target(last), name |-> m.exported] \in given(last)
    BY <2>6
  <2>8. last \in bound
    OBVIOUS
  <2> HIDE DEF given, bound, places
  <2>9. [local |-> m.local, file |-> Target(last), name |-> m.exported] \in names
    BY <2>7, <2>8, <1>1
  <2>10. QED BY <2>9, <2>5
<1>4. QED BY <1>2, <1>3 DEF names

\* A call that resolves to another node is an edge.
LEMMA CallResolves ==
  ASSUME NEW path, NEW body, NEW defs, NEW imported, NEW s \in ToSet(body), s.k \in {"function", "const"},
         NEW callee, [inner |-> None, callee |-> callee] \in s.calls,
         Callee(path, defs, imported, callee) # None,
         Callee(path, defs, imported, callee) # SymbolId(path, s)
  PROVE  E("calls", SymbolId(path, s), Callee(path, defs, imported, callee))
           \in extractCalls(path, body, defs, imported)
<1> DEFINE Caller(x, c) == IF c.inner # None THEN functionId(path, c.inner)
                           ELSE IF x.k \in {"function", "class", "const"} THEN SymbolId(path, x)
                           ELSE fileId(path)
           pairs == UNION {{<<Caller(x, c), c.callee>> : c \in x.calls} : x \in ToSet(body)}
           call == [inner |-> None, callee |-> callee]
<1>1. extractCalls(path, body, defs, imported) = Calls(path, defs, imported, pairs)
  BY DEF extractCalls
<1>2. <<SymbolId(path, s), callee>> \in pairs
  <2>1. Caller(s, call) = SymbolId(path, s) /\ call.callee = callee
    OBVIOUS
  <2> HIDE DEF Caller, call
  <2>2. <<Caller(s, call), call.callee>> \in {<<Caller(s, c), c.callee>> : c \in s.calls}
    BY DEF call
  <2>3. QED BY <2>1, <2>2
<1> HIDE DEF pairs
<1>3. E("calls", SymbolId(path, s), Callee(path, defs, imported, callee)) \in Calls(path, defs, imported, pairs)
  <2> DEFINE e == E("calls", SymbolId(path, s), Callee(path, defs, imported, callee))
  <2>1. e[2] = SymbolId(path, s) /\ e[3] = Callee(path, defs, imported, callee)
    BY DEF E
  <2>2. e \in {E("calls", p[1], Callee(path, defs, imported, p[2])) : p \in pairs}
    BY <1>2
  <2> HIDE DEF e
  <2>3. e \in Calls(path, defs, imported, pairs)
    BY <2>1, <2>2 DEF Calls
  <2>4. QED BY <2>3 DEF e
<1>4. QED BY <1>1, <1>3

LEMMA CallsLink == PipelineInv => CallsLinkAcrossFiles
<1> SUFFICES ASSUME PipelineInv, phase = "done", NEW f \in KeptBy("code"), NEW b \in Bindings(f),
                    NEW s \in ToSet(f.body), b.from # None, s.k \in {"function", "const"},
                    [inner |-> None, callee |-> b.local] \in s.calls,
                    \A c \in Bindings(f) : c.local = b.local => c = b,
                    \A t \in ToSet(f.body) : t.name # b.local /\ (t.name = s.name => t.k # "class"),
                    SymbolId(f.path, s) # functionId(b.from, b.exported),
                    functionId(b.from, b.exported) \in {n.id : n \in graph.nodes}
             PROVE  E("calls", SymbolId(f.path, s), functionId(b.from, b.exported)) \in graph.edges
  BY DEF CallsLinkAcrossFiles
<1> DEFINE ids == {n.id : n \in ToSet(allNodes)}
           here == SymbolId(f.path, s)
           there == functionId(b.from, b.exported)
           edge == E("calls", here, there)
           defs == Definitions(f.body, CodeKinds)
           names == extractImports(f.path, f.body, importTargets, workspacePackages).names
           given == scanCode(f, importTargets, workspacePackages)
<1>1. PICK i \in KeptAt : f = fileAt(i) /\ Plug(i).kind = "code"
  BY FilesKept
<1>2. /\ repo \in DOMAIN Repos /\ f \in ToSet(Repos[repo].files) /\ Claims(Plug(i), f)
      /\ IsSequence(ScanOf(Plug(i), f, workspacePackages).nodes)
  BY <1>1, KeptIs
<1>3. ScanOf(Plug(i), f, workspacePackages) = given /\ IsSequence(f.body) /\ f.ext \in CodeExts
  BY <1>1, <1>2, OwnersGive
<1>4. Gives(i) = validateContribution(given) /\ IsSequence(given.nodes)
  BY <1>1, <1>2, <1>3 DEF Gives
<1> HIDE DEF given
<1>5. there \in ids /\ there # None
  <2>1. {n.id : n \in graph.nodes} = {n.id : n \in ToSet(allNodes)}
    BY BuiltFrom
  <2>2. there \in ids
    BY <2>1
  <2>3. PICK n \in ToSet(allNodes) : n.id = there
    BY <2>2
  <2>4. PICK j \in KeptAt : n \in ToSet(Gives(j).nodes)
    BY BuiltFrom
  <2>5. IsSequence(ScanOf(Plug(j), fileAt(j), workspacePackages).nodes)
    BY KeptIs
  <2>6. n.id # None
    BY <2>4, <2>5, ValidatedKeeps DEF Gives
  <2>7. QED BY <2>2, <2>3, <2>6
<1>6. Callee(f.path, defs, names, b.local) = there
  <2>1. PICK x \in ToSet(f.body) : x.k = "import" /\ \E n \in x.names :
                  b = [local |-> n.local, exported |-> n.exported,
                       from |-> resolveLocalImport(f.path, x.spec, importTargets)]
    BY DEF Bindings
  <2>2. PICK n \in x.names : b = [local |-> n.local, exported |-> n.exported,
                                  from |-> resolveLocalImport(f.path, x.spec, importTargets)]
    BY <2>1
  <2>3. b.local = n.local /\ b.exported = n.exported
        /\ b.from = resolveLocalImport(f.path, x.spec, importTargets)
    BY <2>2
  <2>4. BoundOnce(f.path, f.body, importTargets, b)
    <3> SUFFICES ASSUME NEW y \in ToSet(f.body), y.k = "import", NEW m \in y.names, m.local = b.local
                 PROVE  /\ resolveLocalImport(f.path, y.spec, importTargets) = b.from
                        /\ m.exported = b.exported
      BY DEF BoundOnce
    <3> DEFINE c == [local |-> m.local, exported |-> m.exported,
                     from |-> resolveLocalImport(f.path, y.spec, importTargets)]
    <3>1. c \in Bindings(f)
      BY DEF Bindings
    <3>2. c.local = m.local /\ c.exported = m.exported
          /\ c.from = resolveLocalImport(f.path, y.spec, importTargets)
      OBVIOUS
    <3> HIDE DEF c
    <3>3. c = b
      BY <3>1, <3>2
    <3>4. QED BY <3>2, <3>3
  <2>5. /\ \E z \in names : z.local = b.local
        /\ \A z \in names : z.local = b.local => z.file = b.from /\ z.name = b.exported
    <3> DEFINE found == extractImports(f.path, f.body, importTargets, workspacePackages).names
    <3>1. /\ IsSequence(f.body) /\ x \in ToSet(f.body) /\ x.k = "import" /\ n \in x.names
          /\ n.local = b.local /\ resolveLocalImport(f.path, x.spec, importTargets) = b.from /\ b.from # None
      BY <1>3, <2>1, <2>3
    <3>2. /\ \E z \in found : z.local = b.local
          /\ \A z \in found : z.local = b.local => z.file = b.from /\ z.name = b.exported
      BY <3>1, <2>4, ImportBinds
    <3>3. QED BY <3>2
  <2>6. \A d \in DOMAIN defs : defs[d].name # b.local
    <3>1. \A d \in DOMAIN defs : defs[d] \in ToSet(defs)
      BY DEF ToSet
    <3> HIDE DEF defs
    <3>2. \A d \in ToSet(defs) : d \in ToSet(f.body)
      BY <1>3, DefinitionsKeep DEF defs
    <3>3. QED BY <3>1, <3>2
  <2> HIDE DEF names, defs
  <2> DEFINE chosen == CHOOSE z \in names : z.local = b.local
  <2>7. chosen \in names /\ chosen.local = b.local
    BY <2>5
  <2>8. Callee(f.path, defs, names, b.local) = functionId(chosen.file, chosen.name)
    BY <2>5, <2>6 DEF Callee
  <2> HIDE DEF chosen
  <2>9. QED BY <2>5, <2>7, <2>8
<1>7. edge \in given.edges
  <2> DEFINE calls == extractCalls(f.path, f.body, defs, names)
  <2>1. calls \subseteq given.edges
    BY <1>3, CodeGives DEF given
  <2>2. /\ [inner |-> None, callee |-> b.local] \in s.calls
        /\ Callee(f.path, defs, names, b.local) # None
        /\ Callee(f.path, defs, names, b.local) # SymbolId(f.path, s)
    BY <1>5, <1>6
  <2> HIDE DEF names, defs
  <2>3. E("calls", SymbolId(f.path, s), Callee(f.path, defs, names, b.local)) \in calls
    BY <2>2, CallResolves
  <2>4. QED BY <2>1, <2>3, <1>6
<1>8. here # None
  BY <1>2, <1>3, PathsAssumption
<1>9. here \in ids
  <2>1. PICK d \in ToSet(defs) : d.name = s.name
    BY <1>3, DefinitionsKeep DEF CodeKinds
  <2>2. d \in ToSet(f.body) /\ d.k # "class"
    BY <1>3, <2>1, DefinitionsKeep
  <2>3. SymbolId(f.path, d) = here
    BY <2>1, <2>2 DEF SymbolId
  <2>4. SymbolNode(f.path, d) \in ToSet(given.nodes) /\ SymbolNode(f.path, d).id = here
    BY <1>3, <2>1, <2>3, CodeGives, SymbolsGive DEF given
  <2> HIDE DEF here
  <2>5. here \in {m.id : m \in ToSet(Gives(i).nodes)}
    BY <2>4, <1>4, <1>8, ValidatedKeeps
  <2>6. \A m \in ToSet(Gives(i).nodes) : m \in ToSet(allNodes)
    BY BuiltFrom
  <2>7. QED BY <2>5, <2>6
<1>10. edge[2] = here /\ edge[3] = there
  BY DEF E
<1> HIDE DEF edge, ids, here, there
<1>11. edge \in Gives(i).edges
  BY <1>4, <1>5, <1>7, <1>8, <1>10, ValidatedKeeps
<1>12. edge \in allEdges
  BY <1>11, BuiltFrom
<1>13. edge \in graph.edges
  BY <1>5, <1>9, <1>10, <1>12, BuiltFrom DEF ids
<1>14. QED BY <1>13 DEF edge, here, there

\* A call of a function imported by name is an edge between the two functions, in
\* whatever order the two files were scanned.
THEOREM CallsLinked == PipelineSpec => []CallsLinkAcrossFiles
BY PipelineKept, CallsLink, PTL

-----------------------------------------------------------------------------
(* Paths and the lengths of their strings                                  *)

\* A directory's or file's path: names that are not empty.
Path(path) == IsSequence(path) /\ \A name \in ToSet(path) : Len(name) \in Nat \ {0}

LEMMA FirstNames ==
  ASSUME NEW T, NEW s \in Seq(T), NEW n \in Nat, n <= Len(s)
  PROVE  /\ SubSeq(s, 1, n) \in Seq(T) /\ Len(SubSeq(s, 1, n)) = n
         /\ \A i \in 1..n : SubSeq(s, 1, n)[i] = s[i]
OBVIOUS

LEMMA PrefixIs ==
  ASSUME NEW s, IsSequence(s), NEW t, IsSequence(t)
  PROVE  IsPrefix(s, t) <=> Len(s) <= Len(t) /\ \A i \in 1..Len(s) : s[i] = t[i]
<1>1. s \in Seq(ToSet(s)) /\ t \in Seq(ToSet(t)) /\ Len(s) \in Nat /\ Len(t) \in Nat
  BY SequenceOf DEF IsSequence
<1>2. ASSUME Len(s) <= Len(t)
      PROVE  SubSeq(s, 1, Len(s)) = SubSeq(t, 1, Len(s)) <=> \A i \in 1..Len(s) : s[i] = t[i]
  <2> DEFINE a == SubSeq(s, 1, Len(s))
             b == SubSeq(t, 1, Len(s))
  <2>1. /\ a \in Seq(ToSet(s)) /\ Len(a) = Len(s) /\ \A i \in 1..Len(s) : a[i] = s[i]
        /\ b \in Seq(ToSet(t)) /\ Len(b) = Len(s) /\ \A i \in 1..Len(s) : b[i] = t[i]
    <3> HIDE DEF a, b
    <3>1. Len(s) <= Len(s)
      BY <1>1
    <3>2. QED BY <1>1, <1>2, <3>1, FirstNames DEF a, b
  <2> HIDE DEF a, b
  <2>2. (\A i \in 1..Len(s) : a[i] = b[i]) => a = b
    <3>1. a \in Seq(ToSet(s) \cup ToSet(t)) /\ b \in Seq(ToSet(s) \cup ToSet(t))
      BY <2>1
    <3>2. QED BY <2>1, <3>1
  <2>3. QED BY <2>1, <2>2 DEF a, b
<1>3. QED BY <1>2 DEF IsPrefix

\* The names of a path, one by one.
LEMMA PathIs ==
  ASSUME NEW path, Path(path)
  PROVE  /\ path \in Seq(ToSet(path)) /\ Len(path) \in Nat /\ DOMAIN path = 1..Len(path)
         /\ \A i \in 1..Len(path) : Len(path[i]) \in Nat \ {0}
         /\ Len(path) = 0 => path = <<>>
<1>1. path \in Seq(ToSet(path)) /\ Len(path) \in Nat /\ DOMAIN path = 1..Len(path)
  BY SequenceOf DEF Path, IsSequence
<1>2. \A i \in 1..Len(path) : path[i] \in ToSet(path)
  BY <1>1 DEF ToSet
<1>3. QED BY <1>1, <1>2 DEF Path

LEMMA FrontIs ==
  ASSUME NEW path, Path(path), path # <<>>
  PROVE  /\ Path(Front(path)) /\ Len(Front(path)) = Len(path) - 1
         /\ \A i \in 1..(Len(path) - 1) : Front(path)[i] = path[i]
<1>1. path \in Seq(ToSet(path)) /\ Len(path) \in Nat \ {0} /\ Len(path) - 1 \in Nat
  BY PathIs
<1>2. /\ Front(path) \in Seq(ToSet(path)) /\ Len(Front(path)) = Len(path) - 1
      /\ \A i \in 1..(Len(path) - 1) : Front(path)[i] = path[i]
  <2>1. Len(path) - 1 <= Len(path)
    BY <1>1
  <2>2. QED BY <1>1, <2>1, FirstNames DEF Front
<1>3. IsSequence(Front(path)) /\ ToSet(Front(path)) \subseteq ToSet(path)
  BY <1>2, SequenceOf
<1>4. QED BY <1>2, <1>3 DEF Path

\* The lengths of a directory's string up to each of its names.
UpTo(dir, u) ==
  /\ u \in [0..Len(dir) -> Nat] /\ u[0] = 0
  /\ \A i \in 1..Len(dir) : u[i] = u[i - 1] + Len(dir[i]) + 1

LEMMA DirLengthIs ==
  ASSUME NEW dir, Path(dir)
  PROVE  \E u : UpTo(dir, u) /\ DirLength(dir) = IF dir = <<>> THEN 1 ELSE u[Len(dir)] - 1
<1> DEFINE n == Len(dir)
           step(g, i) == IF i = 0 THEN 0 ELSE g[i - 1] + Len(dir[i]) + 1
           Is(g) == g = [i \in 0..n |-> step(g, i)]
           add == [i \in 1..n |-> [a \in Nat |-> a + Len(dir[i]) + 1]]
<1>1. n \in Nat /\ \A i \in 1..n : Len(dir[i]) \in Nat
  BY PathIs
<1>2. DirLength(dir) = IF dir = <<>> THEN 1 ELSE (CHOOSE g : Is(g))[n] - 1
  BY DEF DirLength
<1>3. add \in [1..n -> [Nat -> Nat]] /\ \A i \in 1..n, a \in Nat : add[i][a] = a + Len(dir[i]) + 1
  BY <1>1
<1> HIDE DEF add
<1>4. PICK f : History(f, n, Nat, 0, add)
  BY <1>1, <1>3, LoopExists, Zenon
<1>5. f \in [0..n -> Nat] /\ f[0] = 0 /\ \A i \in 1..n : f[i] = add[i][f[i - 1]]
  BY <1>4 DEF History
<1>6. \A i \in 1..n : i - 1 \in 0..n /\ f[i] = f[i - 1] + Len(dir[i]) + 1
  <2> TAKE i \in 1..n
  <2>1. i - 1 \in 0..n
    BY <1>1
  <2>2. f[i - 1] \in Nat /\ f[i] = add[i][f[i - 1]]
    BY <2>1, <1>5
  <2>3. QED BY <2>1, <2>2, <1>3
<1>7. Is(f)
  <2>1. \A i \in 0..n : f[i] = step(f, i)
    <3> TAKE i \in 0..n
    <3>1. CASE i = 0
      BY <3>1, <1>5
    <3>2. CASE i # 0
      <4>1. i \in 1..n
        BY <3>2, <1>1
      <4>2. QED BY <4>1, <1>6, <3>2
    <3>3. QED BY <3>1, <3>2
  <2>2. f = [i \in 0..n |-> f[i]]
    BY <1>5
  <2>3. QED BY <2>1, <2>2
<1> DEFINE g == CHOOSE x : Is(x)
<1>8. Is(g)
  BY <1>7
<1> HIDE DEF g
<1>9. \A i \in 0..n : g[i] = step(g, i)
  BY <1>8
<1> DEFINE S == {i \in 0..n : g[i] = f[i]}
<1>10. 0 \in S
  BY <1>1, <1>5, <1>9
<1>11. \A i \in 0..(n - 1) : i \in S => i + 1 \in S
  <2> SUFFICES ASSUME NEW i \in 0..(n - 1), g[i] = f[i] PROVE g[i + 1] = f[i + 1] /\ i + 1 \in 0..n
    OBVIOUS
  <2>1. i + 1 \in 1..n /\ i + 1 \in 0..n /\ (i + 1) - 1 = i /\ i + 1 # 0
    BY <1>1
  <2>2. g[i + 1] = g[i] + Len(dir[i + 1]) + 1
    <3>1. g[i + 1] = step(g, i + 1)
      BY <2>1, <1>9
    <3>2. QED BY <3>1, <2>1
  <2>3. f[i + 1] = f[i] + Len(dir[i + 1]) + 1
    BY <2>1, <1>6
  <2>4. QED BY <2>1, <2>2, <2>3
<1> HIDE DEF S
<1>12. \A i \in 0..n : i \in S
  BY <1>1, <1>10, <1>11, Induction
<1>13. g[n] = f[n]
  BY <1>1, <1>12 DEF S
<1>14. DirLength(dir) = IF dir = <<>> THEN 1 ELSE f[n] - 1
  BY <1>2, <1>13 DEF g
<1>15. QED BY <1>5, <1>6, <1>14 DEF UpTo

\* A directory inside another one has the longer string, but for a directory of one
\* letter in the root, whose string is ".".
LEMMA DeeperIsLonger ==
  ASSUME NEW p, NEW q, Path(p), Path(q), Len(p) < Len(q), \A i \in 1..Len(p) : p[i] = q[i],
         ~ (Len(q) = 1 /\ Len(q[1]) = 1)
  PROVE  DirLength(p) < DirLength(q)
<1>1. /\ Len(p) \in Nat /\ Len(q) \in Nat /\ \A i \in 1..Len(q) : Len(q[i]) \in Nat \ {0}
      /\ q # <<>> /\ (Len(p) = 0 <=> p = <<>>)
  BY PathIs
<1>2. PICK u : UpTo(p, u) /\ DirLength(p) = IF p = <<>> THEN 1 ELSE u[Len(p)] - 1
  BY DirLengthIs
<1>3. PICK v : UpTo(q, v) /\ DirLength(q) = IF q = <<>> THEN 1 ELSE v[Len(q)] - 1
  BY DirLengthIs
<1>4. /\ u \in [0..Len(p) -> Nat] /\ u[0] = 0
      /\ \A i \in 1..Len(p) : u[i] = u[i - 1] + Len(p[i]) + 1
  BY <1>2 DEF UpTo
<1>5. /\ v \in [0..Len(q) -> Nat] /\ v[0] = 0
      /\ \A i \in 1..Len(q) : v[i] = v[i - 1] + Len(q[i]) + 1
  BY <1>3 DEF UpTo
<1>6. u[Len(p)] = v[Len(p)]
  <2> DEFINE S == {i \in 0..Len(p) : u[i] = v[i]}
  <2>1. 0 \in S
    BY <1>1, <1>4, <1>5
  <2>2. \A i \in 0..(Len(p) - 1) : i \in S => i + 1 \in S
    <3> SUFFICES ASSUME NEW i \in 0..(Len(p) - 1), u[i] = v[i]
                 PROVE  u[i + 1] = v[i + 1] /\ i + 1 \in 0..Len(p)
      OBVIOUS
    <3>1. i + 1 \in 1..Len(p) /\ i + 1 \in 1..Len(q) /\ (i + 1) - 1 = i /\ i + 1 \in 0..Len(p)
      BY <1>1
    <3>2. p[i + 1] = q[i + 1]
      BY <3>1
    <3>3. u[i + 1] = u[i] + Len(p[i + 1]) + 1
      BY <3>1, <1>4
    <3>4. v[i + 1] = v[i] + Len(q[i + 1]) + 1
      BY <3>1, <1>5
    <3>5. QED BY <3>1, <3>2, <3>3, <3>4
  <2> HIDE DEF S
  <2>3. \A i \in 0..Len(p) : i \in S
    BY <1>1, <2>1, <2>2, Induction
  <2>4. Len(p) \in 0..Len(p)
    BY <1>1
  <2>5. QED BY <2>3, <2>4 DEF S
<1>7. v[Len(q)] >= v[Len(p)] + 2 * (Len(q) - Len(p))
  <2> DEFINE S == {i \in 0..Len(q) : i >= Len(p) => v[i] >= v[Len(p)] + 2 * (i - Len(p))}
  <2>1. 0 \in S
    BY <1>1, <1>5
  <2>2. \A i \in 0..(Len(q) - 1) : i \in S => i + 1 \in S
    <3> SUFFICES ASSUME NEW i \in 0..(Len(q) - 1), i \in S, i + 1 >= Len(p)
                 PROVE  v[i + 1] >= v[Len(p)] + 2 * ((i + 1) - Len(p))
      BY <1>1
    <3>1. i + 1 \in 1..Len(q) /\ (i + 1) - 1 = i /\ i \in 0..Len(q) /\ Len(p) \in 0..Len(q)
      BY <1>1
    <3>2. v[i + 1] = v[i] + Len(q[i + 1]) + 1 /\ Len(q[i + 1]) \in Nat \ {0}
      BY <3>1, <1>1, <1>5
    <3>3. v[i] \in Nat /\ v[Len(p)] \in Nat
      BY <3>1, <1>5
    <3>4. CASE i >= Len(p)
      <4>1. v[i] >= v[Len(p)] + 2 * (i - Len(p))
        BY <3>4
      <4>2. QED BY <4>1, <3>1, <3>2, <3>3, <1>1
    <3>5. CASE i + 1 = Len(p)
      BY <3>5, <3>3, <1>1
    <3>6. QED BY <3>1, <3>4, <3>5, <1>1
  <2> HIDE DEF S
  <2>3. \A i \in 0..Len(q) : i \in S
    BY <1>1, <2>1, <2>2, Induction
  <2>4. Len(q) \in 0..Len(q) /\ Len(q) >= Len(p)
    BY <1>1
  <2>5. QED BY <2>3, <2>4 DEF S
<1>8. v[Len(p)] \in Nat /\ v[Len(q)] \in Nat
  BY <1>1, <1>5
<1>9. DirLength(q) = v[Len(q)] - 1
  BY <1>1, <1>3
<1>10. CASE p # <<>>
  BY <1>1, <1>2, <1>6, <1>7, <1>8, <1>9, <1>10
<1>11. CASE p = <<>>
  <2>1. DirLength(p) = 1 /\ Len(p) = 0 /\ v[Len(p)] = 0
    BY <1>1, <1>2, <1>5, <1>11
  <2>2. v[Len(q)] > 2
    <3>1. CASE Len(q) # 1
      BY <3>1, <2>1, <1>1, <1>7, <1>8
    <3>2. CASE Len(q) = 1
      <4>1. 1 \in 1..Len(q)
        BY <3>2
      <4>2. v[1] = v[0] + Len(q[1]) + 1 /\ Len(q[1]) \in Nat \ {0}
        BY <4>1, <1>1, <1>5
      <4>3. Len(q[1]) # 1 /\ v[0] = 0
        BY <3>2, <1>5
      <4>4. PICK l \in Nat : l = Len(q[1]) /\ l # 0 /\ l # 1
        BY <4>2, <4>3
      <4>5. v[1] = l + 1
        BY <4>2, <4>3, <4>4
      <4>6. v[1] > 2
        <5>1. l \in Nat /\ l # 0 /\ l # 1
          BY <4>4
        <5>2. l + 1 > 2
          BY <5>1
        <5>3. QED BY <5>2, <4>5
      <4>7. QED BY <4>6, <3>2
    <3>3. QED BY <3>1, <3>2
  <2>3. QED BY <2>1, <2>2, <1>8, <1>9
<1>12. QED BY <1>10, <1>11

LEMMA DirLengthNat ==
  ASSUME NEW dir, Path(dir)
  PROVE  DirLength(dir) \in Int
<1>1. PICK u : UpTo(dir, u) /\ DirLength(dir) = IF dir = <<>> THEN 1 ELSE u[Len(dir)] - 1
  BY DirLengthIs
<1>2. u[Len(dir)] \in Nat
  BY <1>1, PathIs DEF UpTo
<1>3. QED BY <1>1, <1>2

-----------------------------------------------------------------------------
(* Membership of packages                                                  *)

\* Of numbered things with a size, one is the first of the largest.
LEMMA FirstLargest ==
  ASSUME NEW n \in Nat, NEW S, S \subseteq 1..n, S # {}, NEW size, \A i \in S : size[i] \in Int
  PROVE  \E i \in S : \A j \in S : size[i] > size[j] \/ (size[i] = size[j] /\ i <= j)
<1> DEFINE Beats(i, j) == size[i] > size[j] \/ (size[i] = size[j] /\ i <= j)
           Upto(k) == {i \in S : i <= k}
           T == {k \in 0..n : Upto(k) = {} \/ \E i \in Upto(k) : \A j \in Upto(k) : Beats(i, j)}
<1>0. \A i \in S : i \in Nat /\ 1 <= i /\ i <= n
  OBVIOUS
<1>1. 0 \in T
  <2>1. \A i \in S : ~ (i <= 0)
    BY <1>0
  <2>2. Upto(0) = {}
    BY <2>1
  <2>3. 0 \in 0..n
    OBVIOUS
  <2> HIDE DEF Upto
  <2>4. QED BY <2>2, <2>3
<1>2. ASSUME NEW k \in 0..(n - 1), k \in T PROVE k + 1 \in T
  <2>1. k + 1 \in 0..n
    OBVIOUS
  <2>2. CASE k + 1 \notin S
    <3>1. Upto(k + 1) = Upto(k)
      <4>1. \A i \in S : i <= k + 1 <=> i <= k
        BY <1>0, <2>2
      <4>2. QED BY <4>1
    <3> HIDE DEF Upto, Beats
    <3>2. QED BY <3>1, <2>1, <1>2
  <2>3. CASE k + 1 \in S
    <3>1. Upto(k + 1) = Upto(k) \cup {k + 1} /\ k + 1 \in Upto(k + 1)
      <4>1. \A i \in S : i <= k + 1 <=> i <= k \/ i = k + 1
        BY <1>0
      <4>2. k + 1 <= k + 1
        OBVIOUS
      <4>3. QED BY <4>1, <4>2, <2>3
    <3>2. Beats(k + 1, k + 1)
      BY <2>3
    <3>3. CASE Upto(k) = {}
      <4>1. \A j \in Upto(k + 1) : Beats(k + 1, j)
        <5> HIDE DEF Upto, Beats
        <5>1. QED BY <3>1, <3>2, <3>3
      <4> HIDE DEF Upto, Beats
      <4>2. QED BY <4>1, <3>1, <2>1
    <3>4. CASE Upto(k) # {}
      <4>1. PICK i \in Upto(k) : \A j \in Upto(k) : Beats(i, j)
        <5> HIDE DEF Upto, Beats
        <5>1. QED BY <1>2, <3>4
      <4>2. size[i] \in Int /\ size[k + 1] \in Int /\ i <= k + 1 /\ \A j \in Upto(k) : size[j] \in Int
        BY <2>3
      <4>3. CASE size[k + 1] > size[i]
        <5>1. \A j \in Upto(k) : Beats(k + 1, j)
          BY <4>1, <4>2, <4>3
        <5> HIDE DEF Upto, Beats
        <5>2. \A j \in Upto(k + 1) : Beats(k + 1, j)
          BY <5>1, <3>1, <3>2
        <5>3. QED BY <5>2, <3>1, <2>1
      <4>4. CASE ~ (size[k + 1] > size[i])
        <5>1. Beats(i, k + 1)
          BY <4>2, <4>4
        <5> HIDE DEF Upto, Beats
        <5>2. \A j \in Upto(k + 1) : Beats(i, j)
          BY <5>1, <3>1, <4>1
        <5>3. QED BY <5>2, <3>1, <2>1
      <4>5. QED BY <4>3, <4>4
    <3>5. QED BY <3>3, <3>4
  <2>4. QED BY <2>2, <2>3
<1> HIDE DEF T
<1>3. \A k \in 0..n : k \in T
  BY <1>1, <1>2, Induction
<1>4. n \in T
  BY <1>3
<1>5. Upto(n) = S
  BY <1>0
<1> HIDE DEF Upto
<1>6. S = {} \/ \E i \in S : \A j \in S : Beats(i, j)
  BY <1>4, <1>5 DEF T
<1>7. QED BY <1>6

\* The nearest package is one that the path is under, of the longest directory.
LEMMA NearestIs ==
  ASSUME NEW packages, IsSequence(packages), \A p \in ToSet(packages) : Path(p.dir),
         NEW path, Path(path), Nearest(packages, path) # None
  PROVE  /\ Nearest(packages, path) \in ToSet(packages)
         /\ IsPrefix(Nearest(packages, path).dir, path)
         /\ \A q \in ToSet(packages) : IsPrefix(q.dir, path) =>
              DirLength(q.dir) <= DirLength(Nearest(packages, path).dir)
<1> DEFINE under == {i \in DOMAIN packages : packages[i].dir = <<>> \/ IsPrefix(packages[i].dir, path)}
           size == [i \in under |-> DirLength(packages[i].dir)]
           Precedes(i, j) == \/ DirLength(packages[i].dir) > DirLength(packages[j].dir)
                             \/ DirLength(packages[i].dir) = DirLength(packages[j].dir) /\ i <= j
           first == CHOOSE i \in under : \A j \in under : Precedes(i, j)
<1>1. Nearest(packages, path) = IF under = {} THEN None ELSE packages[first]
  BY DEF Nearest
<1>2. DOMAIN packages = 1..Len(packages) /\ Len(packages) \in Nat
  BY SequenceOf DEF IsSequence
<1>3. \A i \in DOMAIN packages : packages[i] \in ToSet(packages)
  BY DEF ToSet
<1>4. under # {}
  BY <1>1
<1>5. under \subseteq 1..Len(packages)
  BY <1>2
<1>6. \A i \in under : size[i] = DirLength(packages[i].dir) /\ size[i] \in Int
  <2> TAKE i \in under
  <2>1. Path(packages[i].dir)
    BY <1>3
  <2>2. QED BY <2>1, DirLengthNat
<1>7. \A i \in under : packages[i].dir = <<>> \/ IsPrefix(packages[i].dir, path)
  OBVIOUS
<1>8. \A i \in DOMAIN packages : IsPrefix(packages[i].dir, path) => i \in under
  OBVIOUS
<1> HIDE DEF under, size
<1>9. \E i \in under : \A j \in under : Precedes(i, j)
  <2>1. PICK i \in under : \A j \in under : size[i] > size[j] \/ (size[i] = size[j] /\ i <= j)
    <3>1. \A i \in under : size[i] \in Int
      BY <1>6
    <3>2. QED BY <3>1, <1>2, <1>4, <1>5, FirstLargest
  <2>2. \A j \in under : Precedes(i, j)
    BY <2>1, <1>6
  <2>3. QED BY <2>2
<1>10. first \in under /\ \A j \in under : Precedes(first, j)
  BY <1>9
<1> HIDE DEF first
<1>11. Nearest(packages, path) = packages[first]
  BY <1>1, <1>4
<1>12. \A j \in under : DirLength(packages[j].dir) <= DirLength(packages[first].dir)
  <2> TAKE j \in under
  <2>1. Precedes(first, j) /\ DirLength(packages[j].dir) \in Int /\ DirLength(packages[first].dir) \in Int
    BY <1>6, <1>10
  <2>2. QED BY <2>1
<1>13. IsPrefix(packages[first].dir, path)
  <2>1. CASE packages[first].dir = <<>>
    <3>1. IsSequence(<<>>) /\ IsSequence(path) /\ Len(path) \in Nat
      BY EmptySequence, PathIs DEF Path
    <3>2. Len(<<>>) = 0 /\ 1..Len(<<>>) = {} /\ Len(<<>>) <= Len(path)
      BY <3>1
    <3>3. \A i \in 1..Len(<<>>) : <<>>[i] = path[i]
      BY <3>2
    <3>4. IsPrefix(<<>>, path)
      BY <3>1, <3>2, <3>3, PrefixIs
    <3>5. QED BY <3>4, <2>1
  <2>2. CASE packages[first].dir # <<>>
    BY <2>2, <1>7, <1>10
  <2>3. QED BY <2>1, <2>2
<1>14. \A q \in ToSet(packages) : IsPrefix(q.dir, path) => DirLength(q.dir) <= DirLength(packages[first].dir)
  <2> TAKE q \in ToSet(packages)
  <2>1. PICK j \in DOMAIN packages : q = packages[j]
    BY DEF ToSet
  <2>2. QED BY <2>1, <1>8, <1>12
<1>15. packages[first] \in ToSet(packages)
  BY <1>3, <1>5, <1>10, <1>2
<1>16. QED BY <1>11, <1>13, <1>14, <1>15

\* The directory of a package has a name of more than one letter, unless it is deeper
\* or the root: the string of the root is one letter long too.
NoOneLetterDirectory ==
  \A r \in DOMAIN Repos : \A f \in ToSet(Repos[r].files) :
    Last(f.path) = "package.json" /\ Len(f.path) = 2 => Len(f.path[1]) # 1

\* Of two packages that hold a file, the one with the longer string lies no higher.
LEMMA LongerIsDeeper ==
  ASSUME NoOneLetterDirectory, NEW r \in DOMAIN Repos, NEW f \in ToSet(Repos[r].files),
         Last(f.path) = "package.json", NEW p, Path(p), NEW path, Path(path),
         IsPrefix(p, path), IsPrefix(posixDirname(f.path), path),
         DirLength(posixDirname(f.path)) <= DirLength(p)
  PROVE  Len(posixDirname(f.path)) <= Len(p)
<1> DEFINE q == posixDirname(f.path)
<1>1. Path(f.path) /\ f.path # <<>>
  BY PathsAssumption DEF Path
<1>2. /\ Path(q) /\ Len(q) = Len(f.path) - 1 /\ Len(f.path) \in Nat
      /\ \A i \in 1..(Len(f.path) - 1) : q[i] = f.path[i]
  BY <1>1, FrontIs, PathIs DEF posixDirname
<1>3. \A i \in 1..Len(p) : p[i] = path[i]
  BY PrefixIs DEF Path
<1>4. \A i \in 1..Len(q) : q[i] = path[i]
  BY <1>2, PrefixIs DEF Path
<1>5. Len(p) \in Nat /\ Len(q) \in Nat
  BY <1>2, PathIs
<1>6. DirLength(p) \in Int /\ DirLength(q) \in Int
  BY <1>2, DirLengthNat
<1> HIDE DEF q
<1>7. ~ (Len(q) = 1 /\ Len(q[1]) = 1)
  <2> SUFFICES ASSUME Len(q) = 1, Len(q[1]) = 1 PROVE FALSE
    OBVIOUS
  <2>1. Len(f.path) = 2
    <3>1. PICK m \in Nat : m = Len(f.path) /\ m - 1 = 1
      BY <1>2
    <3>2. m = 2
      BY <3>1
    <3>3. QED BY <3>1, <3>2
  <2>2. q[1] = f.path[1]
    BY <1>2, <2>1
  <2>3. QED BY <2>1, <2>2 DEF NoOneLetterDirectory
<1>8. ~ (Len(p) < Len(q))
  <2> SUFFICES ASSUME Len(p) < Len(q) PROVE FALSE
    OBVIOUS
  <2>1. \A i \in 1..Len(p) : p[i] = q[i]
    <3> TAKE i \in 1..Len(p)
    <3>1. i \in 1..Len(q)
      BY <1>5
    <3>2. QED BY <3>1, <1>3, <1>4
  <2>2. DirLength(p) < DirLength(q)
    BY <1>2, <1>7, <2>1, DeeperIsLonger
  <2>3. DirLength(q) <= DirLength(p)
    BY DEF q
  <2>4. QED BY <2>2, <2>3, <1>6
<1>9. Len(q) <= Len(p)
  BY <1>5, <1>8
<1>10. QED BY <1>9 DEF q

packagesOf(nodes) == Picked(nodes, {i \in DOMAIN nodes : nodes[i].type = "package"})

\* A membership of a package is derived from a file or a migration.
LEMMA MembershipsDerived ==
  ASSUME PipelineInv, phase = "done", NEW e \in graph.edges, e[1] = "belongs_to", e[3][1] = "package"
  PROVE  \E n \in ToSet(allNodes) :
           /\ n.type \in {"file", "migration"} /\ n.id = <<n.type, n.path>> /\ Path(n.path)
           /\ Nearest(packagesOf(allNodes), n.path) # None
           /\ e = E("belongs_to", n.id, Nearest(packagesOf(allNodes), n.path).id)
<1> DEFINE packages == packagesOf(allNodes)
           names == {p.label : p \in ToSet(packages)}
           members == {n \in ToSet(allNodes) : n.type \in {"file", "migration"} /\ Nearest(packages, n.path) # None}
           belong == {E("belongs_to", n.id, Nearest(packages, n.path).id) : n \in members}
           depend == {{E("depends_on", p.id, packageId(dep)) : dep \in p.deps \cap names} : p \in ToSet(packages)}
<1>1. e \in allEdges
  BY BuiltFrom
<1>2. \A i \in KeptAt : e \notin Gives(i).edges
  <2> SUFFICES ASSUME NEW i \in KeptAt, e \in Gives(i).edges PROVE FALSE
    OBVIOUS
  <2>1. /\ repo \in DOMAIN Repos /\ fileAt(i) \in ToSet(Repos[repo].files) /\ Claims(Plug(i), fileAt(i))
        /\ IsSequence(ScanOf(Plug(i), fileAt(i), workspacePackages).nodes)
    BY KeptIs
  <2>2. e \in ScanOf(Plug(i), fileAt(i), workspacePackages).edges
    BY <2>1, ValidatedKeeps DEF Gives
  <2>3. NoMembers(ScanOf(Plug(i), fileAt(i), workspacePackages).edges)
    BY <2>1, OwnersGive
  <2>4. QED BY <2>2, <2>3 DEF NoMembers
<1>3. PICK k \in Finalized : e \in FinalizeOf(registered[k], allNodes, own)
  BY <1>1, <1>2, BuiltFrom
<1>4. e \in derivePackageEdges(allNodes)
  <2>1. NoMembers(linkDocsToCode(own, allNodes))
    BY LinksGive
  <2>2. e \notin linkDocsToCode(own, allNodes)
    BY <2>1 DEF NoMembers
  <2>3. QED BY <2>2, <1>3 DEF FinalizeOf
<1>5. derivePackageEdges(allNodes) = belong \cup UNION depend
  BY DEF derivePackageEdges, packagesOf
<1>6. \A d \in UNION depend : d[1] = "depends_on"
  BY DEF E
<1> HIDE DEF packages, names, depend
<1>7. e \in belong
  BY <1>4, <1>5, <1>6
<1>8. PICK n \in members : e = E("belongs_to", n.id, Nearest(packages, n.path).id)
  BY <1>7
<1>9. n \in ToSet(allNodes) /\ n.type \in {"file", "migration"} /\ Nearest(packages, n.path) # None
  OBVIOUS
<1>10. n.id = <<n.type, n.path>> /\ Path(n.path)
  <2>1. PICK i \in KeptAt : n \in ToSet(Gives(i).nodes)
    BY <1>9, BuiltFrom
  <2>2. /\ repo \in DOMAIN Repos /\ fileAt(i) \in ToSet(Repos[repo].files) /\ Claims(Plug(i), fileAt(i))
        /\ IsSequence(ScanOf(Plug(i), fileAt(i), workspacePackages).nodes)
    BY KeptIs
  <2>3. n \in ToSet(ScanOf(Plug(i), fileAt(i), workspacePackages).nodes)
    BY <2>1, <2>2, ValidatedKeeps DEF Gives
  <2>4. Plug(i).kind # "package"
    BY <2>2, <2>3, <1>9, OwnersGive, PackageGives
  <2>5. OfFile(n, fileAt(i).path)
    BY <2>2, <2>3, <2>4, OwnersGive
  <2>6. n.id = <<n.type, n.path>> /\ n.path = fileAt(i).path
    BY <2>5, <1>9 DEF OfFile
  <2>7. QED BY <2>2, <2>6, PathsAssumption DEF Path
<1>11. QED BY <1>8, <1>9, <1>10 DEF packages

LEMMA Membership == NoOneLetterDirectory /\ PipelineInv => MembershipIsDeepest
<1> DEFINE memberships == {e \in graph.edges : e[1] = "belongs_to" /\ e[3][1] = "package"}
           Holds(p, e) == p \in PackageNodes(allNodes) /\ IsPrefix(p.dir, e[2][2])
           packages == packagesOf(allNodes)
<1> SUFFICES ASSUME NoOneLetterDirectory, PipelineInv, phase = "done", NEW e \in memberships
             PROVE  /\ \A d \in memberships : d[2] = e[2] => d = e
                    /\ \E p \in PackageNodes(allNodes) :
                         /\ p.id = e[3] /\ Holds(p, e)
                         /\ \A q \in PackageNodes(allNodes) : Holds(q, e) => Len(q.dir) <= Len(p.dir)
  BY DEF MembershipIsDeepest
<1>1. PICK n \in ToSet(allNodes) :
        /\ n.id = <<n.type, n.path>> /\ Path(n.path) /\ Nearest(packages, n.path) # None
        /\ e = E("belongs_to", n.id, Nearest(packages, n.path).id)
  BY MembershipsDerived
<1>2. e[2] = n.id /\ e[2][2] = n.path /\ e[3] = Nearest(packages, n.path).id
  BY <1>1 DEF E
<1>3. \A d \in memberships : d[2] = e[2] => d = e
  <2> SUFFICES ASSUME NEW d \in memberships, d[2] = e[2] PROVE d = e
    OBVIOUS
  <2>1. PICK m \in ToSet(allNodes) :
          /\ m.id = <<m.type, m.path>>
          /\ d = E("belongs_to", m.id, Nearest(packages, m.path).id)
    BY MembershipsDerived
  <2>2. m.id = n.id
    BY <2>1, <1>2 DEF E
  <2>3. m.path = n.path
    BY <2>1, <2>2, <1>1
  <2>4. QED BY <2>1, <2>2, <2>3, <1>1
<1>4. IsSequence(packages) /\ ToSet(packages) = PackageNodes(allNodes)
  <2>1. IsSequence(allNodes)
    BY BuiltFrom
  <2> DEFINE S == {i \in DOMAIN allNodes : allNodes[i].type = "package"}
  <2>2. IsSequence(packages) /\ ToSet(packages) = {allNodes[i] : i \in S \cap DOMAIN allNodes}
    BY <2>1, PickedHolds DEF packagesOf
  <2>3. {allNodes[i] : i \in S \cap DOMAIN allNodes} = PackageNodes(allNodes)
    BY DEF PackageNodes, ToSet
  <2>4. QED BY <2>2, <2>3
<1> HIDE DEF packages, memberships
<1>5. \A q \in PackageNodes(allNodes) :
        \E f \in ToSet(Repos[repo].files) : Last(f.path) = "package.json" /\ q.dir = posixDirname(f.path)
  <2>1. \A q \in PackageNodes(allNodes) : q \in ToSet(allNodes) /\ q.type = "package"
    BY DEF PackageNodes
  <2>2. QED BY <2>1, PackagesKnown
<1>6. repo \in DOMAIN Repos
  BY DEF PipelineInv, RegistryInv
<1>7. \A q \in PackageNodes(allNodes) : Path(q.dir)
  <2> TAKE q \in PackageNodes(allNodes)
  <2>1. PICK f \in ToSet(Repos[repo].files) : q.dir = posixDirname(f.path)
    BY <1>5
  <2>2. Path(f.path) /\ f.path # <<>>
    BY <1>6, PathsAssumption DEF Path
  <2>3. QED BY <2>1, <2>2, FrontIs DEF posixDirname
<1> DEFINE p == Nearest(packages, n.path)
<1>8. /\ p \in PackageNodes(allNodes) /\ IsPrefix(p.dir, n.path)
      /\ \A q \in PackageNodes(allNodes) : IsPrefix(q.dir, n.path) => DirLength(q.dir) <= DirLength(p.dir)
  BY <1>1, <1>4, <1>7, NearestIs
<1> HIDE DEF p
<1>9. \A q \in PackageNodes(allNodes) : Holds(q, e) => Len(q.dir) <= Len(p.dir)
  <2> SUFFICES ASSUME NEW q \in PackageNodes(allNodes), Holds(q, e) PROVE Len(q.dir) <= Len(p.dir)
    OBVIOUS
  <2>1. PICK f \in ToSet(Repos[repo].files) : Last(f.path) = "package.json" /\ q.dir = posixDirname(f.path)
    BY <1>5
  <2>2. IsPrefix(q.dir, n.path)
    BY <1>2
  <2>3. DirLength(q.dir) <= DirLength(p.dir)
    BY <2>2, <1>8
  <2>4. QED BY <2>1, <2>2, <2>3, <1>1, <1>6, <1>7, <1>8, LongerIsDeeper
<1>10. p.id = e[3] /\ Holds(p, e)
  BY <1>2, <1>8 DEF p
<1>11. QED BY <1>3, <1>8, <1>9, <1>10

\* A file belongs to one package at most, the innermost one that holds it, if no package
\* of a repository lies in a directory of one letter.
THEOREM MembershipDeepest == NoOneLetterDirectory => (PipelineSpec => []MembershipIsDeepest)
<1> SUFFICES ASSUME NoOneLetterDirectory PROVE PipelineSpec => []MembershipIsDeepest
  OBVIOUS
<1>1. PipelineInv => MembershipIsDeepest
  BY Membership
<1>2. QED BY <1>1, PipelineKept, PTL
=============================================================================

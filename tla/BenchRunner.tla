---------------------------- MODULE BenchRunner ----------------------------
(***************************************************************************)
(* kawn benchmark: runBenchmark stages every project twice, runs each task *)
(* with each agent in both conditions, grades what an e2e session changed, *)
(* and writes the report at the very end.  The harness is one thread: from *)
(* the close of a session to the spawn of the next it does not yield, but  *)
(* the agent, the helpers it leaves and the test command write files while *)
(* it works.                                                               *)
(*                                                                         *)
(* A file's content is who wrote it last; a link stays a link to the       *)
(* original in every copy.  An agent writes in the directory it is given,  *)
(* and through the links there.  A project's sessions are the slots 0, 1,  *)
(* 2, ... of the nested loops, two slots for every repeat.                 *)
(***************************************************************************)
EXTENDS ChildSession, Sequences, FiniteSets

CONSTANTS
  Campaigns,      \* what may be asked for: [agents, projects], projects being
                  \* sequences of tasks [mode, gold, tested]
  Repeat,         \* --repeat
  SkipPreflight,  \* --skip-preflight
  Files,          \* the files a session may touch
  Source,         \* those the project has, committed or not
  Links,          \* those of them that are links
  Excluded,       \* those of EXCLUDE_NAMES among Files and ".kawn"
  TestOutput,     \* those the tests write
  MaxFailures,    \* bound on what goes wrong: calls that throw, CLIs that go away
  MaxEdits        \* bound on the edits agents and their helpers make

\* A graph is never copied: .kawn is one of EXCLUDE_NAMES.
ASSUME BenchAssumption == ".kawn" \in Excluded

VARIABLES
  opts,           \* what was asked for
  pc,             \* where the harness is
  project, slot,  \* the loops
  order,          \* the condition of the last session of the repeat
  trees,          \* the workspaces of the staged project, and their files
  roots,          \* the projects whose rootDir exists
  e2eCounter,     \* staged.e2eCounter
  cwd,            \* the workspace of the session
  preSnapshot,    \* what the snapshot before it saw
  strays,         \* the workspaces with a helper of an earlier session
  homes,          \* the sessions whose CODEX_HOME exists
  outcome,        \* the verdict on the session, and its grades
  runs, reported, \* how many runs there are so far, and whether they are in a report
  throwing,       \* an exception is on its way through the finally
  failures,       \* how much has gone wrong
  installed, loggedIn,  \* the machine: the CLIs on PATH of those asked for, Codex's auth.json
  edits,          \* how many edits there have been
  \* history variables
  opened,         \* the session's workspace when it started
  touched,        \* the plain files of it that its agent changed since
  missed,         \* BOOLEAN: a snapshot of it could not read some file
  spilled,        \* what else was written in: "shared" copies, the source behind a "link"
  unstaged,       \* the projects whose staging failed
  stuckRoots,     \* the projects and sessions whose temporary directories could not
  stuckHomes      \* be removed

history == <<opened, touched, missed, spilled, unstaged, stuckRoots, stuckHomes>>
planVars == <<opts, project, slot, order>>
resultVars == <<runs, reported>>
faultVars == <<throwing, failures>>
harnessVars == <<pc, planVars, resultVars, faultVars>>
diskVars == <<trees, roots, e2eCounter, cwd, preSnapshot>>
worldVars == <<strays, homes, installed, loggedIn, edits, history>>
vars == <<childVars, harnessVars, diskVars, worldVars, outcome>>

Conditions == {"with", "without"}
Other(c) == CHOOSE d \in Conditions : d # c

AllFiles == Files \cup {".kawn"}
SourceTree == [f \in AllFiles |-> IF f \notin Source THEN "absent"
                                  ELSE IF f \in Links THEN "link" ELSE "source"]

\* The slots of a project, and the loop variables of a slot.
Pair == 2 * Repeat
PerTask == Pair * Len(opts.agents)
Slots(p) == PerTask * Len(opts.projects[p])
task == opts.projects[project][(slot \div PerTask) + 1]
agent == opts.agents[((slot \div Pair) % Len(opts.agents)) + 1]
FirstOfRepeat == slot % 2 = 0
FirstOfAgent == slot % Pair = 0
session == <<project, slot>>

\* Codex reads in a read-only sandbox; Claude's arguments name the tools it may use, but
\* bypass the permissions that would hold it to them.
MayWrite == agent = "claude" \/ task.mode = "e2e"

\* cpSync over what is there: excluded names are not copied, what only the destination
\* has stays, and a link is made anew to where the original points.
copyTree(from, to) ==
  [f \in AllFiles |-> IF f \in Excluded \/ from[f] = "absent" THEN to[f] ELSE from[f]]

Empty == [f \in AllFiles |-> "absent"]
At(w) == IF w \in DOMAIN trees THEN trees[w] ELSE Empty
Write(w, t) == [x \in DOMAIN trees \cup {w} |-> IF x = w THEN t ELSE trees[x]]

\* walkSnapshot: the plain files, but for those it cannot read.
PlainFiles(t) == [f \in AllFiles |-> IF t[f] = "link" THEN "absent" ELSE t[f]]
snapshotDir(t, unread) ==
  [f \in AllFiles \ Excluded |-> IF f \in unread THEN "absent" ELSE PlainFiles(t)[f]]

\* A fault: a file that is gone is no change.
diffSnapshotKeeping(post, pre) == {f \in DOMAIN pre : post[f] \notin {pre[f], "absent"}}
diffSnapshot(post, pre) == {f \in DOMAIN pre : post[f] # pre[f]}

\* gradeChangeBoundary: edits outside the gold set are counted, if there is one.
gradeChangeBoundary(changed, gold) ==
  [changed |-> changed, outside |-> IF gold = {} THEN {} ELSE changed \ gold,
   judged |-> gold # {}, graded |-> TRUE]

Ungraded == [changed |-> {}, outside |-> {}, judged |-> FALSE, graded |-> FALSE]
Unjudged == [ok |-> FALSE, boundary |-> Ungraded, touched |-> {}, missed |-> FALSE]

isAvailable(a) == a \in installed /\ (a = "codex" => loggedIn)
Asked == {opts.agents[i] : i \in 1..Len(opts.agents)}
preflight == \A a \in Asked : isAvailable(a)

-----------------------------------------------------------------------------

Init ==
  /\ ChildInit
  /\ opts \in Campaigns
  /\ pc = "preflight" /\ project = 1 /\ slot = 0 /\ order = "with"
  /\ trees = <<>> /\ roots = {} /\ e2eCounter = 0
  /\ cwd = <<"without", 0>> /\ preSnapshot = snapshotDir(Empty, {})
  /\ strays = {} /\ homes = {} /\ outcome = Unjudged
  /\ runs = 0 /\ reported = FALSE /\ throwing = FALSE /\ failures = 0
  /\ installed \in SUBSET Asked /\ loggedIn \in (IF "codex" \in Asked THEN BOOLEAN ELSE {FALSE})
  /\ edits = 0 /\ opened = Empty /\ touched = {} /\ missed = FALSE /\ spilled = {}
  /\ unstaged = {} /\ stuckRoots = {} /\ stuckHomes = {}

\* A call that fails throws: inside the try the finally is next.
Throw(next) == /\ failures < MaxFailures
               /\ failures' = failures + 1
               /\ throwing' = TRUE
               /\ pc' = next

\* A failed read or removal goes unnoticed.
Swallows(fails) == IF fails THEN failures < MaxFailures /\ failures' = failures + 1
                   ELSE UNCHANGED failures

\* A snapshot that misses a file it cannot read, or none.
Snapshots(t) ==
  {[of |-> snapshotDir(t, unread), missed |-> unread # {}] :
     unread \in {{}} \cup {{f} : f \in {g \in Files \ Excluded : PlainFiles(t)[g] # "absent"}}}

\* The finally of the Codex adapter: its home is removed, if it can be.
RemoveHome(fails) ==
  /\ fails => agent = "codex"
  /\ homes' = IF fails THEN homes \cup {session} ELSE homes \ {session}
  /\ stuckHomes' = IF fails THEN stuckHomes \cup {session} ELSE stuckHomes

Preflight ==
  /\ pc = "preflight"
  /\ pc' = IF preflight \/ SkipPreflight THEN "prepare" ELSE "threw"
  /\ UNCHANGED <<childVars, planVars, resultVars, faultVars, diskVars, worldVars, outcome>>

\* prepareProject: the control copy, the treatment copy of it, and its scan.
Prepare ==
  /\ pc = "prepare"
  /\ LET base == copyTree(SourceTree, Empty)
         withBase == copyTree(base, Empty)
     IN  trees' = [w \in Conditions \X {0} |->
                     IF w[1] = "without" THEN base ELSE [withBase EXCEPT ![".kawn"] = "scan"]]
  /\ roots' = roots \cup {project}
  /\ e2eCounter' = 1
  /\ slot' = 0
  /\ pc' = "next"
  /\ spilled' = spilled \ {"shared"}
  /\ UNCHANGED <<childVars, opts, project, order, cwd, preSnapshot, resultVars, faultVars, strays,
                 homes, installed, loggedIn, edits, opened, touched, missed, unstaged, stuckRoots,
                 stuckHomes, outcome>>

\* The source is missing, or a copy or the scan fails: the await is before the
\* try, so nothing removes what was staged.
PrepareThrows ==
  /\ pc = "prepare"
  /\ Throw("threw")
  /\ roots' \in {roots, roots \cup {project}}
  /\ unstaged' = unstaged \cup {project}
  /\ UNCHANGED <<childVars, planVars, trees, e2eCounter, cwd, preSnapshot, resultVars, strays,
                 homes, installed, loggedIn, edits, opened, touched, missed, spilled, stuckRoots,
                 stuckHomes, outcome>>

\* adapter.available() is asked once for all the repeats of an agent.
SkipAgent ==
  /\ pc = "next" /\ slot < Slots(project)
  /\ FirstOfAgent /\ agent \notin installed
  /\ slot' = slot + Pair
  /\ UNCHANGED <<childVars, opts, pc, project, order, resultVars, faultVars, diskVars, worldVars,
                 outcome>>

\* The session that opens a repeat draws the order of the two.
MayStart(c) ==
  /\ pc = "next" /\ slot < Slots(project)
  /\ FirstOfAgent => agent \in installed
  /\ ~FirstOfRepeat => c = Other(order)

\* A fault: a condition's sessions share one copy.
sessionWorkspaceShared(c) ==
  /\ cwd' = <<c, IF task.mode = "retrieval" THEN 0 ELSE 1>>
  /\ trees' = Write(cwd', copyTree(trees[<<c, 0>>], At(cwd')))
  /\ UNCHANGED e2eCounter

\* sessionWorkspace: the shared copy to read, or a fresh copy of it to edit.
sessionWorkspace(c) ==
  IF task.mode = "retrieval"
  THEN /\ cwd' = <<c, 0>>
       /\ UNCHANGED <<trees, e2eCounter>>
  ELSE /\ cwd' = <<c, e2eCounter>>
       /\ e2eCounter' = e2eCounter + 1
       /\ trees' = Write(cwd', copyTree(trees[<<c, 0>>], At(cwd')))

\* The workspace and the snapshot of it, for the next of the two sessions of a repeat.
OpenSession(c) ==
  /\ MayStart(c)
  /\ sessionWorkspace(c)
  /\ \E seen \in Snapshots(trees'[cwd']) :
       /\ Swallows(seen.missed)
       /\ preSnapshot' = seen.of /\ missed' = seen.missed
  /\ opened' = trees'[cwd'] /\ touched' = {}
  /\ order' = c

\* The workspace, the snapshot, and the spawn, in one turn of the event loop.
StartSession ==
  \E c \in Conditions :
    /\ OpenSession(c)
    /\ agent = "codex" => loggedIn
    /\ Spawn
    /\ homes' = IF agent = "codex" THEN homes \cup {session} ELSE homes
    /\ pc' = "session"
    /\ UNCHANGED <<opts, project, slot, resultVars, throwing, roots, strays, installed, loggedIn,
                   edits, spilled, unstaged, stuckRoots, stuckHomes, outcome>>

\* linkAuth finds no credential: the session fails before there is a process.
StartUnlinked ==
  \E c \in Conditions :
    /\ OpenSession(c)
    /\ agent = "codex" /\ ~loggedIn
    /\ \E fails \in BOOLEAN : RemoveHome(fails)
    /\ outcome' = Unjudged
    /\ pc' = "record"
    /\ UNCHANGED <<childVars, opts, project, slot, resultVars, throwing, roots, strays, installed,
                   loggedIn, edits, spilled, unstaged, stuckRoots>>

\* A copy or a config write fails; a CODEX_HOME made by then is removed, if it can be.
StartThrows ==
  /\ pc = "next" /\ slot < Slots(project)
  /\ FirstOfAgent => agent \in installed
  /\ Throw("cleanup")
  /\ \E fails \in BOOLEAN : RemoveHome(fails)
  /\ UNCHANGED <<childVars, planVars, resultVars, diskVars, strays, installed, loggedIn, edits,
                 opened, touched, missed, spilled, unstaged, stuckRoots, outcome>>
-----------------------------------------------------------------------------

\* What the agent and its helpers do to a workspace: they write a file of it, remove it,
\* or write through a link.
Edit(w, f) ==
  /\ edits < MaxEdits
  /\ edits' = edits + 1
  /\ \/ \E now \in {"agent", "absent"} :
          /\ trees[w][f] # now
          /\ trees' = [trees EXCEPT ![w][f] = now]
          /\ spilled' = spilled \cup (IF w[2] = 0 THEN {"shared"} ELSE {})
     \/ trees[w][f] = "link" /\ UNCHANGED trees /\ spilled' = spilled \cup {"link"}

AgentEdits ==
  /\ pc \in {"session", "grade", "tests", "record"}
  /\ child = "running" \/ helper # "none"
  /\ MayWrite
  /\ \E f \in Files :
       /\ Edit(cwd, f)
       /\ touched' = IF PlainFiles(trees'[cwd])[f] = PlainFiles(opened)[f] THEN touched \ {f}
                     ELSE touched \cup {f}
  /\ UNCHANGED <<childVars, harnessVars, roots, e2eCounter, cwd, preSnapshot, strays, homes,
                 installed, loggedIn, opened, missed, unstaged, stuckRoots, stuckHomes, outcome>>

\* A helper of an earlier session still writes where that session ran.
StrayEdits ==
  /\ \E w \in strays, f \in Files : Edit(w, f)
  /\ UNCHANGED <<childVars, harnessVars, roots, e2eCounter, cwd, preSnapshot, strays, homes,
                 installed, loggedIn, opened, touched, missed, unstaged, stuckRoots, stuckHomes,
                 outcome>>

InSession(A) == /\ pc = "session"
                /\ A
                /\ UNCHANGED <<harnessVars, diskVars, worldVars, outcome>>

AgentPrints == InSession(\E e \in Says(agent) : Prints(agent, e))
AgentSpawnFails == InSession(SpawnFails)
AgentExits == InSession(Exits)
AgentTimesOut == InSession(TimesOut)
AgentStartsHelper == InSession(StartsHelper)
SessionHelperEnds == InSession(HelperEnds)

\* The user signs out of Codex, or a CLI goes from the PATH.  Both are looked at
\* only when a session starts, so they need not change at other times.
LeavesMachine ==
  /\ pc = "next"
  /\ failures < MaxFailures
  /\ failures' = failures + 1
  /\ \/ loggedIn /\ loggedIn' = FALSE /\ UNCHANGED installed
     \/ \E a \in installed : installed' = installed \ {a} /\ UNCHANGED loggedIn
  /\ UNCHANGED <<childVars, opts, pc, project, slot, order, resultVars, throwing, diskVars, strays,
                 homes, edits, history, outcome>>
-----------------------------------------------------------------------------

\* The streams are closed: the adapter judges, and Codex's home is removed.
SessionEnds ==
  /\ pc = "session"
  /\ Finish
  /\ outcome' = [Unjudged EXCEPT !.ok = (Verdict(agent) = "ok")]
  /\ \E fails \in BOOLEAN : RemoveHome(fails) /\ Swallows(fails)
  /\ pc' = IF outcome'.ok /\ task.mode = "e2e" THEN "grade" ELSE "record"
  /\ UNCHANGED <<planVars, resultVars, throwing, diskVars, strays, installed, loggedIn, edits,
                 opened, touched, missed, spilled, unstaged, stuckRoots>>

\* The boundary is graded before the tests run.
Grade ==
  /\ pc = "grade"
  /\ \E seen \in Snapshots(trees[cwd]) :
       /\ Swallows(seen.missed)
       /\ missed' = (missed \/ seen.missed)
       /\ outcome' = [outcome EXCEPT !.touched = touched \ Excluded, !.missed = missed',
                        !.boundary = gradeChangeBoundary(diffSnapshot(seen.of, preSnapshot),
                                                         task.gold)]
  /\ pc' = IF task.tested THEN "tests" ELSE "record"
  /\ UNCHANGED <<childVars, planVars, resultVars, throwing, diskVars, strays, homes, installed,
                 loggedIn, edits, opened, touched, spilled, unstaged, stuckRoots, stuckHomes>>

\* gradeTests: the test command, whatever its status, writes where it runs and through
\* the links there.
RunTests ==
  /\ pc = "tests"
  /\ \E made \in SUBSET TestOutput :
       LET through == {f \in made : trees[cwd][f] = "link"}
       IN  /\ trees' = [trees EXCEPT ![cwd] =
                          [f \in AllFiles |-> IF f \in made \ through THEN "tests" ELSE @[f]]]
           /\ spilled' = spilled \cup (IF through = {} THEN {} ELSE {"link"})
  /\ pc' = "record"
  /\ UNCHANGED <<childVars, planVars, resultVars, faultVars, roots, e2eCounter, cwd, preSnapshot,
                 strays, homes, installed, loggedIn, edits, opened, touched, missed, unstaged,
                 stuckRoots, stuckHomes, outcome>>

\* runs.push and the transcript.  A helper the session leaves stays behind in its
\* workspace, and writes there if the sandbox lets it.
Record ==
  /\ pc = "record"
  /\ runs' = runs + 1
  /\ outcome' = Unjudged
  /\ preSnapshot' = snapshotDir(Empty, {})
  /\ opened' = Empty /\ touched' = {} /\ missed' = FALSE
  /\ strays' = IF helper = "none" \/ ~MayWrite THEN strays ELSE strays \cup {cwd}
  /\ helper' = "none"
  /\ slot' = slot + 1
  /\ pc' = "next"
  /\ UNCHANGED <<child, timer, parsed, opts, project, order, reported, faultVars, trees, roots,
                 e2eCounter, cwd, homes, installed, loggedIn, edits, spilled, unstaged, stuckRoots,
                 stuckHomes>>

\* The transcript cannot be written.
RecordThrows ==
  /\ pc = "record"
  /\ runs' = runs + 1
  /\ Throw("cleanup")
  /\ UNCHANGED <<childVars, planVars, reported, diskVars, worldVars, outcome>>

ProjectEnds ==
  /\ pc = "next" /\ slot = Slots(project)
  /\ pc' = "cleanup"
  /\ UNCHANGED <<childVars, planVars, resultVars, faultVars, diskVars, worldVars, outcome>>

\* A fault: only a project that went well is removed.
CleanupAfterSuccess ==
  /\ pc = "cleanup"
  /\ roots' = IF throwing THEN roots ELSE roots \ {project}
  /\ pc' = IF throwing THEN "threw" ELSE "report"
  /\ UNCHANGED <<childVars, planVars, resultVars, faultVars, trees, e2eCounter, cwd, preSnapshot,
                 worldVars, outcome>>

\* The finally: rootDir is removed, if it can be.  Whatever is left of it is used no more,
\* nor is what still runs in it followed any further.
Cleanup ==
  /\ pc = "cleanup"
  /\ \E fails \in BOOLEAN :
       /\ Swallows(fails)
       /\ roots' = IF fails THEN roots ELSE roots \ {project}
       /\ stuckRoots' = IF fails THEN stuckRoots \cup {project} ELSE stuckRoots
  /\ trees' = <<>>
  /\ strays' = {} /\ helper' = "none"
  /\ IF throwing THEN pc' = "threw" /\ UNCHANGED project
     ELSE IF project = Len(opts.projects) THEN pc' = "report" /\ UNCHANGED project
     ELSE pc' = "prepare" /\ project' = project + 1
  /\ UNCHANGED <<child, timer, parsed, opts, slot, order, resultVars, throwing, e2eCounter, cwd,
                 preSnapshot, homes, installed, loggedIn, edits, opened, touched, missed, spilled,
                 unstaged, stuckHomes, outcome>>

\* writeReports, once, at the end; it may throw.
Report ==
  /\ pc = "report"
  /\ reported' = TRUE
  /\ pc' = "done"
  /\ UNCHANGED <<childVars, planVars, runs, faultVars, diskVars, worldVars, outcome>>

ReportThrows ==
  /\ pc = "report"
  /\ Throw("threw")
  /\ UNCHANGED <<childVars, planVars, resultVars, diskVars, worldVars, outcome>>

Ends == pc \in {"done", "threw"} /\ UNCHANGED vars

Harness == \/ Preflight \/ Prepare \/ SkipAgent \/ StartSession \/ StartUnlinked \/ SessionEnds
           \/ Grade \/ RunTests \/ Record \/ ProjectEnds \/ Cleanup \/ Report
Fails == PrepareThrows \/ StartThrows \/ RecordThrows \/ ReportThrows
Agent == \/ AgentPrints \/ AgentEdits \/ AgentStartsHelper \/ AgentSpawnFails \/ AgentExits
         \/ SessionHelperEnds \/ StrayEdits \/ LeavesMachine

Next == Harness \/ Fails \/ Agent \/ AgentTimesOut \/ Ends

Spec == Init /\ [][Next]_vars

\* The event loop runs what is ready, the timer is Node's, and a killed child
\* ends; nothing obliges an agent to finish, nor a helper.
FairSpec == Spec /\ WF_vars(Harness) /\ WF_vars(AgentTimesOut)
-----------------------------------------------------------------------------

\* Every session finds the project as it was staged, with nothing an earlier session, its
\* tests or a helper of it wrote there, unless somebody wrote where sessions share: in the
\* two copies for reading, or behind a link of the source (isolation.ts:156-181).
SessionsStartClean ==
  [][StartSession /\ spilled = {} =>
       \A f \in AllFiles \ Excluded : trees'[cwd'][f] = SourceTree[f]]_vars

\* The change boundary a run is recorded with is judged on what its own agent changed, all of it and
\* nothing of the test command's output: of the plain files that are not excluded, as long
\* as the two snapshots could read them (runner.ts:103-133).
BoundaryIsAgentsOwn ==
  pc = "record" /\ outcome.boundary.graded /\ ~outcome.missed =>
    outcome.boundary.changed = outcome.touched

\* On every way out of the command each temporary directory has been up for removal: what
\* is left are those that could not be removed, and the copies of a project whose staging
\* failed (runner.ts:79-81, the two finally blocks).
LittleIsLeft ==
  pc \in {"done", "threw"} =>
    /\ homes \subseteq stuckHomes
    /\ roots \subseteq stuckRoots \cup unstaged

\* Every session of the treatment arm has a graph to ask (isolation.ts:5-10).
TreatmentHasGraph ==
  pc = "session" /\ cwd[1] = "with" => trees[cwd][".kawn"] # "absent"

\* The command ends, whatever the agents do, unless a command one of them left running
\* keeps its output open: the kill after the timeout does not reach it, and the close the
\* promise waits for does not come (proc.ts:109-112 and 140-188).
BenchmarkEnds == []<>(helper # "holding") => <>(pc \in {"done", "threw"})
=============================================================================

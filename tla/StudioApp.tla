------------------------------ MODULE StudioApp ------------------------------
(***************************************************************************)
(* The browser side of KawnGraph Universe: the load of the graph (App),    *)
(* the five pages that ask the server and show its answer (Context,        *)
(* Impact, Flow, Changes and Bench), the seeds by which one page opens     *)
(* another with a question, and the recent tasks kept in localStorage.     *)
(* What a promise waits for is its call in `calls`: an async function is   *)
(* where its call is, and a call that is aborted never comes back to it.   *)
(***************************************************************************)
EXTENDS StudioServer

CONSTANTS
  Tasks,        \* what a user may type
  Strict,       \* React's StrictMode mounts every component twice (development)
  RecentMax,    \* how many recent tasks are kept
  RecentShown,  \* how many of them are offered
  MaxAsks,      \* bound on the questions asked
  MaxLoads      \* bound on the loads

\* No task is the mark of no question.
ASSUME StudioAssumption == None \notin Tasks /\ Strict \in BOOLEAN

VARIABLES
  boot,         \* App's load: its phase, and the scan of each thing it holds
  tab,          \* the tab that is open
  view,         \* the state of the page on it
  seeds,        \* the question another page opened this one with
  recents,      \* recentTasks, newest first
  typed,        \* what the user has asked for since the preferences were cleared
  asks, loads   \* how many questions and loads there have been

appVars == <<boot, tab, view, seeds, recents, typed, asks, loads>>
vars == <<serverVars, appVars>>

Asking == {"context", "impact", "flow", "changes", "bench"}
Tabs == Asking \cup {"map", "settings"}
LoadRoutes == {"health", "summary", "graph"}

\* Changes and Bench ask once when they open, and abort when they are left.
AsksOnMount == {"changes", "bench"}
AbortsOnUnmount == {"changes", "bench"}

\* What the mount effect of a page asks: its own question, or its seed.
Opening(v, s) == CASE v = "changes" -> "working"
                   [] v = "bench" -> "newest"
                   [] v \in DOMAIN s -> s[v]
                   [] OTHER -> None

\* What a user may ask a page.
Askable(v) == CASE v = "bench" -> {"newest"}
                [] v = "changes" -> {"working"} \cup Tasks
                [] OTHER -> Tasks

Nothing == [q |-> None, gen |-> 0, since |-> 0, why |-> None]
Blank == [asked |-> None, shown |-> Nothing, loading |-> FALSE, error |-> None]

Call(route, q, n) == [n |-> n, route |-> route, q |-> q, since |-> disk.gen,
                      orphan |-> FALSE, reply |-> Pending]

\* The calls whose answer the open page still takes.
Live(v) == {c \in calls : c.route = v /\ ~c.orphan}
Loading == {c \in calls : c.route \in LoadRoutes}

-----------------------------------------------------------------------------
(* The recent tasks.                                                       *)

PushRecentTask(r, q) ==
  LET all == <<q>> \o SelectSeq(r, LAMBDA t : t # q)
  IN  SubSeq(all, 1, Min({RecentMax, Len(all)}))

-----------------------------------------------------------------------------
(* App: health, then the summary, then the graph.                          *)

\* A fault: the button of a failed load stays while the next is under way.
LoadUnseen == /\ calls' = calls \cup {Call("health", None, loads)}
              /\ loads' = loads + 1
              /\ UNCHANGED <<disk, port, boot, tab, view, seeds, recents, typed, asks>>

Load == /\ boot' = [boot EXCEPT !.phase = "loading"]
        /\ calls' = calls \cup {Call("health", None, loads)}
        /\ loads' = loads + 1
        /\ UNCHANGED <<disk, port, tab, view, seeds, recents, typed, asks>>

\* The Retry button, of the error page and of the page without a graph.
Retry == boot.phase \in {"missing", "error"} /\ loads < MaxLoads /\ Load

\* The next request of the load that call `c` belongs to.
Onward(c, route) == calls' = (calls \ {c}) \cup {Call(route, None, c.n)}

Fails(c) == /\ boot' = [boot EXCEPT !.phase = "error"]
            /\ calls' = calls \ {c}

HealthArrives(c) ==
  IF c.reply.code # 200 THEN Fails(c)
  ELSE IF c.reply.status = "ok"
       THEN boot' = [boot EXCEPT !.health = c.reply.gen] /\ Onward(c, "summary")
       ELSE /\ boot' = [boot EXCEPT !.health = c.reply.gen, !.phase = "missing"]
            /\ calls' = calls \ {c}

\* The summary may fail: it is no more than an enrichment.
SummaryArrives(c) ==
  /\ boot' = [boot EXCEPT !.summary = IF c.reply.code = 200 THEN c.reply.gen ELSE 0]
  /\ Onward(c, "graph")

GraphArrives(c) ==
  IF c.reply.code # 200 THEN Fails(c)
  ELSE /\ boot' = [boot EXCEPT !.graph = c.reply.gen, !.phase = "ready"]
       /\ calls' = calls \ {c}

LoadStep(c) ==
  /\ Answered(c)
  /\ \/ c.route = "health" /\ HealthArrives(c)
     \/ c.route = "summary" /\ SummaryArrives(c)
     \/ c.route = "graph" /\ GraphArrives(c)
  /\ UNCHANGED <<disk, port, tab, view, seeds, recents, typed, asks, loads>>

-----------------------------------------------------------------------------
(* The pages.                                                              *)

\* A fault: nothing is aborted.
SupersededNever(v) == {}

\* run(): the older call is aborted, and the spinner stands for the new one.
Superseded(v) == Live(v)

Run(v, q) ==
  /\ asks < MaxAsks
  /\ asks' = asks + 1
  /\ calls' = (calls \ Superseded(v)) \cup {Call(v, q, asks)}
  /\ view' = [view EXCEPT !.asked = q, !.loading = TRUE, !.error = None]

\* Bench shows an empty directory without a button, and an unreadable report
\* with one that is never disabled; every other button is while the page loads.
CanSubmit ==
  IF tab = "bench" /\ view.error = None /\ view.shown.why \in {"none", "unreadable"}
  THEN view.shown.why = "unreadable"
  ELSE ~view.loading

\* The tasks are what the recent ones are made of.
Typed(v, q) == IF v = "context" THEN typed \cup {q} ELSE typed

Submit(q) ==
  /\ boot.phase = "ready"
  /\ tab \in Asking /\ CanSubmit
  /\ Run(tab, q)
  /\ typed' = Typed(tab, q)
  /\ UNCHANGED <<disk, port, boot, tab, seeds, recents, loads>>

\* A question left empty is refused before anything is aborted.
SubmitEmpty ==
  /\ tab \in Asking \ AsksOnMount /\ ~view.loading
  /\ view.error # "empty"
  /\ view' = [view EXCEPT !.error = "empty"]
  /\ UNCHANGED <<serverVars, boot, tab, seeds, recents, typed, asks, loads>>

\* One of the recent tasks that are offered.
ClickRecent(q) ==
  /\ tab = "context"
  /\ \E i \in DOMAIN recents : i <= RecentShown /\ recents[i] = q
  /\ Run(tab, q)
  /\ typed' = Typed(tab, q)
  /\ UNCHANGED <<disk, port, boot, tab, seeds, recents, loads>>

\* An answer comes back.  Nobody reads the state of a page that is gone, but
\* the task of its call is pushed to the recent ones all the same.
Pushed(c) == IF c.route = "context" /\ c.reply.code = 200
             THEN PushRecentTask(recents, c.q) ELSE recents

\* A fault of the next: only an answer stops the spinner.
SettledWhenAnswered(c) ==
  IF c.orphan THEN view
  ELSE IF c.reply.code = 200
       THEN [view EXCEPT !.loading = FALSE,
                         !.shown = [q |-> c.q, gen |-> c.reply.gen, since |-> c.since,
                                   why |-> c.reply.status]]
       ELSE [view EXCEPT !.error = "failed"]

Settled(c) ==
  IF c.orphan THEN view
  ELSE IF c.reply.code = 200
       THEN [view EXCEPT !.loading = FALSE,
                         !.shown = [q |-> c.q, gen |-> c.reply.gen, since |-> c.since,
                                   why |-> c.reply.status]]
       ELSE [view EXCEPT !.loading = FALSE, !.error = "failed"]

Arrive(c) ==
  /\ Answered(c) /\ c.route \in Asking
  /\ view' = Settled(c)
  /\ recents' = Pushed(c)
  /\ calls' = calls \ {c}
  /\ UNCHANGED <<disk, port, boot, tab, seeds, typed, asks, loads>>
-----------------------------------------------------------------------------
(* From page to page.                                                      *)

\* The calls that are left when the open page unmounts.
Unmounted == IF tab \in AbortsOnUnmount THEN calls \ Live(tab)
             ELSE {IF c \in Live(tab) THEN [c EXCEPT !.orphan = TRUE] ELSE c : c \in calls}

\* Under StrictMode the effects run, are cleaned up, and run again, on the same
\* refs: the abort of the cleanup takes the opening call, and didInit keeps the
\* second run from asking anew.
OpeningCall(v, q) == IF Strict /\ v \in AbortsOnUnmount THEN {} ELSE {Call(v, q, asks)}

Mount(v, s) ==
  LET q == Opening(v, s)
  IN  IF q = None THEN /\ view' = Blank
                       /\ calls' = Unmounted
                       /\ UNCHANGED asks
      ELSE /\ asks < MaxAsks
           /\ view' = [Blank EXCEPT !.asked = q, !.loading = TRUE]
           /\ calls' = Unmounted \cup OpeningCall(v, q)
           /\ asks' = asks + 1

GoTab(v) ==
  /\ boot.phase = "ready"
  /\ v # tab
  /\ tab' = v
  /\ Mount(v, seeds)
  /\ UNCHANGED <<disk, port, boot, seeds, recents, typed, loads>>

\* "Build context" and "Show impact", from the panel beside every page: the
\* page opens with the seed, or takes it if it is open and the seed is new.
Seed(v, q) ==
  /\ boot.phase = "ready"
  /\ tab' = v
  /\ seeds' = [seeds EXCEPT ![v] = q]
  /\ \/ v # tab /\ Mount(v, seeds')
     \/ v = tab /\ q # seeds[v] /\ Run(v, q)
  /\ typed' = Typed(v, q)
  /\ UNCHANGED <<disk, port, boot, recents, loads>>

\* Settings: "Clear local preferences".
ClearAll ==
  /\ tab = "settings"
  /\ recents # <<>>
  /\ recents' = <<>>
  /\ typed' = {}
  /\ UNCHANGED <<serverVars, boot, tab, view, seeds, asks, loads>>

NoBoot == [phase |-> "loading", health |-> 0, summary |-> 0, graph |-> 0]
NoSeeds == [context |-> None, impact |-> None]

\* The browser's reload: only what localStorage holds outlives it.
Reload ==
  /\ loads < MaxLoads
  /\ boot' = NoBoot
  /\ calls' = {Call("health", None, loads)}
  /\ loads' = loads + 1
  /\ tab' = "map" /\ view' = Blank /\ seeds' = NoSeeds
  /\ UNCHANGED <<disk, port, recents, typed, asks>>

-----------------------------------------------------------------------------
Init ==
  /\ ServerInit
  /\ boot = NoBoot /\ calls = {Call("health", None, 0)} /\ loads = 1
  /\ tab = "map" /\ view = Blank /\ seeds = NoSeeds
  /\ recents = <<>> /\ typed = {} /\ asks = 0

ServerSteps == ServerNext /\ UNCHANGED appVars

Next ==
  \/ ServerSteps
  \/ Retry \/ Reload
  \/ \E c \in calls : LoadStep(c) \/ Arrive(c)
  \/ \E q \in Askable(tab) : Submit(q)
  \/ SubmitEmpty
  \/ \E q \in Tasks : ClickRecent(q)
  \/ \E v \in Tabs : GoTab(v)
  \/ \E v \in DOMAIN NoSeeds, q \in Tasks : Seed(v, q)
  \/ ClearAll

Spec == Init /\ [][Next]_vars

\* A request that reached the server is served, one that did not fails, and the
\* browser hands every outcome to the promise that waits for it.
Settling ==
  \E c \in calls :
    \/ (Serve(c) \/ Lose(c)) /\ UNCHANGED appVars
    \/ LoadStep(c)
    \/ Arrive(c)

FairSpec == Spec /\ WF_vars(Settling)

-----------------------------------------------------------------------------
(* Properties.                                                             *)

\* What a page shows is the answer to what was asked last: the answers of
\* superseded runs, of pages that were left and of failed calls never show, and
\* the spinner turns from a question to the outcome of that question (run() of
\* the views).
Promise == INSTANCE LatestAnswer WITH
             Questions <- Tasks \cup {"working", "newest"}, Nothing <- None,
             asked <- view.asked, shown <- view.shown.q, busy <- view.loading
LatestWins == Promise!Spec

\* A spinner, of the app or of a page, turns exactly while one call is under way
\* that will stop it: no abort and no unmount strands it, and no retry puts two
\* loads on their way (App.load, run() and the effects of the views).
SpinnerMeansWork ==
  /\ Cardinality(Loading) = (IF boot.phase = "loading" THEN 1 ELSE 0)
  /\ Cardinality(Live(tab)) = (IF view.loading THEN 1 ELSE 0)

\* An answer is computed from a graph no older than the one that was on disk when
\* it was asked for, nor than the graph the app has loaded (loadGraphState is
\* called per request); the load itself never goes back in time.
NothingStale ==
  /\ (view.shown.q # None /\ tab # "bench") =>
        /\ view.shown.gen >= view.shown.since
        /\ view.shown.gen >= boot.graph
  /\ boot.phase = "ready" => /\ boot.health <= boot.graph
                             /\ boot.summary <= boot.graph

\* A page that waits stops waiting, and so does the app, even when the server is
\* stopped in between (the finally of run(), the catch of App.load).
StudioSettles == /\ view.loading ~> ~view.loading
                 /\ boot.phase = "loading" ~> boot.phase # "loading"

\* usePrefs.ts: "Clear local preferences" wipes everything below.  A recent task
\* is one the user has asked for since.
ClearedStaysCleared == ToSet(recents) \subseteq typed
=============================================================================

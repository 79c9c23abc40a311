-------------------------- MODULE StudioApp_proofs --------------------------
(***************************************************************************)
(* Proofs about the Studio app and its server, for any tasks, reports,     *)
(* ports and number of scans: the app implements LatestAnswer, a spinner   *)
(* means that a call is under way, and nothing stale is shown.             *)
(*                                                                         *)
(* The inductive invariant follows a call from its fetch to the page: it   *)
(* was asked with a scan on disk no older than the graph the app has, an   *)
(* answer is of a scan no older than that, and the one call of the open    *)
(* page that is not aborted is of the question asked last.  Its parts take *)
(* the calls, the disk, the boot and the page as parameters, so that one   *)
(* lemma serves the state before a step and the state after it.            *)
(*                                                                         *)
(* About the maps: a layout has the id that is listened for only if it is  *)
(* of the nodes on the canvas, and the sample of a graph beyond the cap is *)
(* fair.  A sum is the number of pairs of a layer and a place in it, so    *)
(* that what a layer takes or gives adds or removes one pair, and what is  *)
(* drawn pairs off with the places that the layers have been given.        *)
(***************************************************************************)
EXTENDS StudioApp, StudioMap, Loops

IsCall(c) == c = [n |-> c.n, route |-> c.route, q |-> c.q, since |-> c.since,
                  orphan |-> c.orphan, reply |-> c.reply]

Boots == [phase : {"loading", "missing", "error", "ready"}, health : Nat, summary : Nat, graph : Nat]

TypeInv ==
  /\ disk = [content |-> disk.content, gen |-> disk.gen] /\ disk.gen \in Nat
  /\ boot \in Boots
  /\ tab \in Tabs
  /\ view = [asked |-> view.asked, shown |-> view.shown, loading |-> view.loading,
             error |-> view.error]
  /\ view.loading \in BOOLEAN
  /\ seeds \in [{"context", "impact"} -> Tasks \cup {None}]

\* How far a call has come: what was on disk when it was asked, what the app had by
\* then, and the scan of its answer.
CallOK(c, d, b) ==
  /\ IsCall(c)
  /\ c.route \in Asking \cup LoadRoutes /\ c.orphan \in BOOLEAN
  /\ c.since \in Nat /\ c.since <= d.gen
  /\ (c.route # "bench" /\ c.reply.code = 200) => c.reply.gen \in c.since..d.gen
  /\ c.route \in Asking => (b.phase = "ready" /\ b.graph <= c.since)
  /\ c.route \in {"summary", "graph"} => b.health <= c.since
  /\ c.route = "graph" => b.summary <= c.since

CallsOK(S, d, b) == \A c \in S : CallOK(c, d, b)

\* A load is one call.
LoadsOK(S, b) ==
  /\ b.phase = "loading" => \E c \in S : c.route \in LoadRoutes
  /\ \A c \in S : c.route \in LoadRoutes => b.phase = "loading"
  /\ \A c, e \in S : c.route \in LoadRoutes /\ e.route \in LoadRoutes => c = e

\* What the app holds is no newer than the disk, and its graph no older than the rest.
BootOK(d, b) ==
  /\ b.health <= d.gen /\ b.summary <= d.gen /\ b.graph <= d.gen
  /\ b.phase = "ready" => (b.health <= b.graph /\ b.summary <= b.graph)

\* The open page waits for one call at most, that of its last question.
Waited(c) == c.route \in Asking /\ ~c.orphan

PageOK(S, t, v) ==
  /\ \A c \in S : Waited(c) => (c.route = t /\ v.loading /\ c.q = v.asked)
  /\ \A c, e \in S : Waited(c) /\ Waited(e) => c = e
  /\ (~Strict /\ v.loading) => \E c \in S : Waited(c)

ShownOK(b, t, v) ==
  (v.shown.q # None /\ t # "bench") =>
    /\ v.shown.gen \in Nat /\ v.shown.since \in Nat
    /\ v.shown.gen >= v.shown.since
    /\ v.shown.since >= b.graph

IInv ==
  /\ TypeInv
  /\ CallsOK(calls, disk, boot)
  /\ LoadsOK(calls, boot)
  /\ BootOK(disk, boot)
  /\ PageOK(calls, tab, view)
  /\ ShownOK(boot, tab, view)
  /\ boot.phase # "ready" => (tab = "map" /\ view = Blank)
-----------------------------------------------------------------------------
(* What a call is made of, and what an answer and an abort leave of it.    *)

SameCall(c, e) == /\ IsCall(e)
                  /\ e.route = c.route /\ e.q = c.q /\ e.since = c.since /\ e.orphan = c.orphan

LEMMA ReplyKeeps ==
  ASSUME NEW c, IsCall(c), NEW r
  PROVE  SameCall(c, [c EXCEPT !.reply = r]) /\ [c EXCEPT !.reply = r].reply = r
<1>1. PICK n, route, q, since, orphan, reply :
        c = [n |-> n, route |-> route, q |-> q, since |-> since, orphan |-> orphan,
             reply |-> reply]
  BY DEF IsCall
<1>2. [c EXCEPT !.reply = r] = [n |-> n, route |-> route, q |-> q, since |-> since,
                                orphan |-> orphan, reply |-> r]
  BY <1>1
<1> QED BY <1>1, <1>2 DEF SameCall, IsCall

LEMMA OrphanKeeps ==
  ASSUME NEW c, IsCall(c), NEW e, e = [c EXCEPT !.orphan = TRUE]
  PROVE  /\ IsCall(e) /\ e.orphan \in BOOLEAN /\ e.orphan
         /\ e.route = c.route /\ e.q = c.q /\ e.since = c.since /\ e.reply = c.reply
<1>1. PICK n, route, q, since, orphan, reply :
        c = [n |-> n, route |-> route, q |-> q, since |-> since, orphan |-> orphan,
             reply |-> reply]
  BY DEF IsCall
<1>2. ASSUME NEW t, e = [c EXCEPT !.orphan = t]
      PROVE  e = [n |-> n, route |-> route, q |-> q, since |-> since, orphan |-> t, reply |-> reply]
  BY <1>1, <1>2
<1>3. e = [n |-> n, route |-> route, q |-> q, since |-> since, orphan |-> TRUE, reply |-> reply]
  BY <1>2
<1> QED BY <1>1, <1>3 DEF IsCall

\* A new call is asked with the scan that is on disk, and has no answer.
LEMMA NewCall ==
  ASSUME NEW route, NEW q, NEW n, NEW c, c = Call(route, q, n)
  PROVE  /\ IsCall(c) /\ c.route = route /\ c.q = q /\ c.since = disk.gen
         /\ c.orphan \in BOOLEAN /\ ~c.orphan /\ c.reply.code # 200
<1>1. c = [n |-> n, route |-> route, q |-> q, since |-> disk.gen, orphan |-> FALSE,
           reply |-> Pending]
  BY DEF Call
<1>2. Pending.code # 200
  BY DEF Pending, Refusal
<1> QED BY <1>1, <1>2 DEF IsCall

-----------------------------------------------------------------------------
(* The server.                                                             *)

\* An answer of any route but /api/bench is of the graph that was on disk.
LEMMA AnswerIsOfDisk ==
  ASSUME NEW route \in Asking \cup LoadRoutes, NEW q, NEW d,
         NEW r \in HandleApi(route, q, LoadGraphState(d)),
         route # "bench", r.code = 200
  PROVE  r.gen = d.gen
<1> DEFINE s == LoadGraphState(d)
<1>1. s.gen = d.gen
  BY DEF LoadGraphState
<1> HIDE DEF s
<1>2. r \in HandleApi(route, q, s)
  BY DEF s
<1>3. CASE route = "health"
  <2>1. HandleApi(route, q, s) = {[code |-> 200, status |-> s.status, gen |-> s.gen]}
    BY <1>3 DEF HandleApi, ComputedRoutes
  <2> QED BY <1>1, <1>2, <2>1
<1>4. CASE route \in {"graph", "summary"}
  <2>1. HandleApi(route, q, s) = {GetRoute(s)}
    BY <1>4 DEF HandleApi, ComputedRoutes
  <2>2. r = GetRoute(s)
    BY <1>2, <2>1
  <2> QED BY <1>1, <2>2 DEF GetRoute, Refusal
<1>5. CASE route \in ComputedRoutes
  <2>1. HandleApi(route, q, s) \subseteq {PostRoute(route, q, s), Refusal(500)}
    BY <1>5 DEF HandleApi, ComputedRoutes
  <2>2. r = PostRoute(route, q, s) \/ r = Refusal(500)
    BY <1>2, <2>1
  <2> QED BY <1>1, <2>2 DEF PostRoute, Computed, Refusal
<1> QED BY <1>3, <1>4, <1>5 DEF Asking, LoadRoutes, ComputedRoutes

\* Answers replace calls one by one: who waits for what stays the same.
LEMMA RepliesKeepPage ==
  ASSUME NEW S, NEW f, NEW b, NEW t, NEW v,
         \A c \in S : SameCall(c, f[c])
  PROVE  LET T == {f[c] : c \in S}
         IN  /\ LoadsOK(S, b) => LoadsOK(T, b)
             /\ PageOK(S, t, v) => PageOK(T, t, v)
  BY DEF SameCall, LoadsOK, PageOK, Waited

LEMMA RepliesKeepCalls ==
  ASSUME NEW S, NEW f, NEW d, NEW b,
         CallsOK(S, d, b), d.gen \in Nat,
         \A c \in S : /\ SameCall(c, f[c])
                      /\ \/ f[c] = c
                         \/ f[c].reply.code # 200
                         \/ c.route = "bench"
                         \/ f[c].reply.gen = d.gen
  PROVE  CallsOK({f[c] : c \in S}, d, b)
<1> SUFFICES ASSUME NEW c \in S
             PROVE  CallOK(f[c], d, b)
  BY DEF CallsOK
<1>1. CallOK(c, d, b) /\ SameCall(c, f[c])
  BY DEF CallsOK
<1>2. (f[c].route # "bench" /\ f[c].reply.code = 200) => f[c].reply.gen \in f[c].since..d.gen
  BY <1>1 DEF CallOK, SameCall
<1> QED BY <1>1, <1>2 DEF CallOK, SameCall

LEMMA ServerKeeps ==
  ASSUME IInv, ServerNext, UNCHANGED appVars
  PROVE  IInv'
<1> USE DEF IInv
<1>1. UNCHANGED <<boot, tab, view, seeds>>
  BY DEF appVars
<1>2. CASE ScanBegins \/ ScanEnds
  <2>1. UNCHANGED calls /\ disk'.gen \in Nat /\ disk.gen <= disk'.gen
        /\ disk' = [content |-> disk'.content, gen |-> disk'.gen]
    BY <1>2 DEF ScanBegins, ScanEnds, TypeInv
  <2>2. CallsOK(calls', disk', boot')
    <3> SUFFICES ASSUME NEW c \in calls
                 PROVE  CallOK(c, disk', boot)
      BY <1>1, <2>1 DEF CallsOK
    <3>1. CallOK(c, disk, boot) /\ disk.gen \in Nat
      BY DEF CallsOK, TypeInv
    <3> QED BY <2>1, <3>1 DEF CallOK
  <2>3. BootOK(disk', boot')
    <3>1. boot.health \in Nat /\ boot.summary \in Nat /\ boot.graph \in Nat /\ disk.gen \in Nat
      BY DEF TypeInv, Boots
    <3> QED BY <1>1, <2>1, <3>1 DEF BootOK
  <2> QED BY <1>1, <2>1, <2>2, <2>3 DEF TypeInv
<1>3. ASSUME NEW f, UNCHANGED disk, calls' = {f[c] : c \in calls},
             \A c \in calls : /\ SameCall(c, f[c])
                              /\ \/ f[c] = c
                                 \/ f[c].reply.code # 200
                                 \/ c.route = "bench"
                                 \/ f[c].reply.gen = disk.gen
      PROVE  IInv'
  <2>1. CallsOK(calls', disk', boot')
    BY <1>1, <1>3, RepliesKeepCalls DEF TypeInv
  <2>2. LoadsOK(calls', boot') /\ PageOK(calls', tab', view')
    BY <1>1, <1>3, RepliesKeepPage
  <2> QED BY <1>1, <1>3, <2>1, <2>2 DEF TypeInv
<1>4. Unreachable.code # 200
  BY DEF Unreachable, Refusal
<1>5. \A c \in calls : IsCall(c) /\ c.route \in Asking \cup LoadRoutes
  BY DEF CallsOK, CallOK
<1>6. ASSUME NEW c \in calls, NEW r, calls' = (calls \ {c}) \cup {[c EXCEPT !.reply = r]},
             UNCHANGED disk,
             r.code # 200 \/ c.route = "bench" \/ r.gen = disk.gen
      PROVE  IInv'
  <2> DEFINE f == [e \in calls |-> IF e = c THEN [c EXCEPT !.reply = r] ELSE e]
  <2>1. f[c] = [c EXCEPT !.reply = r] /\ \A e \in calls \ {c} : f[e] = e
    OBVIOUS
  <2>2. SameCall(c, f[c]) /\ f[c].reply = r
    BY <1>5, <2>1, ReplyKeeps
  <2>3. \A e \in calls \ {c} : SameCall(e, f[e])
    BY <1>5, <2>1 DEF SameCall
  <2> HIDE DEF f
  <2>4. calls' = {f[e] : e \in calls}
    BY <1>6, <2>1
  <2>5. \A e \in calls : /\ SameCall(e, f[e])
                          /\ \/ f[e] = e
                             \/ f[e].reply.code # 200
                             \/ e.route = "bench"
                             \/ f[e].reply.gen = disk.gen
    <3> TAKE e \in calls
    <3>1. CASE e = c
      BY <1>6, <2>2, <3>1
    <3>2. CASE e # c
      BY <2>1, <2>3, <3>2
    <3> QED BY <3>1, <3>2
  <2> QED BY <1>3, <1>6, <2>4, <2>5
<1>7. CASE \E c \in calls : Serve(c)
  <2>1. PICK c \in calls : Serve(c)
    BY <1>7
  <2>2. PICK r \in HandleApi(c.route, c.q, LoadGraphState(disk)) :
          calls' = (calls \ {c}) \cup {[c EXCEPT !.reply = r]}
    BY <2>1 DEF Serve
  <2>3. r.code # 200 \/ c.route = "bench" \/ r.gen = disk.gen
    BY <1>5, AnswerIsOfDisk
  <2> QED BY <1>6, <2>1, <2>2, <2>3 DEF Serve
<1>8. CASE \E c \in calls : Lose(c)
  BY <1>4, <1>6, <1>8 DEF Lose
<1>9. CASE Shutdown
  <2> DEFINE f == [c \in calls |-> IF Answered(c) THEN c ELSE [c EXCEPT !.reply = Unreachable]]
  <2>1. calls' = {f[c] : c \in calls} /\ UNCHANGED disk
    BY <1>9 DEF Shutdown
  <2>2. \A c \in calls : f[c] = c \/ f[c] = [c EXCEPT !.reply = Unreachable]
    OBVIOUS
  <2> HIDE DEF f
  <2>3. \A c \in calls : SameCall(c, f[c]) /\ (f[c] = c \/ f[c].reply.code # 200)
    <3> TAKE c \in calls
    <3>1. CASE f[c] = c
      BY <1>5, <3>1 DEF SameCall
    <3>2. CASE f[c] = [c EXCEPT !.reply = Unreachable]
      <4>1. SameCall(c, f[c]) /\ f[c].reply = Unreachable
        BY <1>5, <3>2, ReplyKeeps
      <4> QED BY <1>4, <4>1
    <3> QED BY <2>2, <3>1, <3>2
  <2> QED BY <1>3, <2>1, <2>3
<1>10. CASE ListenWithFallback
  <2>1. UNCHANGED <<disk, calls>>
    BY <1>10 DEF ListenWithFallback
  <2> QED BY <1>1, <2>1 DEF TypeInv
<1> QED BY <1>2, <1>7, <1>8, <1>9, <1>10 DEF ServerNext
-----------------------------------------------------------------------------
(* The load.                                                               *)

\* While the app loads nothing else is under way, and nothing at all while it has
\* neither a graph nor a load.
LEMMA AloneUntilReady ==
  ASSUME IInv, boot.phase # "ready"
  PROVE  /\ \A c \in calls : c.route \in LoadRoutes /\ calls = {c}
         /\ boot.phase # "loading" => calls = {}
<1>1. \A c \in calls : c.route \in LoadRoutes
  BY DEF IInv, CallsOK, CallOK
<1> QED BY <1>1 DEF IInv, LoadsOK

LEMMA BootingKeeps ==
  ASSUME IInv, UNCHANGED disk,
         boot' \in Boots, BootOK(disk, boot'),
         tab' = "map", view' = Blank, seeds' \in [{"context", "impact"} -> Tasks \cup {None}],
         CallsOK(calls', disk, boot'), LoadsOK(calls', boot'),
         \A c \in calls' : c.route \in LoadRoutes
  PROVE  IInv'
<1>1. TypeInv'
  BY DEF IInv, TypeInv, Blank, Tabs
<1>2. PageOK(calls', tab', view')
  BY DEF PageOK, Waited, Blank, Asking, LoadRoutes
<1>3. ShownOK(boot', tab', view')
  BY DEF ShownOK, Blank, Nothing
<1> QED BY <1>1, <1>2, <1>3 DEF IInv

LEMMA RequestOfLoad ==
  ASSUME IInv, NEW route \in LoadRoutes, NEW n, NEW b \in Boots, BootOK(disk, b),
         b.phase = "loading"
  PROVE  LET T == {Call(route, None, n)}
         IN  /\ CallsOK(T, disk, b) /\ LoadsOK(T, b)
             /\ \A c \in T : c.route \in LoadRoutes
<1>0. PICK c : c = Call(route, None, n)
  OBVIOUS
<1>1. /\ IsCall(c) /\ c.route = route /\ c.since = disk.gen
      /\ c.orphan \in BOOLEAN /\ ~c.orphan /\ c.reply.code # 200
  BY <1>0, NewCall
<1>2. CallOK(c, disk, b)
  <2>1. disk.gen \in Nat /\ b.health <= disk.gen /\ b.summary <= disk.gen
    BY DEF IInv, TypeInv, BootOK
  <2>2. route \notin Asking
    BY DEF Asking, LoadRoutes
  <2> QED BY <1>1, <2>1, <2>2 DEF CallOK
<1>3. LoadsOK({c}, b)
  BY <1>1 DEF LoadsOK
<1> QED BY <1>0, <1>1, <1>2, <1>3 DEF CallsOK

LEMMA LoadKeeps ==
  ASSUME IInv, Retry \/ Reload
  PROVE  IInv'
<1> USE DEF IInv
<1>1. CASE Retry
  <2>1. boot.phase \in {"missing", "error"} /\ UNCHANGED <<disk, tab, view, seeds>>
        /\ calls' = calls \cup {Call("health", None, loads)}
        /\ boot' = [boot EXCEPT !.phase = "loading"]
    BY <1>1 DEF Retry, Load
  <2>2. calls' = {Call("health", None, loads)}
    BY <2>1, AloneUntilReady
  <2>3. boot' \in Boots /\ boot'.phase = "loading" /\ BootOK(disk, boot')
    BY <2>1 DEF TypeInv, Boots, BootOK
  <2>4. "health" \in LoadRoutes
    BY DEF LoadRoutes
  <2>5. /\ CallsOK(calls', disk, boot') /\ LoadsOK(calls', boot')
        /\ \A c \in calls' : c.route \in LoadRoutes
    BY <2>2, <2>3, <2>4, RequestOfLoad
  <2> QED BY <2>1, <2>3, <2>5, BootingKeeps DEF TypeInv
<1>2. CASE Reload
  <2>1. /\ boot' = NoBoot /\ calls' = {Call("health", None, loads)}
        /\ tab' = "map" /\ view' = Blank /\ seeds' = NoSeeds /\ UNCHANGED disk
    BY <1>2 DEF Reload
  <2>2. boot' \in Boots /\ boot'.phase = "loading" /\ BootOK(disk, boot')
    BY <2>1 DEF TypeInv, Boots, BootOK, NoBoot
  <2>3. "health" \in LoadRoutes
    BY DEF LoadRoutes
  <2>4. seeds' \in [{"context", "impact"} -> Tasks \cup {None}]
    BY <2>1 DEF NoSeeds
  <2>5. /\ CallsOK(calls', disk, boot') /\ LoadsOK(calls', boot')
        /\ \A c \in calls' : c.route \in LoadRoutes
    BY <2>1, <2>2, <2>3, RequestOfLoad
  <2> QED BY <2>1, <2>2, <2>4, <2>5, BootingKeeps
<1> QED BY <1>1, <1>2

LEMMA LoadStepKeeps ==
  ASSUME IInv, NEW c \in calls, LoadStep(c)
  PROVE  IInv'
<1> USE DEF IInv
<1>1. c.route \in LoadRoutes /\ UNCHANGED <<disk, tab, view, seeds>>
  BY DEF LoadStep, LoadRoutes
<1>2. CallOK(c, disk, boot) /\ boot.phase = "loading"
  BY <1>1 DEF CallsOK, LoadsOK
<1>3. calls = {c} /\ tab = "map" /\ view = Blank
  BY <1>2, AloneUntilReady
<1>4. boot \in Boots /\ disk.gen \in Nat /\ c.since \in Nat /\ c.since <= disk.gen
      /\ c.route # "bench"
  BY <1>1, <1>2 DEF TypeInv, CallOK, LoadRoutes
<1>5. c.reply.code = 200 => /\ c.reply.gen \in Nat
                            /\ c.since <= c.reply.gen /\ c.reply.gen <= disk.gen
  BY <1>2, <1>4 DEF CallOK
<1>6. ASSUME boot' \in Boots, BootOK(disk, boot'), boot'.phase # "loading", calls' = {}
      PROVE  IInv'
  <2>1. CallsOK(calls', disk, boot') /\ LoadsOK(calls', boot')
        /\ \A e \in calls' : e.route \in LoadRoutes
    BY <1>6 DEF CallsOK, LoadsOK
  <2> QED BY <1>1, <1>3, <1>6, <2>1, BootingKeeps DEF TypeInv
<1>7. ASSUME boot' \in Boots, BootOK(disk, boot'), boot'.phase = "loading",
             NEW route \in LoadRoutes, Onward(c, route)
      PROVE  IInv'
  <2>1. calls' = {Call(route, None, c.n)}
    BY <1>3, <1>7 DEF Onward
  <2>2. CallsOK(calls', disk, boot') /\ LoadsOK(calls', boot')
        /\ \A e \in calls' : e.route \in LoadRoutes
    BY <1>7, <2>1, RequestOfLoad
  <2> QED BY <1>1, <1>3, <1>7, <2>2, BootingKeeps DEF TypeInv
<1>8. CASE Fails(c)
  <2>1. boot' \in Boots /\ BootOK(disk, boot') /\ boot'.phase # "loading" /\ calls' = {}
    BY <1>3, <1>4, <1>8 DEF Fails, Boots, BootOK
  <2> QED BY <1>6, <2>1
<1>9. CASE c.route = "health" /\ HealthArrives(c) /\ c.reply.code = 200
  <2>1. CASE c.reply.status = "ok"
    <3>1. boot' = [boot EXCEPT !.health = c.reply.gen] /\ Onward(c, "summary")
      BY <1>9, <2>1 DEF HealthArrives
    <3>2. boot' \in Boots /\ BootOK(disk, boot') /\ boot'.phase = "loading"
      BY <1>2, <1>4, <1>5, <1>9, <3>1 DEF Boots, BootOK
    <3>3. "summary" \in LoadRoutes
      BY DEF LoadRoutes
    <3> QED BY <1>7, <3>1, <3>2, <3>3
  <2>2. CASE c.reply.status # "ok"
    <3>1. boot' = [boot EXCEPT !.health = c.reply.gen, !.phase = "missing"]
          /\ calls' = calls \ {c}
      BY <1>9, <2>2 DEF HealthArrives
    <3>2. boot' \in Boots /\ BootOK(disk, boot') /\ boot'.phase # "loading" /\ calls' = {}
      BY <1>3, <1>4, <1>5, <1>9, <3>1 DEF Boots, BootOK
    <3> QED BY <1>6, <3>2
  <2> QED BY <2>1, <2>2
<1>10. CASE c.route = "summary" /\ SummaryArrives(c)
  <2> DEFINE s == IF c.reply.code = 200 THEN c.reply.gen ELSE 0
  <2>1. s \in Nat /\ s <= disk.gen
    BY <1>4, <1>5
  <2>2. boot' = [boot EXCEPT !.summary = s] /\ Onward(c, "graph")
    BY <1>10 DEF SummaryArrives
  <2> HIDE DEF s
  <2>3. boot' \in Boots /\ BootOK(disk, boot') /\ boot'.phase = "loading"
    BY <1>2, <1>4, <2>1, <2>2 DEF Boots, BootOK
  <2>4. "graph" \in LoadRoutes
    BY DEF LoadRoutes
  <2> QED BY <1>7, <2>2, <2>3, <2>4
<1>11. CASE c.route = "graph" /\ GraphArrives(c) /\ c.reply.code = 200
  <2>1. boot' = [boot EXCEPT !.graph = c.reply.gen, !.phase = "ready"] /\ calls' = {}
    BY <1>3, <1>11 DEF GraphArrives
  <2>2. boot.health <= c.reply.gen /\ boot.summary <= c.reply.gen
    BY <1>2, <1>4, <1>5, <1>11 DEF CallOK, Boots
  <2>3. boot' \in Boots /\ BootOK(disk, boot') /\ boot'.phase # "loading"
    BY <1>4, <1>5, <1>11, <2>1, <2>2 DEF Boots, BootOK
  <2> QED BY <1>6, <2>1, <2>3
<1> QED BY <1>8, <1>9, <1>10, <1>11 DEF LoadStep, HealthArrives, GraphArrives
-----------------------------------------------------------------------------
(* The pages.                                                              *)

\* A page that asks when no other question is waited for waits for this one.
LEMMA AskKeeps ==
  ASSUME IInv, boot.phase = "ready",
         NEW S, CallsOK(S, disk, boot), LoadsOK(S, boot), \A c \in S : ~Waited(c),
         NEW t \in Asking, NEW q, NEW n, NEW v, v.loading = TRUE, v.asked = q
  PROVE  LET T == S \cup {Call(t, q, n)}
         IN  CallsOK(T, disk, boot) /\ LoadsOK(T, boot) /\ PageOK(T, t, v)
<1>1. PICK c : c = Call(t, q, n)
  OBVIOUS
<1>2. /\ IsCall(c) /\ c.route = t /\ c.q = q /\ c.since = disk.gen
      /\ c.orphan \in BOOLEAN /\ ~c.orphan /\ c.reply.code # 200
  BY <1>1, NewCall
<1>3. t \notin LoadRoutes
  BY DEF Asking, LoadRoutes
<1>4. CallOK(c, disk, boot)
  <2>1. disk.gen \in Nat /\ boot.graph <= disk.gen
    BY DEF IInv, TypeInv, BootOK
  <2>2. t \notin {"summary", "graph"}
    BY DEF Asking
  <2> QED BY <1>2, <2>1, <2>2 DEF CallOK
<1>5. CallsOK(S \cup {c}, disk, boot)
  BY <1>4 DEF CallsOK
<1>6. LoadsOK(S \cup {c}, boot)
  BY <1>2, <1>3 DEF LoadsOK
<1>7. PageOK(S \cup {c}, t, v)
  BY <1>2 DEF PageOK, Waited
<1> QED BY <1>1, <1>5, <1>6, <1>7

\* The invariant of a page of a loaded app.
LEMMA ReadyPage ==
  ASSUME IInv, UNCHANGED <<disk, boot>>, boot.phase = "ready",
         tab' \in Tabs, NEW a, NEW s, NEW l \in BOOLEAN, NEW e,
         view' = [asked |-> a, shown |-> s, loading |-> l, error |-> e],
         seeds' \in [{"context", "impact"} -> Tasks \cup {None}],
         CallsOK(calls', disk, boot), LoadsOK(calls', boot), PageOK(calls', tab', view'),
         ShownOK(boot, tab', view')
  PROVE  IInv'
<1>1. TypeInv'
  BY DEF IInv, TypeInv
<1> QED BY <1>1 DEF IInv

LEMMA RunKeeps ==
  ASSUME IInv, NEW q, Run(tab, q), tab \in Asking, UNCHANGED <<disk, boot, tab>>,
         boot.phase = "ready", seeds' \in [{"context", "impact"} -> Tasks \cup {None}]
  PROVE  IInv'
<1> USE DEF IInv
<1>1. calls' = (calls \ Live(tab)) \cup {Call(tab, q, asks)}
      /\ view' = [view EXCEPT !.asked = q, !.loading = TRUE, !.error = None]
  BY DEF Run, Superseded
<1>2. PICK a, s, l, e : view = [asked |-> a, shown |-> s, loading |-> l, error |-> e]
  BY DEF TypeInv
<1>3. view' = [asked |-> q, shown |-> s, loading |-> TRUE, error |-> None]
  BY <1>1, <1>2
<1>4. PICK S : S = calls \ Live(tab)
  OBVIOUS
<1>5. \A c \in S : c \in calls /\ ~Waited(c)
  BY <1>4 DEF Live, PageOK, Waited
<1>6. CallsOK(S, disk, boot) /\ LoadsOK(S, boot)
  BY <1>5 DEF CallsOK, LoadsOK
<1>7. CallsOK(calls', disk, boot) /\ LoadsOK(calls', boot) /\ PageOK(calls', tab, view')
  BY <1>1, <1>3, <1>4, <1>5, <1>6, AskKeeps
<1>8. ShownOK(boot, tab, view')
  BY <1>2, <1>3 DEF ShownOK
<1> QED BY <1>3, <1>7, <1>8, ReadyPage DEF TypeInv

LEMMA ArriveKeeps ==
  ASSUME IInv, NEW c \in calls, Arrive(c)
  PROVE  IInv'
<1> USE DEF IInv
<1>1. /\ c.route \in Asking /\ view' = Settled(c) /\ calls' = calls \ {c}
      /\ UNCHANGED <<disk, boot, tab, seeds>>
  BY DEF Arrive
<1>2. CallOK(c, disk, boot) /\ boot.phase = "ready"
  BY <1>1 DEF CallsOK, CallOK
<1>3. CallsOK(calls', disk, boot)
  BY <1>1 DEF CallsOK
<1>4. LoadsOK(calls', boot)
  BY <1>1, <1>2 DEF LoadsOK
<1>5. PICK a, s, l, e : view = [asked |-> a, shown |-> s, loading |-> l, error |-> e]
                        /\ l \in BOOLEAN
  BY DEF TypeInv
<1>6. CASE c.orphan
  <2>1. view' = view
    BY <1>1, <1>6 DEF Settled
  <2>2. PageOK(calls', tab, view)
    BY <1>1, <1>6 DEF PageOK, Waited
  <2> QED BY <1>1, <1>2, <1>3, <1>4, <1>5, <2>1, <2>2, ReadyPage DEF TypeInv
<1>7. CASE ~c.orphan
  <2>1. Waited(c)
    BY <1>1, <1>7 DEF Waited
  <2>2. c.route = tab /\ \A d \in calls' : ~Waited(d)
    BY <1>1, <2>1 DEF PageOK
  <2>3. ASSUME NEW w, w.loading = FALSE
        PROVE  PageOK(calls', tab, w)
    BY <2>2, <2>3 DEF PageOK
  <2>4. CASE c.reply.code = 200
    <3> DEFINE h == [q |-> c.q, gen |-> c.reply.gen, since |-> c.since, why |-> c.reply.status]
    <3>1. h.q = c.q /\ h.gen = c.reply.gen /\ h.since = c.since
      OBVIOUS
    <3>2. view' = [view EXCEPT !.loading = FALSE, !.shown = h]
      BY <1>1, <1>7, <2>4 DEF Settled
    <3> HIDE DEF h
    <3>3. view' = [asked |-> a, shown |-> h, loading |-> FALSE, error |-> e]
      BY <1>5, <3>2
    <3>4. ShownOK(boot, tab, view')
      <4>1. SUFFICES ASSUME tab # "bench"
                     PROVE  /\ h.gen \in Nat /\ h.since \in Nat
                            /\ h.gen >= h.since /\ h.since >= boot.graph
        BY <3>3 DEF ShownOK
      <4>2. disk.gen \in Nat /\ boot.graph \in Nat
        BY DEF TypeInv, Boots
      <4> QED BY <1>1, <1>2, <2>2, <2>4, <3>1, <4>1, <4>2 DEF CallOK
    <3>5. view'.loading = FALSE
      BY <3>3
    <3>6. PageOK(calls', tab, view')
      BY <2>3, <3>5
    <3> QED BY <1>1, <1>2, <1>3, <1>4, <3>3, <3>4, <3>6, ReadyPage DEF TypeInv
  <2>5. CASE c.reply.code # 200
    <3>1. view' = [view EXCEPT !.loading = FALSE, !.error = "failed"]
      BY <1>1, <1>7, <2>5 DEF Settled
    <3>2. view' = [asked |-> a, shown |-> s, loading |-> FALSE, error |-> "failed"]
      BY <1>5, <3>1
    <3>3. ShownOK(boot, tab, view')
      BY <1>5, <3>2 DEF ShownOK
    <3>4. view'.loading = FALSE
      BY <3>2
    <3>5. PageOK(calls', tab, view')
      BY <2>3, <3>4
    <3> QED BY <1>1, <1>2, <1>3, <1>4, <3>2, <3>3, <3>5, ReadyPage DEF TypeInv
  <2> QED BY <2>4, <2>5
<1> QED BY <1>6, <1>7

-----------------------------------------------------------------------------
(* From page to page.                                                      *)

\* What is under way when a page is left waits for nothing.
LEMMA UnmountedOK ==
  ASSUME IInv
  PROVE  /\ CallsOK(Unmounted, disk, boot) /\ LoadsOK(Unmounted, boot)
         /\ \A c \in Unmounted : ~Waited(c)
<1> USE DEF IInv
<1>1. \A c \in calls : Waited(c) => c \in Live(tab)
  BY DEF PageOK, Waited, Live
<1>2. \A c \in calls : CallOK(c, disk, boot)
  BY DEF CallsOK
<1>3. CASE tab \in AbortsOnUnmount
  <2>1. Unmounted = calls \ Live(tab)
    BY <1>3 DEF Unmounted
  <2>2. \A c \in Live(tab) : c.route \notin LoadRoutes
    BY <1>3 DEF Live, AbortsOnUnmount, LoadRoutes
  <2>3. LoadsOK(Unmounted, boot)
    BY <2>1, <2>2 DEF LoadsOK
  <2> QED BY <1>1, <1>2, <2>1, <2>3 DEF CallsOK
<1>4. CASE tab \notin AbortsOnUnmount
  <2> DEFINE f == [c \in calls |-> IF c \in Live(tab) THEN [c EXCEPT !.orphan = TRUE] ELSE c]
  <2>1. Unmounted = {f[c] : c \in calls}
    BY <1>4 DEF Unmounted
  <2>2. \A c \in calls : c \notin Live(tab) => f[c] = c
    OBVIOUS
  <2>3. \A c \in calls : c \in Live(tab) => f[c] = [c EXCEPT !.orphan = TRUE]
    OBVIOUS
  <2> HIDE DEF f
  <2>4. \A c \in calls : /\ IsCall(f[c]) /\ f[c].route = c.route /\ f[c].q = c.q
                         /\ f[c].since = c.since /\ f[c].reply = c.reply
                         /\ f[c].orphan \in BOOLEAN /\ ~Waited(f[c])
    <3> TAKE c \in calls
    <3>1. CASE c \in Live(tab)
      BY <1>2, <2>3, <3>1, OrphanKeeps DEF CallOK, Waited
    <3>2. CASE c \notin Live(tab)
      BY <1>1, <1>2, <2>2, <3>2 DEF CallOK
    <3> QED BY <3>1, <3>2
  <2>7. CallsOK(Unmounted, disk, boot)
    <3>1. SUFFICES ASSUME NEW c \in calls
                   PROVE  CallOK(f[c], disk, boot)
      BY <2>1 DEF CallsOK
    <3> QED BY <1>2, <2>4 DEF CallOK
  <2>8. LoadsOK(Unmounted, boot)
    <3>1. \A c \in calls : c.route \in LoadRoutes <=> f[c].route \in LoadRoutes
      BY <2>4
    <3> QED BY <2>1, <3>1 DEF LoadsOK
  <2> QED BY <2>1, <2>4, <2>7, <2>8
<1> QED BY <1>3, <1>4

\* Only a page that asks opens with a question, and it is one that can be asked.
LEMMA OpeningAsks ==
  ASSUME NEW v, NEW s \in [{"context", "impact"} -> Tasks \cup {None}], Opening(v, s) # None
  PROVE  v \in Asking /\ Opening(v, s) \in Tasks \cup {"working", "newest"}
<1>1. CASE v = "changes"
  BY <1>1 DEF Opening, Asking
<1>2. CASE v = "bench"
  BY <1>2 DEF Opening, Asking
<1>3. CASE v \notin {"changes", "bench"} /\ v \in {"context", "impact"}
  <2>1. Opening(v, s) = s[v]
    BY <1>3 DEF Opening
  <2> QED BY <1>3, <2>1 DEF Asking
<1>4. CASE v \notin {"changes", "bench", "context", "impact"}
  BY <1>4 DEF Opening
<1> QED BY <1>1, <1>2, <1>3, <1>4

LEMMA MountKeeps ==
  ASSUME IInv, UNCHANGED <<disk, boot>>, boot.phase = "ready",
         NEW v \in Tabs, NEW s \in [{"context", "impact"} -> Tasks \cup {None}], Mount(v, s),
         tab' = v, seeds' \in [{"context", "impact"} -> Tasks \cup {None}]
  PROVE  IInv'
<1>1. /\ CallsOK(Unmounted, disk, boot) /\ LoadsOK(Unmounted, boot)
      /\ \A c \in Unmounted : ~Waited(c)
  BY UnmountedOK
<1>2. Blank = [asked |-> None, shown |-> Nothing, loading |-> FALSE, error |-> None]
  BY DEF Blank
<1>3. ASSUME NEW w, w.shown = Nothing
      PROVE  ShownOK(boot, tab', w)
  BY <1>3 DEF ShownOK, Nothing
<1>4. CASE Opening(v, s) = None
  <2>1. view' = Blank /\ calls' = Unmounted
    BY <1>4 DEF Mount
  <2>2. view'.loading = FALSE /\ view'.shown = Nothing
    BY <1>2, <2>1
  <2>3. PageOK(calls', tab', view')
    BY <1>1, <2>1, <2>2 DEF PageOK
  <2> QED BY <1>1, <1>2, <1>3, <2>1, <2>2, <2>3, ReadyPage
<1>5. CASE Opening(v, s) # None
  <2>1. PICK q : q = Opening(v, s)
    OBVIOUS
  <2>2. view' = [Blank EXCEPT !.asked = q, !.loading = TRUE]
        /\ calls' = Unmounted \cup OpeningCall(v, q)
    BY <1>5, <2>1 DEF Mount
  <2>3. view' = [asked |-> q, shown |-> Nothing, loading |-> TRUE, error |-> None]
    BY <1>2, <2>2
  <2>4. view'.loading = TRUE /\ view'.shown = Nothing /\ view'.asked = q
    BY <2>3
  <2>5. v \in Asking
    BY <1>5, OpeningAsks
  <2>6. CallsOK(calls', disk, boot) /\ LoadsOK(calls', boot) /\ PageOK(calls', tab', view')
    <3>1. CASE Strict /\ v \in AbortsOnUnmount
      <4>1. calls' = Unmounted
        BY <2>2, <3>1 DEF OpeningCall
      <4> QED BY <1>1, <3>1, <4>1 DEF PageOK
    <3>2. CASE ~(Strict /\ v \in AbortsOnUnmount)
      <4>1. calls' = Unmounted \cup {Call(v, q, asks)}
        BY <2>2, <3>2 DEF OpeningCall
      <4> QED BY <1>1, <2>4, <2>5, <4>1, AskKeeps
    <3> QED BY <3>1, <3>2
  <2> QED BY <1>1, <1>3, <2>3, <2>4, <2>6, ReadyPage
<1> QED BY <1>4, <1>5

\* A page that asks is open in a loaded app only.
LEMMA AskingIsReady ==
  ASSUME IInv, tab \in Asking
  PROVE  boot.phase = "ready"
  BY DEF IInv, Asking

LEMMA InitKeeps == Init => IInv
<1> SUFFICES ASSUME Init
             PROVE  IInv
  OBVIOUS
<1>1. /\ disk = [content |-> disk.content, gen |-> disk.gen] /\ disk.gen = 1
      /\ boot = NoBoot /\ calls = {Call("health", None, 0)}
      /\ tab = "map" /\ view = Blank /\ seeds = NoSeeds
  BY DEF Init, ServerInit
<1>2. PICK c : c = Call("health", None, 0)
  OBVIOUS
<1>3. /\ IsCall(c) /\ c.route = "health" /\ c.since = disk.gen
      /\ c.orphan \in BOOLEAN /\ ~c.orphan /\ c.reply.code # 200
  BY <1>2, NewCall
<1>4. TypeInv
  BY <1>1 DEF TypeInv, Boots, NoBoot, Blank, Tabs, NoSeeds
<1>5. CallOK(c, disk, boot)
  BY <1>1, <1>3 DEF CallOK, Asking, LoadRoutes
<1>6. CallsOK(calls, disk, boot) /\ LoadsOK(calls, boot)
  BY <1>1, <1>2, <1>3, <1>5 DEF CallsOK, LoadsOK, NoBoot, LoadRoutes
<1>7. BootOK(disk, boot) /\ ShownOK(boot, tab, view)
  BY <1>1 DEF BootOK, NoBoot, ShownOK, Blank, Nothing
<1>8. PageOK(calls, tab, view)
  BY <1>1, <1>2, <1>3 DEF PageOK, Waited, Blank, Asking
<1> QED BY <1>1, <1>4, <1>6, <1>7, <1>8 DEF IInv

LEMMA NextKeeps == IInv /\ [Next]_vars => IInv'
<1> SUFFICES ASSUME IInv, [Next]_vars
             PROVE  IInv'
  OBVIOUS
<1>1. CASE UNCHANGED vars
  BY <1>1 DEF IInv, TypeInv, vars, serverVars, appVars
<1>2. CASE ServerSteps
  BY <1>2, ServerKeeps DEF ServerSteps
<1>3. CASE Retry \/ Reload
  BY <1>3, LoadKeeps
<1>4. CASE \E c \in calls : LoadStep(c) \/ Arrive(c)
  BY <1>4, LoadStepKeeps, ArriveKeeps
<1>5. CASE \E q \in Askable(tab) : Submit(q)
  BY <1>5, RunKeeps DEF Submit, IInv, TypeInv
<1>6. CASE SubmitEmpty
  <2>1. UNCHANGED <<disk, calls, boot, tab, seeds>> /\ tab \in Asking
        /\ view' = [view EXCEPT !.error = "empty"]
    BY <1>6 DEF SubmitEmpty, serverVars
  <2>2. PICK a, s, l, e : view = [asked |-> a, shown |-> s, loading |-> l, error |-> e]
                          /\ l \in BOOLEAN
    BY DEF IInv, TypeInv
  <2>3. view' = [asked |-> a, shown |-> s, loading |-> l, error |-> "empty"]
    BY <2>1, <2>2
  <2>4. PageOK(calls', tab', view') /\ ShownOK(boot, tab', view')
    BY <2>1, <2>2, <2>3 DEF IInv, PageOK, ShownOK
  <2> QED BY <2>1, <2>2, <2>3, <2>4, AskingIsReady, ReadyPage DEF IInv, TypeInv
<1>7. CASE \E q \in Tasks : ClickRecent(q)
  <2>1. PICK q \in Tasks : ClickRecent(q)
    BY <1>7
  <2>2. tab \in Asking /\ Run(tab, q) /\ UNCHANGED <<disk, boot, tab, seeds>>
    BY <2>1 DEF ClickRecent, Asking
  <2> QED BY <2>2, AskingIsReady, RunKeeps DEF IInv, TypeInv
<1>8. CASE \E v \in Tabs : GoTab(v)
  <2>1. PICK v \in Tabs : GoTab(v)
    BY <1>8
  <2> QED BY <2>1, MountKeeps DEF GoTab, IInv, TypeInv
<1>9. CASE \E v \in DOMAIN NoSeeds, q \in Tasks : Seed(v, q)
  <2>1. PICK v \in {"context", "impact"}, q \in Tasks : Seed(v, q)
    BY <1>9 DEF NoSeeds
  <2>2. boot.phase = "ready" /\ tab' = v /\ UNCHANGED <<disk, boot>>
        /\ seeds' = [seeds EXCEPT ![v] = q]
    BY <2>1 DEF Seed
  <2>3. seeds' \in [{"context", "impact"} -> Tasks \cup {None}]
    BY <2>2 DEF IInv, TypeInv
  <2>4. v \in Tabs /\ v \in Asking
    BY DEF Tabs, Asking
  <2>5. CASE v # tab /\ Mount(v, seeds')
    BY <2>2, <2>3, <2>4, <2>5, MountKeeps
  <2>6. CASE v = tab /\ Run(v, q)
    BY <2>2, <2>3, <2>4, <2>6, RunKeeps
  <2> QED BY <2>1, <2>5, <2>6 DEF Seed
<1>10. CASE ClearAll
  BY <1>10 DEF ClearAll, IInv, TypeInv, serverVars
<1> QED BY <1>1, <1>2, <1>3, <1>4, <1>5, <1>6, <1>7, <1>8, <1>9, <1>10 DEF Next

LEMMA Inductive == Spec => []IInv
  BY InitKeeps, NextKeeps, PTL DEF Spec

-----------------------------------------------------------------------------
\* Outside of StrictMode a spinner turns exactly while the one call that stops it
\* is under way: App.load and run() of the views abort, replace and finish calls
\* so that none is stranded and none doubled.
THEOREM SpinnerTrue ==
  ASSUME ~Strict
  PROVE  Spec => []SpinnerMeansWork
<1>1. ASSUME IInv
      PROVE  SpinnerMeansWork
  <2> USE <1>1 DEF IInv
  <2>1. Cardinality(Loading) = (IF boot.phase = "loading" THEN 1 ELSE 0)
    <3>1. CASE boot.phase = "loading"
      <4>1. PICK c \in calls : Loading = {c}
        BY <3>1 DEF LoadsOK, Loading
      <4> QED BY <3>1, <4>1, FS_Singleton
    <3>2. CASE boot.phase # "loading"
      <4>1. Loading = {}
        BY <3>2 DEF LoadsOK, Loading
      <4> QED BY <3>2, <4>1, FS_EmptySet
    <3> QED BY <3>1, <3>2
  <2>2. Cardinality(Live(tab)) = (IF view.loading THEN 1 ELSE 0)
    <3>1. \A c \in Live(tab) : c \in calls /\ Waited(c)
      <4>1. tab \notin LoadRoutes
        BY DEF TypeInv, Tabs, Asking, LoadRoutes
      <4> QED BY <4>1 DEF Live, CallsOK, CallOK, Waited
    <3>2. CASE view.loading
      <4>1. PICK c \in calls : Live(tab) = {c}
        BY <3>1, <3>2 DEF PageOK, Live, Waited
      <4> QED BY <3>2, <4>1, FS_Singleton
    <3>3. CASE ~view.loading
      <4>1. Live(tab) = {}
        BY <3>1, <3>3 DEF PageOK
      <4> QED BY <3>3, <4>1, FS_EmptySet
    <3> QED BY <3>2, <3>3
  <2> QED BY <2>1, <2>2 DEF SpinnerMeansWork
<1> QED BY <1>1, Inductive, PTL

\* What a page shows is computed from a scan no older than the one on disk when it
\* was asked, and than the graph of the app; the load never goes back in time
\* (loadGraphState per request; health, summary and graph in turn).
THEOREM NotStale == Spec => []NothingStale
<1>1. ASSUME IInv
      PROVE  NothingStale
  <2>1. boot.graph \in Nat
    BY <1>1 DEF IInv, TypeInv, Boots
  <2> QED BY <1>1, <2>1 DEF IInv, NothingStale, ShownOK, BootOK
<1> QED BY <1>1, Inductive, PTL

-----------------------------------------------------------------------------
(* The app implements LatestAnswer: a question, its answer and its failure *)
(* are the steps of its own, leaving a page is a Turn, and every other     *)
(* step stutters.                                                          *)

\* A step that asks the open page asks what it promises to answer.
LEMMA RunIsAsk ==
  ASSUME IInv, NEW q \in Tasks \cup {"working", "newest"}, NEW v, Run(v, q)
  PROVE  Promise!Ask
<1>1. PICK a, s, l, e : view = [asked |-> a, shown |-> s, loading |-> l, error |-> e]
  BY DEF IInv, TypeInv
<1>2. view' = [asked |-> q, shown |-> s, loading |-> TRUE, error |-> None]
  BY <1>1 DEF Run
<1> QED BY <1>1, <1>2 DEF Promise!Ask

LEMMA MountIsTurn ==
  ASSUME NEW v \in Tabs, NEW s \in [{"context", "impact"} -> Tasks \cup {None}], Mount(v, s)
  PROVE  Promise!Turn
<1>1. Blank = [asked |-> None, shown |-> Nothing, loading |-> FALSE, error |-> None]
      /\ Nothing.q = None
  BY DEF Blank, Nothing
<1>2. CASE Opening(v, s) = None
  BY <1>1, <1>2 DEF Mount, Promise!Turn
<1>3. CASE Opening(v, s) # None
  <2>1. PICK q \in Tasks \cup {"working", "newest"} : q = Opening(v, s)
    BY <1>3, OpeningAsks
  <2>2. view' = [asked |-> q, shown |-> Nothing, loading |-> TRUE, error |-> None]
    BY <1>1, <1>3, <2>1 DEF Mount
  <2> QED BY <1>1, <2>1, <2>2 DEF Promise!Turn
<1> QED BY <1>2, <1>3

LEMMA ArriveAnswers ==
  ASSUME IInv, NEW c \in calls, Arrive(c)
  PROVE  Promise!Answer \/ Promise!Fail \/ UNCHANGED view
<1>1. c.route \in Asking /\ view' = Settled(c)
  BY DEF Arrive
<1>2. PICK a, s, l, e : view = [asked |-> a, shown |-> s, loading |-> l, error |-> e]
  BY DEF IInv, TypeInv
<1>3. CASE c.orphan
  BY <1>1, <1>3 DEF Settled
<1>4. CASE ~c.orphan
  <2>1. view.loading /\ c.q = view.asked
    BY <1>1, <1>4 DEF IInv, PageOK, Waited
  <2>2. CASE c.reply.code = 200
    <3> DEFINE h == [q |-> c.q, gen |-> c.reply.gen, since |-> c.since, why |-> c.reply.status]
    <3>1. h.q = c.q
      OBVIOUS
    <3>2. view' = [view EXCEPT !.loading = FALSE, !.shown = h]
      BY <1>1, <1>4, <2>2 DEF Settled
    <3> HIDE DEF h
    <3>3. view' = [asked |-> a, shown |-> h, loading |-> FALSE, error |-> e]
      BY <1>2, <3>2
    <3>4. view'.shown.q = view.asked /\ view'.asked = view.asked
      BY <1>2, <2>1, <3>1, <3>3
    <3>5. view'.loading = FALSE
      BY <3>3
    <3> QED BY <2>1, <3>4, <3>5 DEF Promise!Answer
  <2>3. CASE c.reply.code # 200
    <3>1. view' = [view EXCEPT !.loading = FALSE, !.error = "failed"]
      BY <1>1, <1>4, <2>3 DEF Settled
    <3>2. view' = [asked |-> a, shown |-> s, loading |-> FALSE, error |-> "failed"]
      BY <1>2, <3>1
    <3>3. view'.asked = view.asked /\ view'.shown = view.shown
      BY <1>2, <3>2
    <3>4. view'.loading = FALSE
      BY <3>2
    <3> QED BY <2>1, <3>3, <3>4 DEF Promise!Fail
  <2> QED BY <2>2, <2>3
<1> QED BY <1>3, <1>4

\* What a page shows is the answer to what was asked last, whichever of the
\* answers, failures, aborts, pages left and reloads come first.
THEOREM ImplementsLatestAnswer == Spec => LatestWins
<1>1. Init => Promise!Init
  BY DEF Init, Blank, Nothing, Promise!Init
<1>2. IInv /\ [Next]_vars => [Promise!Next]_Promise!vars
  <2> SUFFICES ASSUME IInv, [Next]_vars
               PROVE  Promise!Next \/ UNCHANGED <<view.asked, view.shown.q, view.loading>>
    BY DEF Promise!vars
  <2> USE DEF Promise!Next
  <2>1. CASE UNCHANGED vars
    BY <2>1 DEF vars, appVars
  <2>2. CASE ServerSteps
    BY <2>2 DEF ServerSteps, appVars
  <2>3. CASE Retry
    BY <2>3 DEF Retry, Load
  <2>4. CASE Reload
    <3>1. view' = Blank
      BY <2>4 DEF Reload
    <3>2. view'.asked = None /\ view'.shown.q = None
      BY <3>1 DEF Blank, Nothing
    <3>3. view'.loading = FALSE
      BY <3>1 DEF Blank
    <3> QED BY <3>2, <3>3 DEF Promise!Turn
  <2>5. CASE \E c \in calls : LoadStep(c)
    BY <2>5 DEF LoadStep
  <2>6. CASE \E c \in calls : Arrive(c)
    BY <2>6, ArriveAnswers
  <2>7. CASE \E q \in Askable(tab) : Submit(q)
    <3>1. PICK q \in Askable(tab) : Submit(q)
      BY <2>7
    <3>2. q \in Tasks \cup {"working", "newest"}
      <4>1. CASE tab = "bench"
        BY <4>1 DEF Askable
      <4>2. CASE tab = "changes"
        BY <4>2 DEF Askable
      <4>3. CASE tab \notin {"bench", "changes"}
        BY <4>3 DEF Askable
      <4> QED BY <4>1, <4>2, <4>3
    <3> QED BY <3>1, <3>2, RunIsAsk DEF Submit
  <2>8. CASE SubmitEmpty
    <3>1. view' = [view EXCEPT !.error = "empty"]
      BY <2>8 DEF SubmitEmpty
    <3>2. PICK a, s, l, e : view = [asked |-> a, shown |-> s, loading |-> l, error |-> e]
      BY DEF IInv, TypeInv
    <3>3. view' = [asked |-> a, shown |-> s, loading |-> l, error |-> "empty"]
      BY <3>1, <3>2
    <3>4. UNCHANGED <<view.asked, view.shown.q, view.loading>>
      BY <3>2, <3>3
    <3> QED BY <3>4
  <2>9. CASE \E q \in Tasks : ClickRecent(q)
    BY <2>9, RunIsAsk DEF ClickRecent
  <2>10. CASE \E v \in Tabs : GoTab(v)
    BY <2>10, MountIsTurn DEF GoTab, IInv, TypeInv
  <2>11. CASE \E v \in DOMAIN NoSeeds, q \in Tasks : Seed(v, q)
    <3>1. PICK v \in {"context", "impact"}, q \in Tasks : Seed(v, q)
      BY <2>11 DEF NoSeeds
    <3>2. seeds' \in [{"context", "impact"} -> Tasks \cup {None}] /\ v \in Tabs
      BY <3>1 DEF Seed, IInv, TypeInv, Tabs, Asking
    <3>3. CASE Mount(v, seeds')
      BY <3>2, <3>3, MountIsTurn
    <3>4. CASE Run(v, q)
      BY <3>4, RunIsAsk
    <3> QED BY <3>1, <3>3, <3>4 DEF Seed
  <2>12. CASE ClearAll
    BY <2>12 DEF ClearAll
  <2> QED BY <2>1, <2>2, <2>3, <2>4, <2>5, <2>6, <2>7, <2>8, <2>9, <2>10, <2>11, <2>12 DEF Next
<1> QED BY <1>1, <1>2, Inductive, PTL DEF Spec, LatestWins, Promise!Spec

-----------------------------------------------------------------------------
(* The drawing pages: the positions a canvas is painted with, for any       *)
(* inputs and any number of requests to the layout worker.                 *)

Requests == [id : 1..nextRequestId, nodes : Inputs]
Answers  == [id : 1..nextRequestId, positions : Inputs]

LayoutTyped ==
  /\ nextRequestId \in Nat
  /\ awaited \in 0..nextRequestId
  /\ nodes \in Inputs
  /\ queue \in Seq(Requests)
  /\ results \in Seq(Answers)

\* A layout that came is filed under the nodes it is of.
FiledInv == worked.positions = worked.nodes

\* Whatever has the id that is listened for is of the nodes on the canvas.
AskedInv ==
  /\ \A i \in DOMAIN queue : queue[i].id = awaited => queue[i].nodes = nodes
  /\ \A i \in DOMAIN results : results[i].id = awaited => results[i].positions = nodes

\* A layout that is missing is under way.
PendingInv ==
  nodes \in Large /\ worked.nodes # nodes
    => \/ \E i \in DOMAIN queue : queue[i].id = awaited
       \/ \E i \in DOMAIN results : results[i].id = awaited

PagesInv == LayoutTyped /\ FiledInv /\ AskedInv /\ PendingInv

-----------------------------------------------------------------------------
(* Queues                                                                  *)

LEMMA Appended ==
  ASSUME NEW S, NEW s \in Seq(S), NEW x \in S
  PROVE  /\ Append(s, x) \in Seq(S)
         /\ \A i \in DOMAIN s : i \in DOMAIN Append(s, x) /\ Append(s, x)[i] = s[i]
         /\ Len(s) + 1 \in DOMAIN Append(s, x) /\ Append(s, x)[Len(s) + 1] = x
         /\ \A i \in DOMAIN Append(s, x) :
              (i \in DOMAIN s /\ Append(s, x)[i] = s[i]) \/ Append(s, x)[i] = x
OBVIOUS

LEMMA Taken ==
  ASSUME NEW S, NEW s \in Seq(S), s # <<>>
  PROVE  /\ Tail(s) \in Seq(S) /\ Head(s) \in S /\ Head(s) = s[1] /\ 1 \in DOMAIN s
         /\ \A i \in DOMAIN Tail(s) : i + 1 \in DOMAIN s /\ Tail(s)[i] = s[i + 1]
         /\ \A i \in DOMAIN s :
              i = 1 \/ (i - 1 \in DOMAIN Tail(s) /\ Tail(s)[i - 1] = s[i])
OBVIOUS

LEMMA Empty == ASSUME NEW S PROVE <<>> \in Seq(S) /\ DOMAIN <<>> = {}
OBVIOUS

\* Ids that have been given stay given.
LEMMA Wider ==
  ASSUME NEW m \in Nat, NEW n \in Nat, m <= n,
         NEW q \in Seq([id : 1..m, nodes : Inputs]),
         NEW r \in Seq([id : 1..m, positions : Inputs])
  PROVE  /\ q \in Seq([id : 1..n, nodes : Inputs])
         /\ r \in Seq([id : 1..n, positions : Inputs])
<1>1. 1..m \subseteq 1..n
  OBVIOUS
<1>2. /\ [id : 1..m, nodes : Inputs] \subseteq [id : 1..n, nodes : Inputs]
      /\ [id : 1..m, positions : Inputs] \subseteq [id : 1..n, positions : Inputs]
  BY <1>1
<1>3. ASSUME NEW S, NEW T, S \subseteq T, NEW s \in Seq(S) PROVE s \in Seq(T)
  BY <1>3
<1>4. QED BY <1>2, <1>3, Zenon

-----------------------------------------------------------------------------
(* The steps                                                               *)

LEMMA ShowKeeps ==
  ASSUME PagesInv, NEW a \in Inputs, Show(a)
  PROVE  PagesInv'
<1>1. /\ nodes' = a /\ a # nodes /\ results' = results
      /\ nextRequestId \in Nat /\ awaited \in 0..nextRequestId
      /\ queue \in Seq(Requests) /\ results \in Seq(Answers)
  BY DEF PagesInv, LayoutTyped, Show
<1>2. /\ \A i \in DOMAIN queue : queue[i].id \in 1..nextRequestId
      /\ \A i \in DOMAIN results : results[i].id \in 1..nextRequestId
  <2>1. /\ \A i \in DOMAIN queue : queue[i] \in Requests
        /\ \A i \in DOMAIN results : results[i] \in Answers
    BY <1>1
  <2>2. QED BY <2>1 DEF Requests, Answers
<1>3. CASE awaited' = 0 /\ queue' = queue /\ nextRequestId' = nextRequestId
           /\ (a \in Large => worked'.nodes = a) /\ worked'.positions = worked'.nodes
  <2>1. LayoutTyped'
    <3>1. Requests' = Requests /\ Answers' = Answers /\ awaited' \in 0..nextRequestId
      BY <1>1, <1>3 DEF Requests, Answers
    <3>2. QED BY <1>1, <1>3, <3>1 DEF LayoutTyped
  <2>2. AskedInv'
    BY <1>1, <1>2, <1>3 DEF AskedInv
  <2>3. FiledInv' /\ PendingInv'
    BY <1>1, <1>3 DEF FiledInv, PendingInv
  <2>4. QED BY <2>1, <2>2, <2>3 DEF PagesInv
<1>4. CASE /\ nextRequestId' = nextRequestId + 1
           /\ awaited' = nextRequestId'
           /\ queue' = Append(queue, [id |-> nextRequestId', nodes |-> a])
           /\ worked' = worked
  <2> DEFINE x == [id |-> nextRequestId', nodes |-> a]
  <2>1. nextRequestId' \in Nat /\ awaited' \in 0..nextRequestId'
        /\ nextRequestId <= nextRequestId' /\ nextRequestId' \in 1..nextRequestId'
    BY <1>1, <1>4
  <2>2. queue \in Seq(Requests') /\ results \in Seq(Answers')
    BY <1>1, <2>1, Wider DEF Requests, Answers
  <2>3. x \in Requests' /\ x.id = nextRequestId' /\ x.nodes = a
    BY <2>1 DEF Requests
  <2> HIDE DEF x
  <2>4. /\ queue' \in Seq(Requests')
        /\ Len(queue) + 1 \in DOMAIN queue' /\ queue'[Len(queue) + 1] = x
        /\ \A i \in DOMAIN queue' :
             (i \in DOMAIN queue /\ queue'[i] = queue[i]) \/ queue'[i] = x
    BY <1>4, <2>2, <2>3, Appended DEF x
  <2>5. LayoutTyped'
    BY <1>1, <2>1, <2>2, <2>4 DEF LayoutTyped
  <2>6. AskedInv'
    <3>1. \A i \in DOMAIN queue : queue[i].id # awaited'
      BY <1>1, <1>2, <1>4
    <3>2. \A i \in DOMAIN results : results[i].id # awaited'
      BY <1>1, <1>2, <1>4
    <3>3. QED BY <1>1, <2>3, <2>4, <3>1, <3>2 DEF AskedInv
  <2>7. PendingInv'
    BY <1>4, <2>3, <2>4 DEF PendingInv
  <2>8. QED BY <1>4, <2>5, <2>6, <2>7 DEF PagesInv, FiledInv
<1>5. QED
  <2>1. worked.positions = worked.nodes
    BY DEF PagesInv, FiledInv
  <2>2. QED BY <1>3, <1>4, <2>1 DEF Show

LEMMA LayOutKeeps ==
  ASSUME PagesInv, LayOut
  PROVE  PagesInv'
<1> DEFINE h == Head(queue)
           x == [id |-> h.id, positions |-> h.nodes]
<1>1. /\ queue # <<>> /\ queue' = Tail(queue) /\ results' = Append(results, x)
      /\ nodes' = nodes /\ worked' = worked /\ awaited' = awaited
      /\ nextRequestId' = nextRequestId
  BY DEF LayOut
<1>2. queue \in Seq(Requests) /\ results \in Seq(Answers)
  BY DEF PagesInv, LayoutTyped
<1>3. /\ queue' \in Seq(Requests) /\ h \in Requests /\ h = queue[1] /\ 1 \in DOMAIN queue
      /\ \A i \in DOMAIN queue' : i + 1 \in DOMAIN queue /\ queue'[i] = queue[i + 1]
      /\ \A i \in DOMAIN queue :
           i = 1 \/ (i - 1 \in DOMAIN queue' /\ queue'[i - 1] = queue[i])
  BY <1>1, <1>2, Taken
<1> HIDE DEF h
<1>4. x \in Answers /\ x.id = h.id /\ x.positions = h.nodes
  BY <1>3 DEF Requests, Answers
<1> HIDE DEF x
<1>5. /\ results' \in Seq(Answers)
      /\ \A i \in DOMAIN results : i \in DOMAIN results' /\ results'[i] = results[i]
      /\ Len(results) + 1 \in DOMAIN results' /\ results'[Len(results) + 1] = x
      /\ \A i \in DOMAIN results' :
           (i \in DOMAIN results /\ results'[i] = results[i]) \/ results'[i] = x
  BY <1>1, <1>2, <1>4, Appended
<1>6. LayoutTyped'
  BY <1>1, <1>3, <1>5 DEF PagesInv, LayoutTyped, Requests, Answers
<1>7. AskedInv'
  BY <1>1, <1>3, <1>4, <1>5 DEF PagesInv, AskedInv
<1>8. PendingInv'
  <2>1. SUFFICES ASSUME nodes \in Large, worked.nodes # nodes
                 PROVE  \/ \E i \in DOMAIN queue' : queue'[i].id = awaited
                        \/ \E i \in DOMAIN results' : results'[i].id = awaited
    BY <1>1 DEF PendingInv
  <2>2. CASE \E i \in DOMAIN queue : queue[i].id = awaited
    <3>1. PICK i \in DOMAIN queue : queue[i].id = awaited
      BY <2>2
    <3>2. CASE i = 1
      BY <1>3, <1>4, <1>5, <3>1, <3>2
    <3>3. CASE i # 1
      BY <1>3, <3>1, <3>3
    <3>4. QED BY <3>2, <3>3
  <2>3. CASE \E i \in DOMAIN results : results[i].id = awaited
    BY <1>5, <2>3
  <2>4. QED BY <2>1, <2>2, <2>3 DEF PagesInv, PendingInv
<1>9. QED BY <1>1, <1>6, <1>7, <1>8 DEF PagesInv, FiledInv

LEMMA OnMessageKeeps ==
  ASSUME PagesInv, OnMessage
  PROVE  PagesInv'
<1> DEFINE h == Head(results)
<1>1. /\ results # <<>> /\ results' = Tail(results) /\ queue' = queue
      /\ nodes' = nodes /\ awaited' = awaited /\ nextRequestId' = nextRequestId
      /\ worked' = IF h.id = awaited THEN [nodes |-> nodes, positions |-> h.positions]
                   ELSE worked
  BY DEF OnMessage
<1>2. results \in Seq(Answers)
  BY DEF PagesInv, LayoutTyped
<1>3. /\ results' \in Seq(Answers) /\ h = results[1] /\ 1 \in DOMAIN results
      /\ \A i \in DOMAIN results' : i + 1 \in DOMAIN results /\ results'[i] = results[i + 1]
      /\ \A i \in DOMAIN results :
           i = 1 \/ (i - 1 \in DOMAIN results' /\ results'[i - 1] = results[i])
  BY <1>1, <1>2, Taken
<1> HIDE DEF h
<1>4. LayoutTyped'
  BY <1>1, <1>3 DEF PagesInv, LayoutTyped, Requests, Answers
<1>5. AskedInv'
  BY <1>1, <1>3 DEF PagesInv, AskedInv
<1>6. h.id = awaited => h.positions = nodes
  BY <1>3 DEF PagesInv, AskedInv
<1>7. FiledInv'
  BY <1>1, <1>6 DEF PagesInv, FiledInv
<1>8. PendingInv'
  BY <1>1, <1>3 DEF PagesInv, PendingInv
<1>9. QED BY <1>4, <1>5, <1>7, <1>8 DEF PagesInv

LEMMA PagesInitKeeps == PagesInit => PagesInv
<1> SUFFICES ASSUME PagesInit PROVE PagesInv
  OBVIOUS
<1>1. /\ nodes \in Inputs \ Large /\ awaited = 0 /\ nextRequestId = 0
      /\ queue = <<>> /\ results = <<>> /\ worked = Unworked
  BY DEF PagesInit, LayoutInit
<1>2. LayoutTyped
  BY <1>1, Empty DEF LayoutTyped
<1>3. FiledInv
  BY <1>1 DEF FiledInv, Unworked
<1>4. AskedInv /\ PendingInv
  BY <1>1, Empty DEF AskedInv, PendingInv
<1>5. QED BY <1>2, <1>3, <1>4 DEF PagesInv

LEMMA PagesNextKeeps == PagesInv /\ [PagesNext]_pagesVars => PagesInv'
<1> SUFFICES ASSUME PagesInv, [PagesNext]_pagesVars PROVE PagesInv'
  OBVIOUS
<1>1. CASE LayoutNext
  BY <1>1, ShowKeeps, LayOutKeeps, OnMessageKeeps DEF LayoutNext
<1>2. CASE UNCHANGED layoutVars
  BY <1>2 DEF layoutVars, PagesInv, LayoutTyped, FiledInv, AskedInv, PendingInv, Requests, Answers
<1>3. QED BY <1>1, <1>2 DEF PagesNext, pagesVars

\* No canvas is painted with the positions of other nodes than its own, and none
\* waits for a layout that nobody is working on (useLayout).
THEOREM LayoutIsOwn == PagesSpec => []LayoutFits
<1>1. PagesInv => LayoutFits
  <2> SUFFICES ASSUME PagesInv PROVE LayoutFits
    OBVIOUS
  <2>1. Painted \in {nodes, NoInput}
    BY DEF Painted, PagesInv, FiledInv
  <2>2. ASSUME queue = <<>>, results = <<>> PROVE Painted = nodes
    <3>1. nodes \in Large => worked.nodes = nodes
      BY <2>2, Empty DEF PagesInv, PendingInv
    <3>2. QED BY <3>1 DEF Painted, PagesInv, FiledInv
  <2>3. QED BY <2>1, <2>2 DEF LayoutFits
<1>2. QED BY <1>1, PagesInitKeeps, PagesNextKeeps, PTL DEF PagesSpec

-----------------------------------------------------------------------------
(* Sums, as the number of pairs of a layer and one of its places           *)

Slots(f) == UNION {{l} \X (1..f[l]) : l \in DOMAIN f}

LEMMA SlotsOf ==
  ASSUME NEW D, IsFiniteSet(D), NEW f \in [D -> Nat]
  PROVE  /\ \A s : s \in Slots(f) <=> \E l \in D, i \in Nat : i \in 1..f[l] /\ s = <<l, i>>
         /\ IsFiniteSet(Slots(f)) /\ Sum(f) = Cardinality(Slots(f)) /\ Sum(f) \in Nat
<1> DEFINE part == [l \in D |-> {l} \X (1..f[l])]
           parts == {part[l] : l \in D}
<1>1. DOMAIN f = D /\ Slots(f) = UNION parts
  BY DEF Slots
<1>2. \A s : s \in Slots(f) <=> \E l \in D, i \in Nat : i \in 1..f[l] /\ s = <<l, i>>
  BY <1>1
<1>3. \A T \in parts : IsFiniteSet(T)
  <2> SUFFICES ASSUME NEW l \in D PROVE IsFiniteSet({l} \X (1..f[l]))
    OBVIOUS
  <2>1. IsFiniteSet({l})
    BY FS_Singleton
  <2>2. IsFiniteSet(1..f[l])
    BY FS_Interval
  <2>3. QED BY <2>1, <2>2, FS_Product
<1>4. part \in [D -> parts] /\ \A T \in parts : \E l \in D : part[l] = T
  OBVIOUS
<1> HIDE DEF part, parts
<1>5. part \in Surjection(D, parts)
  BY <1>4, Fun_IsSurj
<1>6. IsFiniteSet(parts)
  BY <1>5, FS_Surjection
<1>7. IsFiniteSet(Slots(f))
  BY <1>1, <1>3, <1>6, FS_UNION
<1>8. Sum(f) = Cardinality(Slots(f))
  BY DEF Sum, Slots
<1>9. QED BY <1>2, <1>7, <1>8, FS_CardinalityType

\* What has no more anywhere has no more in all, and less if it has less somewhere.
LEMMA SumGrows ==
  ASSUME NEW D, IsFiniteSet(D), NEW f \in [D -> Nat], NEW g \in [D -> Nat],
         \A l \in D : f[l] <= g[l]
  PROVE  Sum(f) <= Sum(g) /\ (Sum(f) = Sum(g) => f = g)
<1>1. Slots(f) \subseteq Slots(g)
  <2> SUFFICES ASSUME NEW l \in D, NEW i \in Nat, i \in 1..f[l] PROVE i \in 1..g[l]
    BY SlotsOf
  <2>1. f[l] \in Nat /\ g[l] \in Nat /\ f[l] <= g[l]
    OBVIOUS
  <2>2. QED BY <2>1
<1>2. IsFiniteSet(Slots(g)) /\ Sum(f) = Cardinality(Slots(f)) /\ Sum(g) = Cardinality(Slots(g))
  BY SlotsOf
<1>3. Sum(f) <= Sum(g) /\ (Sum(f) = Sum(g) => Slots(f) = Slots(g))
  BY <1>1, <1>2, FS_Subset
<1>4. ASSUME Slots(f) = Slots(g), NEW l \in D PROVE f[l] = g[l]
  <2>0. f[l] \in Nat /\ g[l] \in Nat /\ f[l] <= g[l]
    OBVIOUS
  <2>1. SUFFICES ASSUME f[l] < g[l] PROVE FALSE
    BY <2>0
  <2>2. g[l] \in 1..g[l] /\ ~ (g[l] \in 1..f[l])
    BY <2>0, <2>1
  <2>3. <<l, g[l]>> \in Slots(g)
    BY <2>2, SlotsOf
  <2>4. PICK m \in D, i \in Nat : i \in 1..f[m] /\ <<l, g[l]>> = <<m, i>>
    BY <2>3, <1>4, SlotsOf
  <2>5. QED BY <2>2, <2>4
<1>5. QED BY <1>3, <1>4

LEMMA SumUp ==
  ASSUME NEW D, IsFiniteSet(D), NEW f \in [D -> Nat], NEW l \in D
  PROVE  Sum([f EXCEPT ![l] = @ + 1]) = Sum(f) + 1
<1> DEFINE g == [f EXCEPT ![l] = @ + 1]
<1>0. f[l] \in Nat
  OBVIOUS
<1>1. g \in [D -> Nat] /\ g[l] = f[l] + 1 /\ \A m \in D : m # l => g[m] = f[m]
  BY <1>0
<1> HIDE DEF g
<1>2. /\ \A s : s \in Slots(f) <=> \E m \in D, i \in Nat : i \in 1..f[m] /\ s = <<m, i>>
      /\ \A s : s \in Slots(g) <=> \E m \in D, i \in Nat : i \in 1..g[m] /\ s = <<m, i>>
      /\ IsFiniteSet(Slots(f)) /\ Sum(f) = Cardinality(Slots(f)) /\ Sum(g) = Cardinality(Slots(g))
  BY <1>1, SlotsOf
<1>3. \A i : i \in 1..g[l] <=> i \in 1..f[l] \/ i = g[l]
  BY <1>0, <1>1
<1>4. Slots(g) = Slots(f) \cup {<<l, g[l]>>}
  <2>1. ASSUME NEW s \in Slots(g) PROVE s \in Slots(f) \/ s = <<l, g[l]>>
    <3>1. PICK m \in D, i \in Nat : i \in 1..g[m] /\ s = <<m, i>>
      BY <2>1, <1>2
    <3>2. CASE m = l
      BY <3>1, <3>2, <1>2, <1>3
    <3>3. CASE m # l
      BY <3>1, <3>3, <1>1, <1>2
    <3>4. QED BY <3>2, <3>3
  <2>2. ASSUME NEW s \in Slots(f) PROVE s \in Slots(g)
    <3>1. PICK m \in D, i \in Nat : i \in 1..f[m] /\ s = <<m, i>>
      BY <2>2, <1>2
    <3>2. i \in 1..g[m]
      BY <1>1, <1>3, <3>1
    <3>3. QED BY <3>1, <3>2, <1>2
  <2>3. <<l, g[l]>> \in Slots(g)
    <3>1. g[l] \in 1..g[l]
      BY <1>3
    <3>2. QED BY <3>1, <1>2
  <2>4. QED BY <2>1, <2>2, <2>3
<1>5. <<l, g[l]>> \notin Slots(f)
  <2>1. SUFFICES ASSUME NEW m \in D, NEW i \in Nat, i \in 1..f[m], <<l, g[l]>> = <<m, i>> PROVE FALSE
    BY <1>2
  <2>2. m = l /\ i = g[l]
    BY <2>1
  <2>3. QED BY <2>1, <2>2, <1>0, <1>1
<1>6. Sum(g) = Sum(f) + 1
  <2>1. Cardinality(Slots(f) \cup {<<l, g[l]>>}) = Cardinality(Slots(f)) + 1
    BY <1>2, <1>5, FS_AddElement, Zenon
  <2>2. QED BY <2>1, <1>2, <1>4
<1>7. QED BY <1>6 DEF g

LEMMA SumDown ==
  ASSUME NEW D, IsFiniteSet(D), NEW f \in [D -> Nat], NEW l \in D, f[l] > 0
  PROVE  Sum([f EXCEPT ![l] = @ - 1]) = Sum(f) - 1
<1> DEFINE g == [f EXCEPT ![l] = @ - 1]
<1>0. f[l] \in Nat /\ f[l] - 1 \in Nat /\ (f[l] - 1) + 1 = f[l]
  OBVIOUS
<1>1. g \in [D -> Nat] /\ [g EXCEPT ![l] = @ + 1] = f
  BY <1>0
<1> HIDE DEF g
<1>2. Sum(f) = Sum(g) + 1
  BY <1>1, SumUp
<1>3. Sum(g) \in Nat
  BY <1>1, SlotsOf
<1>4. Sum(g) = Sum(f) - 1
  BY <1>2, <1>3
<1>5. QED BY <1>4 DEF g

-----------------------------------------------------------------------------
(* The reconciliation                                                      *)

Letter(l) == CHOOSE i \in DOMAIN Alphabet : Alphabet[i] = l

LEMMA Letters ==
  /\ \A l \in LayerNames : Letter(l) \in Nat /\ Letter(l) \in DOMAIN Alphabet /\ Alphabet[Letter(l)] = l
  /\ \A l \in LayerNames : \A i \in DOMAIN Alphabet : Alphabet[i] = l => i = Letter(l)
<1>0. Alphabet \in Seq(ToSet(Alphabet))
  BY GraphAssumption
<1>1. DOMAIN Alphabet = 1..Len(Alphabet) /\ Len(Alphabet) \in Nat
  BY <1>0, SeqRange
<1>2. \A l \in LayerNames : \E i \in DOMAIN Alphabet : Alphabet[i] = l
  BY GraphAssumption DEF LayerNames, ToSet
<1>3. \A l \in LayerNames : Letter(l) \in DOMAIN Alphabet /\ Alphabet[Letter(l)] = l
  BY <1>2 DEF Letter
<1>4. \A i \in DOMAIN Alphabet : i \in Nat
  BY <1>1
<1>5. QED BY <1>3, <1>4, GraphAssumption

LEMMA SizesListed ==
  ASSUME NEW D \in SUBSET LayerNames, IsFiniteSet(D), NEW size \in [D -> Nat]
  PROVE  /\ Cardinality(D) \in Nat
         /\ \A i \in 1..Cardinality(D) : BySize(size)[i] \in D
         /\ \A l \in D : \E i \in 1..Cardinality(D) : BySize(size)[i] = l
<1> DEFINE below == [l \in D |-> {m \in D : Larger(size, m, l)}]
           s == BySize(size)
<1>1. \A l \in D : Letter(l) \in Nat /\ size[l] \in Nat
  BY Letters
<1>2. \A l, m \in D : Earlier(l, m) <=> Letter(l) < Letter(m)
  BY Letters DEF Earlier
<1>3. StrictOrder(D, below)
  <2>1. \A x \in D : x \notin below[x]
    BY <1>1, <1>2 DEF Larger
  <2>2. \A x, y, z \in D : x \in below[y] /\ y \in below[z] => x \in below[z]
    BY <1>1, <1>2 DEF Larger
  <2>3. \A x, y \in D : x # y => Letter(x) # Letter(y)
    BY Letters
  <2>4. \A x, y \in D : x # y => x \in below[y] \/ y \in below[x]
    BY <1>1, <1>2, <2>3 DEF Larger
  <2>5. QED BY <2>1, <2>2, <2>4 DEF StrictOrder
<1>4. \A l \in D : below[l] = {m \in D : Larger(size, m, l)}
  OBVIOUS
<1>5. DOMAIN size = D
  OBVIOUS
<1>6. s = [i \in 1..Cardinality(D) |-> CHOOSE l \in D : Cardinality({m \in D : Larger(size, m, l)}) = i - 1]
  BY <1>5 DEF BySize
<1> HIDE DEF below, s
<1>7. Cardinality(D) \in Nat /\ \A i \in 1..Cardinality(D) : \E l \in D : Cardinality(below[l]) = i - 1
  BY <1>3, Places
<1>8. \A i \in 1..Cardinality(D) : s[i] \in D /\ Cardinality(below[s[i]]) = i - 1
  <2> TAKE i \in 1..Cardinality(D)
  <2> DEFINE P(l) == Cardinality({m \in D : Larger(size, m, l)}) = i - 1
  <2>1. \E l \in D : P(l)
    BY <1>4, <1>7, Zenon
  <2>2. s[i] = CHOOSE l \in D : P(l)
    BY <1>6, Zenon
  <2> HIDE DEF P
  <2>3. s[i] \in D /\ P(s[i])
    BY <2>1, <2>2
  <2>4. QED BY <1>4, <2>3 DEF P
<1>9. s \in [1..Cardinality(D) -> D]
  BY <1>6, <1>8
<1>10. Lists(s, D)
  BY <1>3, <1>8, <1>9, Listed
<1>11. \A l \in D : \E i \in 1..Cardinality(D) : s[i] = l
  BY <1>10 DEF Lists
<1>12. QED BY <1>7, <1>8, <1>11 DEF s

Accounts(D) == [alloc : [D -> Nat], diff : Int]

\* What a turn keeps: every layer between its floor and its size, and the cap.
Held(acc, size, cap) ==
  /\ acc \in Accounts(DOMAIN size)
  /\ \A l \in DOMAIN size : Floor(size[l]) <= acc.alloc[l] /\ acc.alloc[l] <= size[l]
  /\ Sum(acc.alloc) + acc.diff = cap

Stuck(acc, size) == \A l \in DOMAIN size : Concede(acc, l, size) = acc

Off(acc) == IF acc.diff < 0 THEN -acc.diff ELSE acc.diff

LEMMA Floors ==
  ASSUME NEW k \in Nat
  PROVE  /\ Floor(k) \in Nat /\ Floor(k) <= k /\ (k > 0 => Floor(k) > 0)
         /\ Floor(0) = 0
<1>1. ASSUME NEW i \in Nat
      PROVE  Floor(i) = IF MIN_PER_LAYER <= i THEN MIN_PER_LAYER ELSE i
  <2>1. MIN_PER_LAYER \in Nat
    BY GraphAssumption
  <2>2. \E x \in {MIN_PER_LAYER, i} : \A y \in {MIN_PER_LAYER, i} : x <= y
    BY <2>1
  <2>3. QED BY <2>1, <2>2 DEF Floor, Min
<1>2. QED BY <1>1, GraphAssumption

LEMMA TurnKeeps ==
  ASSUME NEW D, IsFiniteSet(D), NEW size \in [D -> Nat], NEW cap \in Int, NEW l \in D,
         NEW acc, Held(acc, size, cap)
  PROVE  /\ Held(Concede(acc, l, size), size, cap)
         /\ Concede(acc, l, size) = acc \/ Off(Concede(acc, l, size)) < Off(acc)
<1> DEFINE next == Concede(acc, l, size)
<1>1. /\ DOMAIN size = D /\ acc \in Accounts(D) /\ acc.alloc \in [D -> Nat] /\ acc.diff \in Int
      /\ \A m \in D : acc.alloc[m] \in Nat /\ size[m] \in Nat /\ Floor(size[m]) \in Nat
                      /\ Floor(size[m]) <= acc.alloc[m] /\ acc.alloc[m] <= size[m]
      /\ Sum(acc.alloc) + acc.diff = cap /\ Sum(acc.alloc) \in Nat
  BY Floors, SlotsOf DEF Held, Accounts
<1>2. CASE acc.diff > 0 /\ acc.alloc[l] < size[l]
  <2> DEFINE alloc == [acc.alloc EXCEPT ![l] = @ + 1]
  <2>1. next = [alloc |-> alloc, diff |-> acc.diff - 1]
    BY <1>2 DEF Concede
  <2>2. Sum(alloc) = Sum(acc.alloc) + 1
    BY <1>1, SumUp
  <2>3. alloc \in [D -> Nat] /\ alloc[l] = acc.alloc[l] + 1 /\ \A m \in D : m # l => alloc[m] = acc.alloc[m]
    BY <1>1
  <2> HIDE DEF alloc
  <2>4. \A m \in D : Floor(size[m]) <= alloc[m] /\ alloc[m] <= size[m]
    BY <1>1, <1>2, <2>3
  <2>5. next.alloc = alloc /\ next.diff = acc.diff - 1
    BY <2>1
  <2>6. Held(next, size, cap)
    BY <1>1, <2>1, <2>2, <2>3, <2>4, <2>5 DEF Held, Accounts
  <2>7. Off(next) < Off(acc)
    BY <1>1, <1>2, <2>5 DEF Off
  <2>8. QED BY <2>6, <2>7
<1>3. CASE acc.diff < 0 /\ acc.alloc[l] > Floor(size[l])
  <2> DEFINE alloc == [acc.alloc EXCEPT ![l] = @ - 1]
  <2>1. next = [alloc |-> alloc, diff |-> acc.diff + 1]
    BY <1>1, <1>3 DEF Concede
  <2>2. acc.alloc[l] > 0 /\ acc.alloc[l] - 1 \in Nat
    BY <1>1, <1>3
  <2>3. Sum(alloc) = Sum(acc.alloc) - 1
    BY <1>1, <2>2, SumDown
  <2>4. alloc \in [D -> Nat] /\ alloc[l] = acc.alloc[l] - 1 /\ \A m \in D : m # l => alloc[m] = acc.alloc[m]
    BY <1>1, <2>2
  <2> HIDE DEF alloc
  <2>5. \A m \in D : Floor(size[m]) <= alloc[m] /\ alloc[m] <= size[m]
    BY <1>1, <1>3, <2>4
  <2>6. next.alloc = alloc /\ next.diff = acc.diff + 1
    BY <2>1
  <2>7. Held(next, size, cap)
    BY <1>1, <2>1, <2>3, <2>4, <2>5, <2>6 DEF Held, Accounts
  <2>8. Off(next) < Off(acc)
    BY <1>1, <1>3, <2>6 DEF Off
  <2>9. QED BY <2>7, <2>8
<1>4. CASE ~(acc.diff > 0 /\ acc.alloc[l] < size[l]) /\ ~(acc.diff < 0 /\ acc.alloc[l] > Floor(size[l]))
  BY <1>4 DEF Concede
<1>5. QED BY <1>2, <1>3, <1>4

\* The turns of a round.
Turns(f, acc, size, n) ==
  f = [i \in 0..n |-> IF i = 0 THEN acc ELSE Concede(f[i - 1], BySize(size)[i], size)]

LEMMA PassTurns ==
  ASSUME NEW D \in SUBSET LayerNames, IsFiniteSet(D), NEW size \in [D -> Nat], NEW cap \in Int,
         NEW acc, Held(acc, size, cap)
  PROVE  LET f == CHOOSE f : Turns(f, acc, size, Cardinality(D))
         IN  /\ Pass(acc, size) = f[Cardinality(D)]
             /\ f[0] = acc
             /\ \A i \in 1..Cardinality(D) : f[i] = Concede(f[i - 1], BySize(size)[i], size)
             /\ \A i \in 0..Cardinality(D) : Held(f[i], size, cap)
<1> DEFINE n == Cardinality(D)
           State == {a \in Accounts(D) : Held(a, size, cap)}
           step == [i \in 1..n |-> [a \in State |-> Concede(a, BySize(size)[i], size)]]
           turns == CHOOSE f : Turns(f, acc, size, n)
<1>1. n \in Nat /\ \A i \in 1..n : BySize(size)[i] \in D
  BY SizesListed
<1>2. \A a : Held(a, size, cap) => a \in State
  BY DEF Held
<1>3. \A l \in D : \A a \in State : Concede(a, l, size) \in State
  BY <1>2, TurnKeeps
<1>4. step \in [1..n -> [State -> State]]
      /\ \A i \in 1..n : \A a \in State : step[i][a] = Concede(a, BySize(size)[i], size)
  BY <1>1, <1>3
<1>5. acc \in State /\ \A a \in State : Held(a, size, cap)
  BY <1>2
<1>6. Pass(acc, size) = turns[n]
  BY DEF Pass, Turns
<1> HIDE DEF State, step, n, turns
<1>7. PICK f : History(f, n, State, acc, step)
  BY <1>1, <1>4, <1>5, LoopExists
<1>8. \A i \in 1..n : i - 1 \in 0..n /\ f[i] = Concede(f[i - 1], BySize(size)[i], size)
  BY <1>1, <1>4, <1>7 DEF History
<1>9. f = [i \in 0..n |-> IF i = 0 THEN acc ELSE Concede(f[i - 1], BySize(size)[i], size)]
  BY <1>1, <1>7, <1>8 DEF History
<1>10. Turns(turns, acc, size, n)
  BY <1>9 DEF Turns, turns
<1>11. turns[0] = acc /\ \A i \in 1..n : turns[i] = Concede(turns[i - 1], BySize(size)[i], size)
  BY <1>1, <1>10 DEF Turns
<1>12. Follows(turns, n, State, acc, step)
  BY <1>4, <1>11 DEF Follows
<1>13. \A i \in 0..n : turns[i] \in State
  BY <1>1, <1>4, <1>5, <1>12, LoopStays
<1>14. QED BY <1>5, <1>6, <1>11, <1>13 DEF n, turns

\* A round keeps what a turn keeps; it changes nothing when no layer can take or
\* give, and comes closer to the cap when one can.
LEMMA PassKeeps ==
  ASSUME NEW D \in SUBSET LayerNames, IsFiniteSet(D), NEW size \in [D -> Nat], NEW cap \in Int,
         NEW acc, Held(acc, size, cap)
  PROVE  /\ Held(Pass(acc, size), size, cap)
         /\ Stuck(acc, size) => Pass(acc, size) = acc
         /\ ~Stuck(acc, size) => Off(Pass(acc, size)) < Off(acc)
<1> DEFINE n == Cardinality(D)
           f == CHOOSE f : Turns(f, acc, size, Cardinality(D))
<1>1. /\ Pass(acc, size) = f[n]
      /\ f[0] = acc
      /\ \A i \in 1..n : f[i] = Concede(f[i - 1], BySize(size)[i], size)
      /\ \A i \in 0..n : Held(f[i], size, cap)
  BY PassTurns
<1>2. /\ n \in Nat /\ DOMAIN size = D
      /\ \A i \in 1..n : BySize(size)[i] \in D
      /\ \A l \in D : \E i \in 1..n : BySize(size)[i] = l
  BY SizesListed
<1> HIDE DEF n, f
<1>3. \A i \in 0..n : Off(f[i]) \in Nat
  BY <1>1 DEF Held, Accounts, Off
<1> DEFINE S == {i \in 0..n : f[i] = acc \/ Off(f[i]) < Off(acc)}
<1>4. \A i \in 1..n : f[i] = f[i - 1] \/ Off(f[i]) < Off(f[i - 1])
  <2> TAKE i \in 1..n
  <2>1. i - 1 \in 0..n /\ BySize(size)[i] \in D
    BY <1>2
  <2>2. Held(f[i - 1], size, cap)
    BY <1>1, <2>1
  <2>3. QED BY <1>1, <2>1, <2>2, TurnKeeps
<1>5. \A i \in 0..n : i \in S
  <2>1. 0 \in S
    BY <1>1, <1>2
  <2>2. ASSUME NEW i \in 0..(n - 1), i \in S PROVE i + 1 \in S
    <3>1. i \in 0..n /\ i + 1 \in 1..n /\ i + 1 \in 0..n /\ (i + 1) - 1 = i /\ 0 \in 0..n
      BY <1>2
    <3>2. f[i + 1] = f[i] \/ Off(f[i + 1]) < Off(f[i])
      BY <1>4, <3>1
    <3>3. Off(f[i + 1]) \in Nat /\ Off(f[i]) \in Nat /\ Off(acc) \in Nat
      BY <1>1, <1>3, <3>1
    <3>4. QED BY <2>2, <3>1, <3>2, <3>3
  <2> HIDE DEF S
  <2>3. \A i \in 0..(n - 1) : i \in S => i + 1 \in S
    BY <2>2
  <2>4. QED BY <1>2, <2>1, <2>3, Induction
<1>6. Held(Pass(acc, size), size, cap)
  BY <1>1, <1>2
<1>7. ASSUME Stuck(acc, size) PROVE Pass(acc, size) = acc
  <2> DEFINE T == {i \in 0..n : f[i] = acc}
  <2>1. 0 \in T
    BY <1>1, <1>2
  <2>2. ASSUME NEW i \in 0..(n - 1), i \in T PROVE i + 1 \in T
    <3>1. i + 1 \in 1..n /\ i + 1 \in 0..n /\ (i + 1) - 1 = i
      BY <1>2
    <3>2. f[i + 1] = Concede(acc, BySize(size)[i + 1], size)
      BY <1>1, <2>2, <3>1
    <3>3. QED BY <1>2, <1>7, <3>1, <3>2 DEF Stuck
  <2> HIDE DEF T
  <2>3. \A i \in 0..(n - 1) : i \in T => i + 1 \in T
    BY <2>2
  <2>4. \A i \in 0..n : i \in T
    BY <1>2, <2>1, <2>3, Induction
  <2>5. QED BY <1>1, <1>2, <2>4 DEF T
<1>8. ASSUME ~Stuck(acc, size) PROVE Off(Pass(acc, size)) < Off(acc)
  <2>1. PICK l \in D : Concede(acc, l, size) # acc
    BY <1>2, <1>8 DEF Stuck
  <2>2. PICK k \in 1..n : BySize(size)[k] = l
    BY <1>2
  <2>3. k - 1 \in 0..n /\ k \in 0..n /\ k \in Nat
    BY <1>2
  <2>4. Off(f[k]) < Off(acc)
    <3>1. CASE f[k - 1] = acc
      BY <1>1, <3>1, <2>1, <2>2, TurnKeeps
    <3>2. CASE f[k - 1] # acc
      <4>1. Off(f[k - 1]) < Off(acc)
        BY <1>5, <2>3, <3>2
      <4>2. f[k] = f[k - 1] \/ Off(f[k]) < Off(f[k - 1])
        BY <1>4
      <4>3. Off(f[k]) \in Nat /\ Off(f[k - 1]) \in Nat /\ Off(acc) \in Nat
        BY <1>1, <1>2, <1>3, <2>3
      <4>4. QED BY <4>1, <4>2, <4>3
    <3>3. QED BY <3>1, <3>2
  <2> DEFINE U == {j \in 0..(n - k) : Off(f[k + j]) < Off(acc)}
  <2>5. 0 \in U
    BY <2>3, <2>4, <1>2
  <2>6. ASSUME NEW j \in 0..(n - k - 1), j \in U PROVE j + 1 \in U
    <3>1. /\ k + j \in 0..n /\ k + (j + 1) \in 1..n /\ k + (j + 1) \in 0..n /\ (k + (j + 1)) - 1 = k + j
          /\ j + 1 \in 0..(n - k) /\ 0 \in 0..n
      BY <1>2, <2>3
    <3>2. f[k + (j + 1)] = f[k + j] \/ Off(f[k + (j + 1)]) < Off(f[k + j])
      BY <1>4, <3>1
    <3>3. Off(f[k + (j + 1)]) \in Nat /\ Off(f[k + j]) \in Nat /\ Off(acc) \in Nat
      BY <1>1, <1>3, <3>1
    <3>4. QED BY <2>6, <3>1, <3>2, <3>3
  <2> HIDE DEF U
  <2>7. \A j \in 0..(n - k - 1) : j \in U => j + 1 \in U
    BY <2>6
  <2>8. n - k \in Nat /\ n - k \in 0..(n - k) /\ k + (n - k) = n
    BY <1>2, <2>3
  <2>9. \A j \in 0..(n - k) : j \in U
    BY <2>5, <2>7, <2>8, Induction
  <2>10. QED BY <1>1, <2>8, <2>9 DEF U
<1>9. QED BY <1>6, <1>7, <1>8

Rounds(f, size, cap, n) ==
  f = [r \in 0..n |-> IF r = 0 THEN Proportional(size, cap) ELSE Pass(f[r - 1], size)]

LEMMA ShareFits ==
  ASSUME NEW k \in Nat, NEW cap \in Nat, NEW total \in Nat, total > 0
  PROVE  Share(k, cap, total) \in Nat /\ Floor(k) <= Share(k, cap, total) /\ Share(k, cap, total) <= k
<1> DEFINE r == Round(cap * k, total)
           x == Max({Floor(k), r})
<1>1. Floor(k) \in Nat /\ Floor(k) <= k
  BY Floors
<1>2. r \in Int
  <2>1. cap * k \in Nat
    OBVIOUS
  <2> HIDE DEF r
  <2> DEFINE c == cap * k
  <2>2. 2 * c + total \in Int /\ 2 * total \in Int /\ 2 * total > 0
    OBVIOUS
  <2>3. (2 * c + total) \div (2 * total) \in Int
    BY <2>2
  <2>4. QED BY <2>3 DEF r, Round
<1> HIDE DEF r
<1>3. x \in Int /\ Floor(k) <= x
  <2>1. \E y \in {Floor(k), r} : \A z \in {Floor(k), r} : y >= z
    BY <1>1, <1>2
  <2>2. QED BY <1>1, <1>2, <2>1 DEF Max
<1>4. Share(k, cap, total) = Min({k, x})
  BY DEF Share, r
<1> HIDE DEF x
<1>5. Min({k, x}) \in {k, x} /\ Min({k, x}) <= k /\ Min({k, x}) <= x
  <2>1. \E y \in {k, x} : \A z \in {k, x} : y <= z
    BY <1>3
  <2>2. QED BY <1>3, <2>1 DEF Min
<1>6. QED BY <1>1, <1>3, <1>4, <1>5

\* A start between floors and sizes, and off by less than there is in all.
LEMMA StartFits ==
  ASSUME NEW D, IsFiniteSet(D), NEW size \in [D -> Nat], NEW cap \in Nat, cap < Sum(size)
  PROVE  /\ Held(Proportional(size, cap), size, cap)
         /\ Off(Proportional(size, cap)) <= Sum(size)
<1> DEFINE want == [l \in D |-> Share(size[l], cap, Sum(size))]
           start == Proportional(size, cap)
<1>1. Sum(size) \in Nat /\ Sum(size) > 0 /\ DOMAIN size = D
  BY SlotsOf
<1>2. \A l \in D : want[l] \in Nat /\ Floor(size[l]) <= want[l] /\ want[l] <= size[l]
  BY <1>1, ShareFits
<1>3. want \in [D -> Nat]
  BY <1>2
<1>4. start = [alloc |-> want, diff |-> cap - Sum(want)]
  BY <1>1 DEF Proportional
<1> HIDE DEF want, start
<1>5. Sum(want) \in Nat
  BY <1>3, SlotsOf
<1>6. Sum(want) <= Sum(size)
  BY <1>2, <1>3, SumGrows
<1>7. start.alloc = want /\ start.diff = cap - Sum(want)
  BY <1>4
<1>8. Held(start, size, cap)
  BY <1>1, <1>2, <1>3, <1>4, <1>5, <1>7 DEF Held, Accounts
<1>9. Off(start) <= Sum(size)
  BY <1>1, <1>5, <1>6, <1>7 DEF Off
<1>10. QED BY <1>8, <1>9 DEF start

LEMMA AllocationHeld ==
  ASSUME NEW D \in SUBSET LayerNames, IsFiniteSet(D), NEW size \in [D -> Nat], NEW cap \in Nat,
         cap < Sum(size)
  PROVE  \E acc : Held(acc, size, cap) /\ Stuck(acc, size) /\ Allocation(size, cap) = acc.alloc
<1> DEFINE n == Sum(size)
           start == Proportional(size, cap)
           State == {a \in Accounts(D) : Held(a, size, cap)}
           step == [i \in 1..n |-> [a \in State |-> Pass(a, size)]]
           g == CHOOSE f : Rounds(f, size, cap, n)
<1>1. n \in Nat /\ DOMAIN size = D
  BY SlotsOf
<1>2. \A a : Held(a, size, cap) <=> a \in State
  BY <1>1 DEF Held
<1>3. start \in State /\ Off(start) <= n
  BY <1>2, StartFits
<1>4. \A a \in State : Pass(a, size) \in State
  BY <1>2, PassKeeps
<1>5. step \in [1..n -> [State -> State]] /\ \A i \in 1..n : \A a \in State : step[i][a] = Pass(a, size)
  BY <1>4
<1>6. Allocation(size, cap) = g[n].alloc
  BY DEF Allocation, Rounds
<1> HIDE DEF State, step, n, g, start
<1>7. PICK f : History(f, n, State, start, step)
  BY <1>1, <1>3, <1>5, LoopExists
<1>8. \A i \in 1..n : i - 1 \in 0..n /\ f[i] = Pass(f[i - 1], size)
  BY <1>1, <1>5, <1>7 DEF History
<1>9. f = [r \in 0..n |-> IF r = 0 THEN start ELSE Pass(f[r - 1], size)]
  BY <1>1, <1>7, <1>8 DEF History
<1>10. Rounds(g, size, cap, n)
  BY <1>9 DEF Rounds, g, start
<1>11. g[0] = start /\ \A i \in 1..n : g[i] = Pass(g[i - 1], size)
  BY <1>1, <1>10 DEF Rounds, start
<1>12. Follows(g, n, State, start, step)
  BY <1>5, <1>11 DEF Follows
<1>13. \A i \in 0..n : g[i] \in State
  BY <1>1, <1>3, <1>5, <1>12, LoopStays
<1>14. \A i \in 0..n : Off(g[i]) \in Nat
  BY <1>2, <1>13 DEF Held, Accounts, Off
<1> DEFINE S == {i \in 0..n : Stuck(g[i], size) \/ Off(g[i]) <= n - i}
<1>15. 0 \in S
  BY <1>1, <1>3, <1>11
<1>16. ASSUME NEW i \in 0..(n - 1), i \in S PROVE i + 1 \in S
  <2>1. i \in 0..n /\ i + 1 \in 1..n /\ i + 1 \in 0..n /\ (i + 1) - 1 = i
    BY <1>1
  <2>2. g[i + 1] = Pass(g[i], size) /\ Held(g[i], size, cap)
    BY <1>2, <1>11, <1>13, <2>1
  <2>3. CASE Stuck(g[i], size)
    BY <2>1, <2>2, <2>3, PassKeeps
  <2>4. CASE ~Stuck(g[i], size)
    <3>1. Off(g[i + 1]) < Off(g[i]) /\ Off(g[i]) <= n - i
      BY <1>16, <2>2, <2>4, PassKeeps
    <3>2. QED BY <1>1, <1>14, <2>1, <3>1
  <2>5. QED BY <2>3, <2>4
<1> HIDE DEF S
<1>17. \A i \in 0..(n - 1) : i \in S => i + 1 \in S
  BY <1>16
<1>18. \A i \in 0..n : i \in S
  BY <1>1, <1>15, <1>17, Induction
<1>19. n \in 0..n /\ (Stuck(g[n], size) \/ Off(g[n]) <= n - n)
  BY <1>1, <1>18 DEF S
<1>20. ASSUME Off(g[n]) <= 0 PROVE Stuck(g[n], size)
  <2>1. Held(g[n], size, cap)
    BY <1>2, <1>13, <1>19
  <2>2. g[n].diff = 0
    BY <1>20, <2>1 DEF Off, Held, Accounts
  <2>3. QED BY <2>2 DEF Stuck, Concede
<1>21. Stuck(g[n], size)
  BY <1>1, <1>14, <1>19, <1>20
<1>22. QED BY <1>2, <1>6, <1>13, <1>19, <1>21

LEMMA AllocationFair ==
  ASSUME NEW D \in SUBSET LayerNames, IsFiniteSet(D), NEW size \in [D -> Nat], NEW cap \in Nat,
         cap < Sum(size)
  PROVE  LET alloc == Allocation(size, cap)
             floor == [l \in D |-> Floor(size[l])]
         IN  /\ alloc \in [D -> Nat] /\ \A l \in D : Floor(size[l]) <= alloc[l] /\ alloc[l] <= size[l]
             /\ Sum(alloc) = IF cap >= Sum(floor) THEN cap ELSE Sum(floor)
             /\ Sum(floor) \in Nat /\ Sum(floor) <= Sum(size)
<1> DEFINE alloc == Allocation(size, cap)
           floor == [l \in D |-> Floor(size[l])]
<1>1. PICK acc : Held(acc, size, cap) /\ Stuck(acc, size) /\ alloc = acc.alloc
  BY AllocationHeld
<1>2. /\ alloc \in [D -> Nat] /\ acc.diff \in Int
      /\ \A l \in D : Floor(size[l]) <= alloc[l] /\ alloc[l] <= size[l]
      /\ Sum(alloc) + acc.diff = cap
  BY <1>1 DEF Held, Accounts
<1>3. \A l \in D : Floor(size[l]) \in Nat /\ Floor(size[l]) <= size[l] /\ size[l] \in Nat
  BY Floors
<1>4. floor \in [D -> Nat] /\ \A l \in D : floor[l] = Floor(size[l])
  BY <1>3
<1> HIDE DEF alloc, floor
<1>5. Sum(floor) \in Nat /\ Sum(alloc) \in Nat /\ Sum(size) \in Nat
  BY <1>2, <1>4, SlotsOf
<1>6. Sum(floor) <= Sum(alloc) /\ Sum(floor) <= Sum(size)
  BY <1>2, <1>3, <1>4, SumGrows
<1>7. CASE acc.diff = 0
  BY <1>2, <1>4, <1>5, <1>6, <1>7 DEF alloc, floor
<1>8. CASE acc.diff > 0
  <2>1. ASSUME NEW l \in D PROVE alloc[l] = size[l]
    <3>1. Concede(acc, l, size) = acc
      BY <1>1 DEF Stuck
    <3>2. CASE acc.alloc[l] < size[l]
      <4>1. Concede(acc, l, size).diff = acc.diff - 1
        BY <1>8, <3>2 DEF Concede
      <4>2. QED BY <1>2, <3>1, <4>1
    <3>3. alloc[l] \in Nat /\ size[l] \in Nat /\ alloc[l] <= size[l]
      BY <1>2
    <3>4. QED BY <1>1, <3>2, <3>3
  <2>2. alloc = size
    BY <1>2, <2>1
  <2>3. QED BY <1>2, <1>5, <1>8, <2>2
<1>9. CASE acc.diff < 0
  <2>1. ASSUME NEW l \in D PROVE alloc[l] = floor[l]
    <3>1. Concede(acc, l, size) = acc
      BY <1>1 DEF Stuck
    <3>2. CASE acc.alloc[l] > Floor(size[l])
      <4>1. Concede(acc, l, size).diff = acc.diff + 1
        BY <1>2, <1>9, <3>2 DEF Concede
      <4>2. QED BY <1>2, <3>1, <4>1
    <3>3. alloc[l] \in Nat /\ floor[l] = Floor(size[l]) /\ floor[l] \in Nat /\ floor[l] <= alloc[l]
      BY <1>2, <1>4
    <3>4. QED BY <1>1, <3>2, <3>3
  <2>2. alloc = floor
    BY <1>2, <1>4, <2>1
  <2>3. Sum(floor) > cap
    BY <1>2, <1>5, <1>9, <2>2
  <2>4. QED BY <1>2, <1>5, <1>6, <2>2, <2>3 DEF alloc, floor
<1>10. QED BY <1>2, <1>7, <1>8, <1>9

-----------------------------------------------------------------------------
(* What is drawn of each layer                                             *)

Ahead(S, edges, n) ==
  {m \in S : m # n /\ \/ degree(m, edges) > degree(n, edges)
                      \/ degree(m, edges) = degree(n, edges) /\ m < n}

LEMMA Degrees ==
  ASSUME NEW edges, IsFiniteSet(edges), NEW n
  PROVE  degree(n, edges) \in Nat
<1>1. IsFiniteSet({e \in edges : e.from = n}) /\ IsFiniteSet({e \in edges : e.to = n})
  BY FS_Subset
<1>2. QED BY <1>1, FS_CardinalityType DEF degree

LEMMA Ranked ==
  ASSUME NEW S, IsFiniteSet(S), S \subseteq Nat, NEW edges, IsFiniteSet(edges)
  PROVE  /\ Cardinality(S) \in Nat
         /\ \A n \in S : Cardinality(Ahead(S, edges, n)) \in 0..(Cardinality(S) - 1)
         /\ \A i \in 1..Cardinality(S) : \E n \in S : Cardinality(Ahead(S, edges, n)) = i - 1
         /\ \A m, n \in S : Cardinality(Ahead(S, edges, m)) = Cardinality(Ahead(S, edges, n)) => m = n
         /\ \A m, n \in S : Cardinality(Ahead(S, edges, m)) < Cardinality(Ahead(S, edges, n))
                              => degree(m, edges) >= degree(n, edges)
         /\ \A k : Foremost(S, edges, k) = {n \in S : Cardinality(Ahead(S, edges, n)) < k}
<1> DEFINE below == [n \in S |-> Ahead(S, edges, n)]
<1>1. \A n \in S : degree(n, edges) \in Nat /\ n \in Nat
  <2>1. \A n : degree(n, edges) \in Nat
    BY Degrees
  <2>2. QED BY <2>1
<1>2. \A m, n \in S : m \in below[n] <=> m # n /\ (degree(m, edges) > degree(n, edges)
                                                  \/ (degree(m, edges) = degree(n, edges) /\ m < n))
  <2> TAKE m, n \in S
  <2>1. below[n] = Ahead(S, edges, n)
    OBVIOUS
  <2> HIDE DEF below
  <2>2. m \in Ahead(S, edges, n) <=> m # n /\ (degree(m, edges) > degree(n, edges)
                                               \/ (degree(m, edges) = degree(n, edges) /\ m < n))
    BY DEF Ahead
  <2>3. QED BY <2>1, <2>2, Zenon
<1>3. StrictOrder(S, below)
  <2>1. below \in [S -> SUBSET S]
    BY DEF Ahead
  <2> HIDE DEF below
  <2>2. ASSUME NEW x \in S, NEW y \in S, NEW z \in S, x \in below[y], y \in below[z]
        PROVE  x \in below[z]
    <3>1. /\ degree(x, edges) \in Nat /\ degree(y, edges) \in Nat /\ degree(z, edges) \in Nat
          /\ x \in Nat /\ y \in Nat /\ z \in Nat
      BY <1>1
    <3>2. /\ degree(x, edges) > degree(y, edges) \/ (degree(x, edges) = degree(y, edges) /\ x < y)
          /\ degree(y, edges) > degree(z, edges) \/ (degree(y, edges) = degree(z, edges) /\ y < z)
      BY <1>2, <2>2
    <3>3. x # z /\ (degree(x, edges) > degree(z, edges) \/ (degree(x, edges) = degree(z, edges) /\ x < z))
      BY <3>1, <3>2
    <3>4. QED BY <1>2, <3>3
  <2>3. \A x, y \in S : x # y => x \in below[y] \/ y \in below[x]
    BY <1>1, <1>2
  <2>4. QED BY <1>2, <2>1, <2>2, <2>3 DEF StrictOrder
<1>4. \A n \in S : below[n] = Ahead(S, edges, n)
  OBVIOUS
<1> HIDE DEF below
<1>5. /\ Cardinality(S) \in Nat
      /\ \A n \in S : Cardinality(below[n]) \in 0..(Cardinality(S) - 1)
      /\ \A i \in 1..Cardinality(S) : \E n \in S : Cardinality(below[n]) = i - 1
      /\ \A m, n \in S : m \in below[n] => Cardinality(below[m]) < Cardinality(below[n])
      /\ \A m, n \in S : Cardinality(below[m]) = Cardinality(below[n]) => m = n
  BY <1>3, Places, Zenon
<1>6. ASSUME NEW m \in S, NEW n \in S, Cardinality(below[m]) < Cardinality(below[n])
      PROVE  degree(m, edges) >= degree(n, edges)
  <2>1. Cardinality(below[m]) \in Nat /\ Cardinality(below[n]) \in Nat
    BY <1>5
  <2>2. n \notin below[m] /\ m # n
    BY <1>5, <1>6, <2>1
  <2>3. m \in below[n]
    BY <1>3, <2>2 DEF StrictOrder
  <2>4. QED BY <1>1, <1>2, <2>3
<1>7. \A k : Foremost(S, edges, k) = {n \in S : Cardinality(Ahead(S, edges, n)) < k}
  BY DEF Foremost, Ahead
<1>8. QED BY <1>4, <1>5, <1>6, <1>7

Layers(all) == {GraphNodes[n].layer : n \in all}
Sizes(all) == [l \in Layers(all) |-> Cardinality(OfLayer(all, l))]
Rank(all, edges, n) == Cardinality(Ahead(OfLayer(all, GraphNodes[n].layer), edges, n))
Drawn(all, edges, alloc) == UNION {Foremost(OfLayer(all, l), edges, alloc[l]) : l \in Layers(all)}

LEMMA LayersFinite ==
  ASSUME NEW all \in SUBSET DOMAIN GraphNodes
  PROVE  /\ IsFiniteSet(all) /\ Cardinality(all) \in Nat
         /\ IsFiniteSet(Layers(all)) /\ Layers(all) \in SUBSET LayerNames
         /\ \A l \in Layers(all) : /\ IsFiniteSet(OfLayer(all, l)) /\ OfLayer(all, l) \subseteq Nat
                                   /\ Cardinality(OfLayer(all, l)) \in Nat \ {0}
         /\ Sizes(all) \in [Layers(all) -> Nat]
<1>1. IsFiniteSet(all) /\ Cardinality(all) \in Nat /\ all \subseteq Nat
  BY GraphAssumption, FS_Subset, FS_CardinalityType
<1> DEFINE f == [n \in all |-> GraphNodes[n].layer]
<1>2. f \in [all -> Layers(all)] /\ \A l \in Layers(all) : \E n \in all : f[n] = l
  BY DEF Layers
<1> HIDE DEF f
<1>3. f \in Surjection(all, Layers(all))
  BY <1>2, Fun_IsSurj
<1>4. IsFiniteSet(Layers(all))
  BY <1>1, <1>3, FS_Surjection
<1>5. Layers(all) \in SUBSET LayerNames
  BY GraphAssumption DEF Layers, LayerNames
<1>6. ASSUME NEW l \in Layers(all)
      PROVE  /\ IsFiniteSet(OfLayer(all, l)) /\ OfLayer(all, l) \subseteq Nat
             /\ Cardinality(OfLayer(all, l)) \in Nat \ {0}
  <2>1. OfLayer(all, l) \in SUBSET all /\ OfLayer(all, l) # {}
    BY DEF OfLayer, Layers
  <2>2. IsFiniteSet(OfLayer(all, l))
    BY <1>1, <2>1, FS_Subset
  <2>3. Cardinality(OfLayer(all, l)) \in Nat /\ Cardinality(OfLayer(all, l)) # 0
    BY <2>1, <2>2, FS_CardinalityType, FS_EmptySet
  <2>4. QED BY <1>1, <2>1, <2>2, <2>3
<1>7. Sizes(all) \in [Layers(all) -> Nat]
  BY <1>6 DEF Sizes
<1>8. QED BY <1>1, <1>4, <1>5, <1>6, <1>7

LEMMA RanksOf ==
  ASSUME NEW all \in SUBSET DOMAIN GraphNodes, NEW edges, IsFiniteSet(edges)
  PROVE  /\ \A n \in all : /\ GraphNodes[n].layer \in Layers(all)
                           /\ Rank(all, edges, n) \in 0..(Sizes(all)[GraphNodes[n].layer] - 1)
         /\ \A l \in Layers(all) : \A i \in 1..Sizes(all)[l] :
              \E n \in all : GraphNodes[n].layer = l /\ Rank(all, edges, n) = i - 1
         /\ \A m, n \in all : GraphNodes[m].layer = GraphNodes[n].layer =>
              /\ Rank(all, edges, m) = Rank(all, edges, n) => m = n
              /\ Rank(all, edges, m) < Rank(all, edges, n) => degree(m, edges) >= degree(n, edges)
<1>1. \A n \in all : GraphNodes[n].layer \in Layers(all) /\ n \in OfLayer(all, GraphNodes[n].layer)
  BY DEF Layers, OfLayer
<1>2. \A l \in Layers(all) : \A n \in OfLayer(all, l) : n \in all /\ GraphNodes[n].layer = l
  BY DEF OfLayer
<1>3. \A l \in Layers(all) : Sizes(all)[l] = Cardinality(OfLayer(all, l))
  BY DEF Sizes
<1>4. \A l \in Layers(all) : IsFiniteSet(OfLayer(all, l)) /\ OfLayer(all, l) \subseteq Nat
  BY LayersFinite
<1>5. ASSUME NEW n \in all
      PROVE  Rank(all, edges, n) \in 0..(Sizes(all)[GraphNodes[n].layer] - 1)
  BY <1>1, <1>3, <1>4, Ranked DEF Rank
<1>6. ASSUME NEW l \in Layers(all), NEW i \in 1..Sizes(all)[l]
      PROVE  \E n \in all : GraphNodes[n].layer = l /\ Rank(all, edges, n) = i - 1
  <2>1. i \in 1..Cardinality(OfLayer(all, l))
    BY <1>3
  <2>2. PICK n \in OfLayer(all, l) : Cardinality(Ahead(OfLayer(all, l), edges, n)) = i - 1
    BY <1>4, <2>1, Ranked
  <2>3. QED BY <1>2, <2>2 DEF Rank
<1>7. ASSUME NEW m \in all, NEW n \in all, GraphNodes[m].layer = GraphNodes[n].layer
      PROVE  /\ Rank(all, edges, m) = Rank(all, edges, n) => m = n
             /\ Rank(all, edges, m) < Rank(all, edges, n) => degree(m, edges) >= degree(n, edges)
  <2> DEFINE S == OfLayer(all, GraphNodes[n].layer)
  <2>1. m \in S /\ n \in S /\ IsFiniteSet(S) /\ S \subseteq Nat
    BY <1>1, <1>4, <1>7
  <2>2. Rank(all, edges, m) = Cardinality(Ahead(S, edges, m)) /\ Rank(all, edges, n) = Cardinality(Ahead(S, edges, n))
    BY <1>7 DEF Rank
  <2> HIDE DEF S
  <2>3. QED BY <2>1, <2>2, Ranked
<1>8. QED BY <1>1, <1>5, <1>6, <1>7

\* As many nodes are drawn as the layers have been given, the first of each.
LEMMA Draws ==
  ASSUME NEW all \in SUBSET DOMAIN GraphNodes, NEW edges, IsFiniteSet(edges),
         NEW alloc \in [Layers(all) -> Nat], \A l \in Layers(all) : alloc[l] <= Sizes(all)[l]
  PROVE  /\ Drawn(all, edges, alloc) \subseteq all
         /\ \A n \in all : n \in Drawn(all, edges, alloc) <=> Rank(all, edges, n) < alloc[GraphNodes[n].layer]
         /\ Cardinality(Drawn(all, edges, alloc)) = Sum(alloc)
<1> DEFINE drawn == Drawn(all, edges, alloc)
<1>1. \A l \in Layers(all) : Foremost(OfLayer(all, l), edges, alloc[l])
                             = {n \in OfLayer(all, l) : Cardinality(Ahead(OfLayer(all, l), edges, n)) < alloc[l]}
  BY LayersFinite, Ranked
<1>2. \A n : n \in drawn <=> n \in all /\ Rank(all, edges, n) < alloc[GraphNodes[n].layer]
  <2>1. ASSUME NEW n \in drawn PROVE n \in all /\ Rank(all, edges, n) < alloc[GraphNodes[n].layer]
    <3>1. PICK l \in Layers(all) : n \in OfLayer(all, l) /\ Cardinality(Ahead(OfLayer(all, l), edges, n)) < alloc[l]
      BY <1>1 DEF Drawn
    <3>2. QED BY <3>1 DEF OfLayer, Rank
  <2>2. ASSUME NEW n \in all, Rank(all, edges, n) < alloc[GraphNodes[n].layer] PROVE n \in drawn
    <3> DEFINE l == GraphNodes[n].layer
    <3>1. l \in Layers(all) /\ n \in OfLayer(all, l)
      BY DEF Layers, OfLayer
    <3>2. n \in Foremost(OfLayer(all, l), edges, alloc[l])
      BY <1>1, <2>2, <3>1 DEF Rank
    <3>3. QED BY <3>1, <3>2 DEF Drawn
  <2>3. QED BY <2>1, <2>2
<1> HIDE DEF drawn
<1>3. drawn \subseteq all /\ IsFiniteSet(drawn)
  BY <1>2, LayersFinite, FS_Subset
<1>4. /\ \A s : s \in Slots(alloc) <=> \E l \in Layers(all), i \in Nat : i \in 1..alloc[l] /\ s = <<l, i>>
      /\ Sum(alloc) = Cardinality(Slots(alloc))
  BY LayersFinite, SlotsOf
<1> DEFINE slot == [n \in drawn |-> <<GraphNodes[n].layer, Rank(all, edges, n) + 1>>]
<1>5. \A n \in all : /\ GraphNodes[n].layer \in Layers(all)
                     /\ Rank(all, edges, n) \in 0..(Sizes(all)[GraphNodes[n].layer] - 1)
  BY RanksOf
<1>6. \A n \in all : Rank(all, edges, n) \in Nat
  BY <1>5
<1>7. slot \in [drawn -> Slots(alloc)]
  <2> SUFFICES ASSUME NEW n \in drawn PROVE <<GraphNodes[n].layer, Rank(all, edges, n) + 1>> \in Slots(alloc)
    OBVIOUS
  <2>1. n \in all /\ Rank(all, edges, n) \in Nat /\ Rank(all, edges, n) < alloc[GraphNodes[n].layer]
        /\ alloc[GraphNodes[n].layer] \in Nat
    BY <1>2, <1>5, <1>6
  <2>2. Rank(all, edges, n) + 1 \in Nat /\ Rank(all, edges, n) + 1 \in 1..alloc[GraphNodes[n].layer]
    BY <2>1
  <2>3. QED BY <1>4, <1>5, <2>1, <2>2
<1>8. ASSUME NEW m \in drawn, NEW n \in drawn, slot[m] = slot[n] PROVE m = n
  <2>1. m \in all /\ n \in all /\ Rank(all, edges, m) \in Nat /\ Rank(all, edges, n) \in Nat
    BY <1>2, <1>6
  <2>2. GraphNodes[m].layer = GraphNodes[n].layer /\ Rank(all, edges, m) + 1 = Rank(all, edges, n) + 1
    BY <1>8
  <2>3. Rank(all, edges, m) = Rank(all, edges, n)
    BY <2>1, <2>2
  <2>4. QED BY <2>1, <2>2, <2>3, RanksOf
<1>9. ASSUME NEW s \in Slots(alloc) PROVE \E n \in drawn : slot[n] = s
  <2>1. PICK l \in Layers(all), i \in Nat : i \in 1..alloc[l] /\ s = <<l, i>>
    BY <1>4
  <2>2. alloc[l] \in Nat /\ Sizes(all)[l] \in Nat /\ alloc[l] <= Sizes(all)[l]
    BY LayersFinite
  <2>3. i \in 1..Sizes(all)[l]
    BY <2>1, <2>2
  <2>4. PICK n \in all : GraphNodes[n].layer = l /\ Rank(all, edges, n) = i - 1
    BY <2>3, RanksOf
  <2>5. n \in drawn /\ Rank(all, edges, n) + 1 = i
    BY <1>2, <2>1, <2>2, <2>4
  <2>6. QED BY <2>1, <2>4, <2>5
<1> HIDE DEF slot
<1>10. slot \in Bijection(drawn, Slots(alloc))
  BY <1>7, <1>8, <1>9, Fun_IsBij
<1>11. ExistsBijection(drawn, Slots(alloc))
  BY <1>10 DEF ExistsBijection
<1>12. Cardinality(Slots(alloc)) = Cardinality(drawn)
  BY <1>3, <1>11, FS_Bijection
<1>13. QED BY <1>2, <1>3, <1>4, <1>12 DEF drawn

LEMMA Filtered ==
  ASSUME NEW f
  PROVE  filterGraph(f).nodes \in SUBSET DOMAIN GraphNodes /\ IsFiniteSet(filterGraph(f).edges)
<1>1. filterGraph(f).edges \in SUBSET GraphEdges
  BY DEF filterGraph
<1>2. filterGraph(f).nodes \in SUBSET DOMAIN GraphNodes
  BY DEF filterGraph
<1>3. QED BY <1>1, <1>2, GraphAssumption, FS_Subset

LEMMA Extremes ==
  ASSUME NEW a \in Nat, NEW b \in Nat
  PROVE  Max({a, b}) = (IF a >= b THEN a ELSE b) /\ Min({a, b}) = (IF a <= b THEN a ELSE b)
<1>1. \E x \in {a, b} : \A y \in {a, b} : x >= y
  OBVIOUS
<1>2. \E x \in {a, b} : \A y \in {a, b} : x <= y
  OBVIOUS
<1>3. Max({a, b}) = IF a >= b THEN a ELSE b
  BY <1>1 DEF Max
<1>4. Min({a, b}) = IF a <= b THEN a ELSE b
  BY <1>2 DEF Min
<1>5. QED BY <1>3, <1>4

\* Layers without nodes add nothing.
LEMMA FloorsOfLayers ==
  ASSUME NEW all \in SUBSET DOMAIN GraphNodes
  PROVE  /\ Sum([l \in LayerNames |-> Floor(Cardinality(OfLayer(all, l)))])
              = Sum([l \in Layers(all) |-> Floor(Sizes(all)[l])])
         /\ Sum([l \in LayerNames |-> Floor(Cardinality(OfLayer(all, l)))]) \in Nat
<1> DEFINE f == [l \in LayerNames |-> Floor(Cardinality(OfLayer(all, l)))]
           g == [l \in Layers(all) |-> Floor(Sizes(all)[l])]
<1>1. IsFiniteSet(LayerNames)
  <2>1. Alphabet \in Seq(ToSet(Alphabet)) /\ LayerNames \in SUBSET ToSet(Alphabet)
    BY GraphAssumption DEF LayerNames
  <2>2. IsFiniteSet(ToSet(Alphabet))
    BY <2>1, SeqRange DEF ToSet
  <2>3. QED BY <2>1, <2>2, FS_Subset
<1>2. Layers(all) \in SUBSET LayerNames /\ IsFiniteSet(Layers(all))
  BY LayersFinite
<1>3. ASSUME NEW l \in Layers(all)
      PROVE  f[l] = Floor(Cardinality(OfLayer(all, l))) /\ g[l] = f[l] /\ f[l] \in Nat
  <2>1. Sizes(all)[l] = Cardinality(OfLayer(all, l)) /\ Cardinality(OfLayer(all, l)) \in Nat
    BY LayersFinite DEF Sizes
  <2>2. QED BY <1>2, <2>1, Floors
<1>4. ASSUME NEW l \in LayerNames, l \notin Layers(all) PROVE f[l] = 0
  <2>1. OfLayer(all, l) = {}
    BY <1>4 DEF OfLayer, Layers
  <2>2. Cardinality(OfLayer(all, l)) = 0
    BY <2>1, FS_EmptySet
  <2>3. QED BY <2>2, Floors
<1>5. f \in [LayerNames -> Nat] /\ g \in [Layers(all) -> Nat]
  <2>1. ASSUME NEW l \in LayerNames PROVE f[l] \in Nat
    <3>1. CASE l \in Layers(all)
      BY <1>3, <3>1
    <3>2. CASE l \notin Layers(all)
      <4>1. f[l] = 0
        BY <1>4, <3>2
      <4>2. QED BY <4>1
    <3>3. QED BY <3>1, <3>2
  <2>2. QED BY <1>3, <2>1
<1> HIDE DEF f, g
<1>6. /\ \A s : s \in Slots(f) <=> \E l \in LayerNames, i \in Nat : i \in 1..f[l] /\ s = <<l, i>>
      /\ \A s : s \in Slots(g) <=> \E l \in Layers(all), i \in Nat : i \in 1..g[l] /\ s = <<l, i>>
      /\ Sum(f) = Cardinality(Slots(f)) /\ Sum(g) = Cardinality(Slots(g)) /\ Sum(f) \in Nat
  BY <1>1, <1>2, <1>5, SlotsOf
<1>7. ASSUME NEW l \in LayerNames, NEW i \in Nat, i \in 1..f[l] PROVE l \in Layers(all) /\ i \in 1..g[l]
  <2>1. CASE l \notin Layers(all)
    <3>1. f[l] = 0
      BY <1>4, <2>1
    <3>2. QED BY <1>7, <3>1
  <2>2. QED BY <1>3, <1>7, <2>1
<1>8. Slots(f) = Slots(g)
  <2>1. ASSUME NEW s \in Slots(f) PROVE s \in Slots(g)
    <3>1. PICK l \in LayerNames, i \in Nat : i \in 1..f[l] /\ s = <<l, i>>
      BY <1>6
    <3>2. QED BY <1>6, <1>7, <3>1
  <2>2. ASSUME NEW s \in Slots(g) PROVE s \in Slots(f)
    <3>1. PICK l \in Layers(all), i \in Nat : i \in 1..g[l] /\ s = <<l, i>>
      BY <1>6
    <3>2. QED BY <1>2, <1>3, <1>6, <3>1
  <2>3. QED BY <2>1, <2>2
<1>9. QED BY <1>6, <1>8 DEF f, g

\* What fairSampleByLayer draws is fair whatever the filters, the search and the
\* focus leave of the graph, and whatever the cap: as many nodes as the cap and
\* the layers' minimum say, of every layer, the ones with the most edges.
THEOREM FairForAll ==
  \A f : \A cap \in Nat \cup {NoCap} : FairSample(f, cap)
<1> SUFFICES ASSUME NEW f, NEW cap \in Nat \cup {NoCap} PROVE FairSample(f, cap)
  OBVIOUS
<1> DEFINE all == filterGraph(f).nodes
           edges == filterGraph(f).edges
           drawn == MapShown(f, cap).nodes
           floors == Sum([l \in LayerNames |-> Floor(Cardinality(OfLayer(all, l)))])
<1>1. all \in SUBSET DOMAIN GraphNodes /\ IsFiniteSet(edges)
  BY Filtered
<1>2. drawn = fairSampleByLayer(all, edges, cap)
  BY DEF MapShown
<1>3. /\ Cardinality(all) \in Nat /\ IsFiniteSet(Layers(all)) /\ Layers(all) \in SUBSET LayerNames
      /\ Sizes(all) \in [Layers(all) -> Nat]
      /\ \A l \in Layers(all) : Sizes(all)[l] > 0
  BY <1>1, LayersFinite DEF Sizes
<1>4. floors = Sum([l \in Layers(all) |-> Floor(Sizes(all)[l])]) /\ floors \in Nat
  BY <1>1, FloorsOfLayers
<1>5. /\ \A n \in all : /\ GraphNodes[n].layer \in Layers(all)
                        /\ Rank(all, edges, n) \in Nat
                        /\ Rank(all, edges, n) < Sizes(all)[GraphNodes[n].layer]
      /\ \A l \in Layers(all) : \E n \in all : GraphNodes[n].layer = l /\ Rank(all, edges, n) = 0
      /\ \A m, n \in all : GraphNodes[m].layer = GraphNodes[n].layer =>
              /\ Rank(all, edges, m) = Rank(all, edges, n) => m = n
              /\ Rank(all, edges, m) < Rank(all, edges, n) => degree(m, edges) >= degree(n, edges)
  <2> HIDE DEF all, edges
  <2>1. ASSUME NEW n \in all
        PROVE  /\ GraphNodes[n].layer \in Layers(all)
               /\ Rank(all, edges, n) \in Nat
               /\ Rank(all, edges, n) < Sizes(all)[GraphNodes[n].layer]
    <3>1. GraphNodes[n].layer \in Layers(all) /\ Rank(all, edges, n) \in 0..(Sizes(all)[GraphNodes[n].layer] - 1)
      BY <1>1, RanksOf
    <3>2. Sizes(all)[GraphNodes[n].layer] \in Nat
      BY <1>3, <3>1
    <3>3. QED BY <3>1, <3>2
  <2>2. ASSUME NEW l \in Layers(all) PROVE \E n \in all : GraphNodes[n].layer = l /\ Rank(all, edges, n) = 0
    <3>1. 1 \in 1..Sizes(all)[l] /\ 1 - 1 = 0
      BY <1>3
    <3>2. QED BY <1>1, <3>1, RanksOf
  <2>3. QED BY <1>1, <2>1, <2>2, RanksOf
<1> HIDE DEF all, edges, drawn, floors
<1>6. Cardinality(all) = Sum(Sizes(all))
  <2>1. \A l \in Layers(all) : Sizes(all)[l] <= Sizes(all)[l]
    BY <1>3
  <2>2. /\ Drawn(all, edges, Sizes(all)) \subseteq all
        /\ \A n \in all : n \in Drawn(all, edges, Sizes(all))
                            <=> Rank(all, edges, n) < Sizes(all)[GraphNodes[n].layer]
        /\ Cardinality(Drawn(all, edges, Sizes(all))) = Sum(Sizes(all))
    BY <1>1, <1>3, <2>1, Draws
  <2>3. Drawn(all, edges, Sizes(all)) = all
    BY <1>5, <2>2
  <2>4. QED BY <2>2, <2>3
<1>7. CASE cap = NoCap \/ Cardinality(all) <= cap
  <2>1. drawn = all
    BY <1>2, <1>7 DEF fairSampleByLayer
  <2>2. cap # NoCap => Min({Cardinality(all), Max({cap, floors})}) = Cardinality(all)
    <3>1. SUFFICES ASSUME cap # NoCap PROVE Min({Cardinality(all), Max({cap, floors})}) = Cardinality(all)
      OBVIOUS
    <3>2. cap \in Nat /\ Cardinality(all) <= cap
      BY <1>7, <3>1
    <3> DEFINE most == Max({cap, floors})
    <3>3. most = IF cap >= floors THEN cap ELSE floors
      BY <1>4, <3>2, Extremes
    <3> HIDE DEF most
    <3>4. most \in Nat /\ most >= cap
      BY <1>4, <3>2, <3>3
    <3>5. Min({Cardinality(all), most}) = IF Cardinality(all) <= most THEN Cardinality(all) ELSE most
      BY <1>3, <3>4, Extremes
    <3>6. Min({Cardinality(all), most}) = Cardinality(all)
      BY <1>3, <3>2, <3>4, <3>5
    <3>7. QED BY <3>6 DEF most
  <2>3. QED BY <2>1, <2>2 DEF FairSample, all, edges, drawn, floors
<1>8. CASE ~(cap = NoCap \/ Cardinality(all) <= cap)
  <2> DEFINE alloc == Allocation(Sizes(all), cap)
             low == [l \in Layers(all) |-> Floor(Sizes(all)[l])]
  <2>1. cap \in Nat /\ cap < Cardinality(all)
    BY <1>3, <1>8
  <2>2. /\ alloc \in [Layers(all) -> Nat]
        /\ \A l \in Layers(all) : Floor(Sizes(all)[l]) <= alloc[l] /\ alloc[l] <= Sizes(all)[l]
        /\ Sum(alloc) = (IF cap >= Sum(low) THEN cap ELSE Sum(low))
        /\ Sum(low) \in Nat /\ Sum(low) <= Sum(Sizes(all))
    BY <1>3, <1>6, <2>1, AllocationFair
  <2>3. drawn = Drawn(all, edges, alloc)
    BY <1>2, <1>8 DEF fairSampleByLayer, Drawn, Layers, Sizes
  <2> HIDE DEF alloc, low
  <2>4. /\ drawn \subseteq all
        /\ \A n \in all : n \in drawn <=> Rank(all, edges, n) < alloc[GraphNodes[n].layer]
        /\ Cardinality(drawn) = Sum(alloc)
    BY <1>1, <2>2, <2>3, Draws
  <2>5. Cardinality(drawn) = Min({Cardinality(all), Max({cap, floors})})
    <3>1. floors = Sum(low)
      BY <1>4 DEF low
    <3> DEFINE most == Max({cap, floors})
    <3>2. most = IF cap >= floors THEN cap ELSE floors
      BY <1>4, <2>1, Extremes
    <3> HIDE DEF most
    <3>3. most = Sum(alloc) /\ most \in Nat /\ most <= Cardinality(all)
      BY <1>3, <1>4, <1>6, <2>1, <2>2, <3>1, <3>2
    <3>4. Min({Cardinality(all), most}) = IF Cardinality(all) <= most THEN Cardinality(all) ELSE most
      BY <1>3, <3>3, Extremes
    <3>5. Min({Cardinality(all), most}) = most
      BY <1>3, <3>3, <3>4
    <3>6. QED BY <2>4, <3>3, <3>5 DEF most
  <2>6. ASSUME NEW n \in all
        PROVE  \E m \in drawn : /\ GraphNodes[m].layer = GraphNodes[n].layer
                                /\ n \in drawn \/ degree(m, edges) >= degree(n, edges)
    <3> DEFINE l == GraphNodes[n].layer
    <3>1. l \in Layers(all)
      BY <1>5
    <3>2. PICK m \in all : GraphNodes[m].layer = l /\ Rank(all, edges, m) = 0
      BY <1>5, <3>1
    <3>3. Floor(Sizes(all)[l]) \in Nat /\ Floor(Sizes(all)[l]) > 0 /\ alloc[l] \in Nat
      BY <1>3, <2>2, <3>1, Floors
    <3>4. m \in drawn
      BY <2>2, <2>4, <3>1, <3>2, <3>3
    <3>5. CASE n \in drawn
      BY <3>2, <3>4, <3>5
    <3>6. CASE n \notin drawn
      <4>1. Rank(all, edges, n) \in Nat /\ Rank(all, edges, n) # 0
        BY <1>5, <2>2, <2>4, <3>1, <3>3, <3>6
      <4>2. degree(m, edges) >= degree(n, edges)
        BY <1>5, <3>2, <4>1
      <4>3. QED BY <3>2, <3>4, <4>2
    <3>7. QED BY <3>5, <3>6
  <2>7. ASSUME NEW n \in all \ drawn, NEW m \in drawn, GraphNodes[m].layer = GraphNodes[n].layer
        PROVE  degree(m, edges) >= degree(n, edges)
    <3> DEFINE l == GraphNodes[n].layer
    <3>1. m \in all /\ l \in Layers(all) /\ alloc[l] \in Nat
      BY <1>5, <2>2, <2>4
    <3>2. Rank(all, edges, m) < alloc[l] /\ ~(Rank(all, edges, n) < alloc[l])
      BY <2>4, <2>7, <3>1
    <3>3. Rank(all, edges, m) \in Nat /\ Rank(all, edges, n) \in Nat
      BY <1>5, <3>1
    <3>4. Rank(all, edges, m) < Rank(all, edges, n)
      BY <3>1, <3>2, <3>3
    <3>5. QED BY <1>5, <2>7, <3>1, <3>4
  <2>8. QED BY <1>8, <2>5, <2>6, <2>7 DEF FairSample, all, edges, drawn, floors
<1>9. QED BY <1>7, <1>8

\* The cap is a number; "Show more" is not offered once all is shown.
MapTyped ==
  /\ map = [kind |-> map.kind, cap |-> map.cap, showAll |-> map.showAll]
  /\ map.cap \in Nat

LEMMA CapsFit == MapTyped => (map.kind = "2d" => EffectiveCap \in Nat \cup {NoCap})
  BY LimitsAssumption DEF MapTyped, EffectiveCap

LEMMA MapsTyped == PagesSpec => []MapTyped
<1>1. PagesInit => MapTyped
  BY DEF PagesInit, MapTyped, Opened
<1>2. MapTyped /\ [PagesNext]_pagesVars => MapTyped'
  <2> SUFFICES ASSUME MapTyped, [PagesNext]_pagesVars PROVE MapTyped'
    OBVIOUS
  <2>1. CASE UNCHANGED map
    BY <2>1 DEF MapTyped
  <2>2. ASSUME NEW kind, map' = Opened(kind) PROVE MapTyped'
    BY <2>2 DEF MapTyped, Opened
  <2>3. CASE ShowMore
    <3>1. EffectiveCap \in Nat
      <4>1. CASE map.kind = "2d" /\ map.showAll
        <5>1. EffectiveCap = NoCap
          BY <4>1 DEF EffectiveCap
        <5>2. Shown.nodes = filterGraph(filters).nodes
          BY <4>1, <5>1 DEF Shown, MapShown, fairSampleByLayer
        <5>3. Cardinality(filterGraph(filters).nodes) \in Nat
          BY Filtered, LayersFinite
        <5>4. QED BY <2>3, <5>2, <5>3 DEF ShowMore, Capped
      <4>2. CASE ~(map.kind = "2d" /\ map.showAll)
        <5>1. Max({RenderLimit, Budget}) \in Nat
          BY LimitsAssumption, Extremes
        <5>2. QED BY <4>2, <5>1, LimitsAssumption DEF EffectiveCap, MapTyped
      <4>3. QED BY <4>1, <4>2
    <3>2. PICK more \in Nat : map' = [map EXCEPT !.cap = EffectiveCap + more]
      BY <2>3, LimitsAssumption DEF ShowMore
    <3>3. EffectiveCap + more \in Nat
      BY <3>1, <3>2
    <3> DEFINE more2 == EffectiveCap + more
    <3>4. map' = [map EXCEPT !.cap = more2]
      BY <3>2
    <3> HIDE DEF more2
    <3>5. QED BY <3>3, <3>4 DEF MapTyped, more2
  <2>4. CASE ShowAll
    BY <2>4 DEF ShowAll, MapTyped
  <2>5. CASE MapNext
    <3>1. \/ UNCHANGED map \/ ShowMore \/ ShowAll
          \/ \E kind : map' = Opened(kind)
      BY <2>5 DEF MapNext, ToggleLayer, ToggleNodeType, ToggleEdgeType, ToggleIsolated, ResetFilters,
                  Search, OpenInGraph, ChangeDepth, ResetView, SwitchMap
    <3>2. QED BY <2>1, <2>2, <2>3, <2>4, <3>1
  <2>6. CASE LayoutNext /\ UNCHANGED mapVars
    BY <2>1, <2>6 DEF mapVars
  <2>7. CASE UNCHANGED pagesVars
    BY <2>1, <2>7 DEF pagesVars, mapVars
  <2>8. QED BY <2>5, <2>6, <2>7 DEF PagesNext
<1>3. QED BY <1>1, <1>2, PTL DEF PagesSpec

\* Whatever the user filters, searches, opens and asks to see more of, the 2D map
\* draws a fair sample (fairSampleByLayer and its reconciliation).
THEOREM FairSamples == PagesSpec => []SampleIsFair
<1>1. MapTyped => SampleIsFair
  BY CapsFit, FairForAll DEF SampleIsFair
<1>2. QED BY <1>1, MapsTyped, PTL
=============================================================================

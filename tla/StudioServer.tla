---------------------------- MODULE StudioServer ----------------------------
(***************************************************************************)
(* The read-only HTTP server of `kawn studio` and the files it reads.      *)
(* Every request reads the graph anew, so what it answers is the graph of  *)
(* that moment: missing, half written by a scan, or whole.  A call is in   *)
(* `calls` from its fetch until the page has its outcome; a server that    *)
(* stops destroys its sockets, and the calls it owed an answer fail.       *)
(***************************************************************************)
EXTENDS Naturals, FiniteSets, FiniteSetsExt, SequencesExt

CONSTANTS
  Reports,      \* the files below benchmark-results/, as records
  Length(_),    \* the characters of a question
  Ports,        \* the ports `kawn studio` tries, in order
  MaxScans      \* bound on the scans

VARIABLES
  disk,         \* .kawn/graph.json: what it holds and the scan it is of
  port,         \* where the server listens, or NoPort
  calls         \* the requests under way

serverVars == <<disk, port, calls>>

None == "none"
NoPort == 0

Refusal(code) == [code |-> code, status |-> None, gen |-> 0]

\* No outcome yet; and a fetch that rejects: nobody there, or a reset.
Pending == Refusal(102)
Unreachable == Refusal(0)

\* A fault: the graph is read once, when the server starts.
LoadGraphStateOnce(d) == [status |-> "ok", gen |-> 1]

\* Read .kawn/graph.json once and classify it.
LoadGraphState(d) ==
  [status |-> CASE d.content = "absent" -> "missing"
                [] d.content = "partial" -> "malformed"
                [] d.content = "whole" -> "ok",
   gen |-> d.gen]

-----------------------------------------------------------------------------
(* The newest benchmark report.  A report is a record: its place in the    *)
(* walk, `merged`, its mtime, and whether it reads as a whole report       *)
(* ("current" or "legacy" keys), is too large, or is no report at all.     *)

NewestByMtime(files) ==
  LET newest == {f \in files : \A g \in files : g.mtime <= f.mtime}
  IN  CHOOSE f \in newest : \A g \in newest : f.place <= g.place

Chosen(files) ==
  LET merged == {f \in files : f.merged}
  IN  IF merged # {} THEN merged ELSE files

\* normalizeLegacy maps the old keys, so a legacy report is as good as another.
Readable(f) == f.content \in {"current", "legacy"}

\* Files may vanish between the walk and the stat, and again before the read.
LoadBenchReport(files) ==
  LET Outcome(left) ==
        IF left = {} THEN {[reason |-> "none", report |-> 0]}
        ELSE LET f == NewestByMtime(left)
             IN  {[reason |-> "unreadable", report |-> 0]}
                 \cup (IF Readable(f) THEN {[reason |-> "", report |-> f.place]} ELSE {})
  IN  IF files = {} THEN {[reason |-> "none", report |-> 0]}
      ELSE UNION {Outcome(left) : left \in SUBSET Chosen(files)}

-----------------------------------------------------------------------------
(* The handlers.                                                           *)

ComputedRoutes == {"context", "impact", "flow", "changes"}

\* GET /api/graph and /api/summary.
GetRoute(d) ==
  IF d.status # "ok" THEN Refusal(409)
  ELSE [code |-> 200, status |-> "ok", gen |-> d.gen]

MAX_QUERY_LEN == 2000
MAX_REF_LEN == 200

\* A task, a symbol, the ends of a flow: there, and not too long.
reqString(q) == Length(q) \in 1..MAX_QUERY_LEN

\* The base of a comparison.  The working tree is compared without one.
optRef(q) == q = "working" \/ Length(q) <= MAX_REF_LEN

\* apiContext, apiAffected, apiFlow, apiChanges.  A git problem of the last is
\* an answer like any other.
Computed(route, q, d) ==
  IF IF route = "changes" THEN optRef(q) ELSE reqString(q)
  THEN [code |-> 200, status |-> "ok", gen |-> d.gen]
  ELSE Refusal(400)

\* POST: the graph is looked at before the question is.
PostRoute(route, q, d) == IF d.status # "ok" THEN Refusal(409) ELSE Computed(route, q, d)

\* Every reply a request may get; /api/bench never looks at the graph.  A graph is
\* accepted for its two arrays alone, and a computation that stumbles over what they
\* hold is answered with 500 (server.ts:70).
HandleApi(route, q, d) ==
  CASE route = "health" -> {[code |-> 200, status |-> d.status, gen |-> d.gen]}
    [] route = "bench" -> {[code |-> 200, status |-> r.reason, gen |-> r.report] :
                             r \in LoadBenchReport(Reports)}
    [] route \in {"graph", "summary"} -> {GetRoute(d)}
    [] route \in ComputedRoutes ->
         {PostRoute(route, q, d)} \cup {Refusal(500) : s \in {d.status} \cap {"ok"}}

-----------------------------------------------------------------------------
ServerInit ==
  /\ disk \in [content : {"absent", "whole"}, gen : {1}]
  /\ port = Ports[1]

\* A scan truncates graph.json, and writes it.
ScanBegins ==
  /\ disk.gen < MaxScans
  /\ disk.content # "partial"
  /\ disk' = [disk EXCEPT !.content = "partial"]
  /\ UNCHANGED <<port, calls>>

ScanEnds ==
  /\ disk.content = "partial"
  /\ disk' = [content |-> "whole", gen |-> disk.gen + 1]
  /\ UNCHANGED <<port, calls>>

Answered(c) == c.reply # Pending

\* One request, from its first byte to sendJson.
Serve(c) ==
  /\ port = Ports[1]
  /\ ~Answered(c)
  /\ \E r \in HandleApi(c.route, c.q, LoadGraphState(disk)) :
        calls' = (calls \ {c}) \cup {[c EXCEPT !.reply = r]}
  /\ UNCHANGED <<disk, port>>

\* The page's calls go to the port it was loaded from: to any other they are lost.
Lose(c) ==
  /\ port # Ports[1]
  /\ ~Answered(c)
  /\ calls' = (calls \ {c}) \cup {[c EXCEPT !.reply = Unreachable]}
  /\ UNCHANGED <<disk, port>>

\* Ctrl+C: no more connections, and the open ones are destroyed.
Shutdown ==
  /\ port # NoPort
  /\ port' = NoPort
  /\ calls' = {IF Answered(c) THEN c ELSE [c EXCEPT !.reply = Unreachable] : c \in calls}
  /\ UNCHANGED disk

\* `kawn studio` again: the first of the ports that nobody else has.
ListenWithFallback ==
  /\ port = NoPort
  /\ \E taken \in SUBSET ToSet(Ports) :
        /\ taken # ToSet(Ports)
        /\ port' = SelectSeq(Ports, LAMBDA p : p \notin taken)[1]
  /\ UNCHANGED <<disk, calls>>

ServerNext ==
  \/ ScanBegins \/ ScanEnds
  \/ Shutdown \/ ListenWithFallback
  \/ \E c \in calls : Serve(c) \/ Lose(c)
=============================================================================

----------------------------- MODULE McpServer ------------------------------
(***************************************************************************)
(* The kawn MCP server answering tools/call over the store of GraphStore.  *)
(*                                                                         *)
(* Every call passes a freshness gate before it is served.  The gate is    *)
(* graphFreshness, four separate looks at the world (graph.json, the       *)
(* manifest, HEAD, git status), its verdict kept for FRESHNESS_TTL_MS.     *)
(* The tool then reads graph.json a second time and answers from those     *)
(* bytes.  Scans, edits and git may step in between any two looks.         *)
(*                                                                         *)
(* The transport runs one handler at a time (see McpStdio), so the server  *)
(* is one process with one request in hand.  The four tools differ only in *)
(* what they compute from the graph, which no property here tells apart.   *)
(***************************************************************************)
EXTENDS GraphStore

CONSTANTS
  Supported,   \* GRAPH_SCHEMA_VERSION of the server's build
  TTL          \* FRESHNESS_TTL_MS in ticks of the clock

ASSUME ServerAssumption == Supported \in Schemas /\ TTL \in Nat \ {0}

VARIABLES
  mcp,         \* the request in hand and what its probe has seen so far
  cache,       \* freshnessCache's entry for the root
  reply,       \* the answer that has just been given; nothing reads it later
  steady       \* history: `whole` ever since the verdict's look at graph.json

mcpVars == <<mcp, cache, reply, steady>>
allVars == <<vars, mcpVars>>

Statuses == {"fresh", "possibly-stale", "stale", "missing", "malformed",
             "incompatible", "unknown"}
\* A fault: only malformed graphs are held back.
BlockingMalformedOnly == {"malformed"}

BLOCKING_STATUSES == {"incompatible", "malformed"}

\* A view is the verdict.  Whether the graph looked at held the files of the
\* commit it was compared with, those left out that its scan could not read, and
\* whether that scan was calm, are history.
Views == [status  : Statuses,
          matches : BOOLEAN,
          calm    : BOOLEAN]

ASSUME NothingAssumption == Nothing \notin Views

Resting == [stage |-> "idle", age |-> 0, readAge |-> 0,
            bytes |-> Missing, man |-> Nothing, view |-> Nothing]

NoReply == [kind |-> "none", status |-> "unknown", bytes |-> Missing,
            steady |-> FALSE]

\* An entry as old as FRESHNESS_TTL_MS is never used again: it is Nothing.
CacheLive == cache # Nothing

-----------------------------------------------------------------------------
(* freshnessView                                                           *)

\* A fault: the entry is stamped with the moment the verdict is reached.
ConcludeStampedLate(view, readAge) ==
  /\ cache' = [age |-> 0, readAge |-> readAge, view |-> view]
  /\ mcp' = [Resting EXCEPT !.stage = "gate", !.view = view]

\* The verdict goes into the cache stamped with the moment the probe began.
Conclude(view, readAge) ==
  /\ cache' = IF mcp.age < TTL
                THEN [age |-> mcp.age, readAge |-> readAge, view |-> view]
                ELSE Nothing
  /\ mcp' = [Resting EXCEPT !.stage = "gate", !.view = view]

Verdict(status, readAge) ==
  Conclude([status |-> status, matches |-> FALSE, calm |-> FALSE], readAge)

\* A fault: an entry that is used is renewed, as in a sliding expiration.
ReceiveRenewing ==
  /\ mcp.stage = "idle"
  /\ reply' = NoReply
  /\ mcp' = IF CacheLive THEN [Resting EXCEPT !.stage = "gate", !.view = cache.view]
            ELSE [Resting EXCEPT !.stage = "probeGraph"]
  /\ cache' = IF CacheLive THEN [cache EXCEPT !.age = 0] ELSE cache
  /\ UNCHANGED steady

\* A tools/call of one of the tools arrives.
Receive ==
  /\ mcp.stage = "idle"
  /\ reply' = NoReply
  /\ mcp' = IF CacheLive THEN [Resting EXCEPT !.stage = "gate", !.view = cache.view]
            ELSE [Resting EXCEPT !.stage = "probeGraph"]
  /\ UNCHANGED <<cache, steady>>

\* An unknown tool is refused before the gate.
Refuse ==
  /\ mcp.stage = "idle"
  /\ reply' = [NoReply EXCEPT !.kind = "error"]
  /\ UNCHANGED <<mcp, cache, steady>>

ProbeGraph ==
  /\ mcp.stage = "probeGraph"
  /\ steady' = whole
  /\ IF graph = Missing   THEN Verdict("missing", 0)
     ELSE IF graph = Torn THEN Verdict("malformed", 0)
     ELSE /\ mcp' = [mcp EXCEPT !.stage = "probeManifest", !.bytes = graph]
          /\ UNCHANGED cache
  /\ UNCHANGED reply

\* A fault: the graph's hash is not compared with the manifest's.
ProbeManifestUnhashed ==
  /\ mcp.stage = "probeManifest"
  /\ IF manifest \in {Missing, Torn} THEN Verdict("possibly-stale", mcp.readAge)
     ELSE IF manifest.schema # Supported
       THEN Verdict("incompatible", mcp.readAge)
     ELSE /\ mcp' = [mcp EXCEPT !.stage = "probeHead", !.man = manifest]
          /\ UNCHANGED cache
  /\ UNCHANGED <<reply, steady>>

\* readManifest: an unreadable manifest is no manifest.  Its schema is judged
\* before its hash.
ProbeManifest ==
  /\ mcp.stage = "probeManifest"
  /\ IF manifest \in {Missing, Torn} THEN Verdict("possibly-stale", mcp.readAge)
     ELSE IF manifest.schema # Supported
       THEN Verdict("incompatible", mcp.readAge)
     ELSE IF manifest.graphHash # mcp.bytes
       THEN Verdict("possibly-stale", mcp.readAge)
     ELSE /\ mcp' = [mcp EXCEPT !.stage = "probeHead", !.man = manifest]
          /\ UNCHANGED cache
  /\ UNCHANGED <<reply, steady>>

\* With a gitHead that is not a string the message for "stale" throws, and
\* freshnessView falls back to "unknown".
ProbeHead ==
  /\ mcp.stage = "probeHead"
  /\ \E h \in HeadReadings :
       IF NoHead \in {h, mcp.man.head} THEN Verdict("possibly-stale", mcp.readAge)
       ELSE IF mcp.man.head = BadHead  THEN Verdict("unknown", mcp.readAge)
       ELSE IF mcp.man.head # h        THEN Verdict("stale", mcp.readAge)
       ELSE /\ mcp' = [mcp EXCEPT !.stage = "probeStatus"]
            /\ UNCHANGED cache
  /\ UNCHANGED <<reply, steady>>

\* gitWorkingTreeDirty is null when git status fails, and null is not dirty.
StatusReadings == {IF Clean THEN "clean" ELSE "dirty"}
                    \cup (IF GitMayFail THEN {"null"} ELSE {})

ProbeStatus ==
  /\ mcp.stage = "probeStatus"
  /\ \E tree \in StatusReadings :
       IF tree = "dirty" THEN Verdict("possibly-stale", mcp.readAge)
       ELSE Conclude([status  |-> "fresh",
                      matches |-> mcp.bytes \in GraphBytes /\ Describes(mcp.bytes, mcp.man),
                      calm    |-> mcp.man.calm], mcp.readAge)
  /\ UNCHANGED <<reply, steady>>

-----------------------------------------------------------------------------
(* callTool, past the probe                                                *)

Answer(kind, bytes) ==
  /\ reply' = [kind |-> kind, status |-> mcp.view.status, bytes |-> bytes,
               steady |-> steady]
  /\ mcp' = Resting

\* TOOLS: the arguments a call must have.  The others have defaults, and what is
\* computed from the graph is the business of GraphAnswers.  kawn_changes asks git
\* after loading the graph, and answers in words if git fails.
Required == [kawn_context  |-> {"task"},
             kawn_query    |-> {"query"},
             kawn_affected |-> {"symbol"},
             kawn_changes  |-> {}]

Calls == [name : DOMAIN Required, args : SUBSET {"task", "query", "symbol"}]

Complete(call) == Required[call.name] \subseteq call.args

\* The gate, then the tool's check of its own arguments, which are looked at
\* nowhere before.
Gate ==
  /\ mcp.stage = "gate"
  /\ \E complete \in {Complete(call) : call \in Calls} :
       IF mcp.view.status \in BLOCKING_STATUSES THEN Answer("refused", Missing)
       ELSE IF ~complete THEN Answer("error", Missing)
       ELSE mcp' = [mcp EXCEPT !.stage = "exists"] /\ UNCHANGED reply
  /\ UNCHANGED <<cache, steady>>

\* loadGraph: graphExists, and then a second read of graph.json.
GraphExists ==
  /\ mcp.stage = "exists"
  /\ IF graph = Missing THEN Answer("missing", Missing)
     ELSE mcp' = [mcp EXCEPT !.stage = "load"] /\ UNCHANGED reply
  /\ UNCHANGED <<cache, steady>>

\* readGraph parses; it checks neither hash nor schema.
LoadGraph ==
  /\ mcp.stage = "load"
  /\ IF graph \in {Missing, Torn} THEN Answer("error", Missing)
     ELSE Answer("served", graph)
  /\ UNCHANGED <<cache, steady>>

-----------------------------------------------------------------------------
\* Time passes for the cache entry and for the probe.  Ages stop at TTL.
Older(n) == IF n < TTL THEN n + 1 ELSE n

Probing == mcp.stage \in {"probeGraph", "probeManifest", "probeHead",
                          "probeStatus"}

Tick ==
  /\ mcp' = IF ~Probing THEN mcp
            ELSE [mcp EXCEPT !.age = Older(@),
                    !.readAge = IF mcp.stage = "probeGraph" THEN 0 ELSE Older(@)]
  /\ cache' = IF cache = Nothing \/ cache.age + 1 = TTL THEN Nothing
              ELSE [cache EXCEPT !.age = @ + 1, !.readAge = Older(@)]
  /\ <<mcp, cache>>' # <<mcp, cache>>
  /\ reply' = NoReply
  /\ UNCHANGED steady

HandlerStep == \/ ProbeGraph
               \/ ProbeManifest
               \/ ProbeHead
               \/ ProbeStatus
               \/ Gate
               \/ GraphExists
               \/ LoadGraph

ServerStep == Receive \/ Refuse \/ HandlerStep \/ Tick

\* A step of the store or of git, seen from the server.
WorldStep == /\ Next
             /\ steady' = (steady /\ whole')
             /\ reply' = NoReply
             /\ UNCHANGED <<mcp, cache>>

McpInit == /\ Init
           /\ mcp = Resting
           /\ cache = Nothing
           /\ reply = NoReply
           /\ steady = FALSE

McpNext == WorldStep \/ (ServerStep /\ UNCHANGED vars)

McpSpec == McpInit /\ [][McpNext]_allVars

\* Node runs the handler it has been given to its end, and time does pass.
\* Nothing makes a client call, a user edit, or a scan run.
McpFairness == /\ WF_allVars(HandlerStep /\ UNCHANGED vars)
               /\ WF_allVars(Tick /\ UNCHANGED vars)

McpFairSpec == McpSpec /\ McpFairness

-----------------------------------------------------------------------------
\* Type invariant.
McpTypeOK ==
  /\ TypeOK
  /\ mcp \in [stage : {"idle", "probeGraph", "probeManifest", "probeHead",
                       "probeStatus", "gate", "exists", "load"},
              age     : 0..TTL,
              readAge : 0..TTL,
              bytes   : GraphBytes \cup {Missing, Edited},
              man     : ManifestBytes \cup {Nothing},
              view    : Views \cup {Nothing}]
  /\ cache \in [age : 0..TTL-1, readAge : 0..TTL, view : Views] \cup {Nothing}
  /\ mcp.stage \in {"gate", "exists", "load"} => mcp.view \in Views
  /\ mcp.stage \in {"probeHead", "probeStatus"}
       => mcp.man \in ManifestBytes /\ mcp.bytes = mcp.man.graphHash
  /\ reply \in [kind   : {"none", "error", "missing", "refused", "served"},
                status : Statuses,
                bytes  : GraphBytes \cup {Missing, Edited},
                steady : BOOLEAN]
  /\ steady \in BOOLEAN

\* A "fresh" verdict is about the commit it names: if the manifest it trusted
\* came from a scan of a clean repository at rest, the graph that was looked
\* at holds exactly that commit's tracked files, but for those the scan could not
\* read, although graph, manifest, HEAD and status were looked at one after the
\* other with scans, crashes, foreign hands and commits in between, and although
\* a git status that fails counts as clean (graphFreshness).
FreshIsSound ==
  \A v \in {mcp.view} \cap Views :
    v.status = "fresh" /\ v.calm => v.matches

\* The gate is tight over a store at rest: if a lone scan's result has stood
\* untouched since the verdict's look at graph.json, then what is served is
\* the very graph the verdict is about, written by a build of the server's
\* own schema.  Neither the second read nor the cache may let another graph
\* through (callTool, freshnessView, loadGraph).
GateIsTightAtRest ==
  reply.kind = "served" /\ reply.steady
    => /\ reply.bytes \in GraphBytes
       /\ reply.bytes.schema = Supported
       /\ reply.status \notin {"missing"} \cup BLOCKING_STATUSES

\* The cache hands out no verdict whose first look is TTL old: a call that comes
\* in from then on looks for itself.  The age counts from the first of the four
\* looks and not from the moment the verdict was reached: the entry is stamped
\* with the probe's beginning (freshnessView).  Of the time a call takes with the
\* verdict it has been given, or has reached by itself, it says nothing.
VerdictIsYoung ==
  CacheLive => cache.readAge < TTL

\* A store that will be judged fresh by whoever looks at it.
Healthy == /\ graph \in GraphBytes
           /\ manifest \in ManifestBytes
           /\ manifest.schema = Supported
           /\ manifest.graphHash = graph
           /\ manifest.head = head
           /\ Clean

\* git rev-parse fails although there is a commit to name.
GitFails == /\ mcp.stage = "probeHead" /\ mcp'.stage = "gate"
            /\ NoHead \notin {head, mcp.man.head}
            /\ mcp'.view.status = "possibly-stale"

\* No warning outlives its cause: once a `kawn update` has taken, the
\* repository stays as it is and git answers, only "fresh" verdicts are in
\* use, whatever was cached or being probed at the time (freshnessView).
WarningsClear ==
  <>[]Healthy /\ <>[][~GitFails]_mcp
    => <>[](CacheLive => cache.view.status = "fresh")

-----------------------------------------------------------------------------
(* What the documents say without the conditions above.                    *)

\* manifest.ts on "fresh": "Graph matches the current commit with a clean
\* working tree."  A scan of a dirty tree, undone afterwards, breaks it.
FreshMatchesCommit ==
  \A v \in {mcp.view} \cap Views : v.status = "fresh" => v.matches

\* ARCHITECTURE.md: an incompatible schema makes every tool return an error,
\* "never results from a graph it cannot trust".  The schema is read from
\* manifest.json only, which the foreign scan has not written yet.
ForeignSchemaRefused ==
  reply.kind = "served" /\ reply.bytes \in GraphBytes
    => reply.bytes.schema = Supported
=============================================================================

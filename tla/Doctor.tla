-------------------------------- MODULE Doctor -------------------------------
(***************************************************************************)
(* The two commands that say whether kawn works here: `kawn doctor`, an    *)
(* audit that writes nothing, and `kawn setup`, which ends by verifying    *)
(* what it installed.  Both look at the graph more than once while scans   *)
(* and edits go on, choose how to launch the server, and probe it with a   *)
(* question that needs the graph only if one is there at that moment.      *)
(*                                                                         *)
(* Which agents there are, and how one is found in a project, is           *)
(* AgentCatalog's; what setup does to their files is AgentConfig's.  Here  *)
(* an integration is installed or it is blocked.                           *)
(***************************************************************************)
EXTENDS McpProbe, AgentCatalog, FiniteSets

CONSTANTS
  Paths,        \* bound on what the project may hold of what AgentCatalog looks for
  Selectors,    \* what --agent may say: "auto", "all" or an agent
  MaxScans,     \* bound on the scans of others
  MaxEdits      \* bound on the edits of the working tree

ASSUME DoctorAssumption ==
  /\ Selectors \subseteq AgentId \cup {"auto", "all"}
  /\ MaxScans \in Nat /\ MaxEdits \in Nat

VARIABLES
  cmd,          \* the command: what was asked, where it is, what it knows
  graph,        \* .kawn/graph.json: missing, torn, stale or fresh
  scanning, scans, edits,  \* a scan of others, and how often the world moved
  built,        \* the checkout kawn runs from has its server built
  disk,         \* the paths of the project that an adapter looks for
  refusing,     \* those whose configuration cannot be merged into
  connected,    \* those whose configuration names kawn
  outdated,     \* those of them that setup would write anew
  retrieved     \* history: kawn_context has answered from a graph

worldVars == <<graph, scanning, scans, edits, built, refusing>>
agentVars == <<disk, connected, outdated>>
vars == <<probeVars, cmd, worldVars, agentVars, retrieved>>

Checks == {"graph", "resolve", "handshake", "agents"}

Fresh(name, selector, provider, skipProbe) ==
  [name |-> name, selector |-> selector, provider |-> provider, skipProbe |-> skipProbe,
   pc |-> "start",
   source |-> "none", checks |-> [id \in Checks |-> "none"],
   hadGraph |-> FALSE, withGraph |-> FALSE, probed |-> FALSE,
   todo |-> {}, blocked |-> FALSE, ok |-> FALSE]

Init ==
  /\ ProbeInit
  /\ \/ \E skip \in BOOLEAN : cmd = Fresh("doctor", "none", FALSE, skip)
     \/ \E s \in Selectors, p \in BOOLEAN : cmd = Fresh("setup", s, p, FALSE)
  /\ graph \in {"missing", "stale", "fresh"}
  /\ scanning = FALSE /\ scans = 0 /\ edits = 0
  /\ built \in BOOLEAN
  /\ disk \in SUBSET Paths
  /\ refusing \in SUBSET {id \in McpAgents : getAdapter(id).file \in disk}
  /\ \E registered \in SUBSET (McpAgents \ refusing) :
        connected = {id \in AgentId : Installed(id, disk, registered)}
  /\ outdated \in SUBSET connected
  /\ retrieved = FALSE

-----------------------------------------------------------------------------
(* Which agents, which server                                              *)

Detected == DetectAgents(disk)

Selected == Selection(cmd.selector, disk)

\* A file that cannot be merged into, and `local` without --provider.
Blocked(id) == id \in refusing \/ (NeedsProvider(id) /\ ~cmd.provider)

\* resolveMcpLaunch: the server of a checkout if it is built, else npx.
Source == IF built THEN "local" ELSE "npx"

-----------------------------------------------------------------------------
(* The parts the commands share                                            *)

Goto(pc) == cmd' = [cmd EXCEPT !.pc = pc]

Check(id, status) == [cmd.checks EXCEPT ![id] = status]

GraphExists == graph # "missing"

\* The server is asked for context only if there is a graph at this moment.
\* Which copy of it is started, the one written down or an installed one
\* (resolveProbeLaunch), makes no difference to what it may answer.
StartProbe ==
  /\ cmd' = [cmd EXCEPT !.pc = "answer", !.withGraph = GraphExists,
                        !.source = "none"]
  /\ Launch(GraphExists)
  /\ UNCHANGED <<worldVars, agentVars, retrieved>>

Quiet == UNCHANGED <<probeVars, worldVars, agentVars, retrieved>>

-----------------------------------------------------------------------------
(* kawn doctor                                                             *)

\* graphExists and graphFreshness are two looks at the file.
DoctorLooks ==
  /\ cmd.name = "doctor" /\ cmd.pc = "start"
  /\ IF GraphExists
       THEN Goto("freshness")
       ELSE cmd' = [cmd EXCEPT !.pc = "resolve", !.checks = Check("graph", "fail")]
  /\ Quiet

\* "stale" stands for every status that only warns.
DoctorWeighs ==
  /\ cmd.pc = "freshness"
  /\ cmd' = [cmd EXCEPT !.pc = "resolve", !.hadGraph = TRUE,
               !.checks = Check("graph", CASE graph = "fresh" -> "pass"
                                           [] graph = "stale" -> "warn"
                                           [] OTHER           -> "fail")]
  /\ Quiet

DoctorResolves ==
  /\ cmd.pc = "resolve"
  /\ cmd' = [cmd EXCEPT !.pc = "resolved", !.source = Source]
  /\ Quiet

\* serverResolved: npx needs nothing on disk; a checkout's server was found a
\* moment ago and is looked for again.
DoctorLooksForServer ==
  /\ cmd.pc = "resolved"
  /\ cmd' = IF cmd.source = "local" /\ ~built
              THEN [cmd EXCEPT !.pc = "agents", !.checks = Check("resolve", "fail")]
              ELSE [cmd EXCEPT !.pc = IF cmd.skipProbe THEN "agents" ELSE "probe",
                      !.checks = Check("resolve", IF cmd.source = "npx"
                                                    THEN "pass" ELSE "warn")]
  /\ Quiet

DoctorHears ==
  /\ cmd.name = "doctor" /\ cmd.pc = "answer" /\ probe.settled
  /\ cmd' = [cmd EXCEPT !.pc = "agents", !.probed = TRUE,
               !.checks = Check("handshake",
                 IF probe.ok /\ (cmd.withGraph => probe.context = "ok")
                   THEN "pass" ELSE "fail")]
  /\ Quiet

\* Agents that are not connected warn, and so do launch targets that are gone.
DoctorReports ==
  /\ cmd.pc = "agents"
  /\ LET checks == Check("agents", IF Detected # {} /\ Detected \subseteq connected
                                     THEN "pass" ELSE "warn")
     IN  cmd' = [cmd EXCEPT !.pc = "done", !.checks = checks,
                            !.ok = \A id \in Checks : checks[id] # "fail"]
  /\ Quiet

DoctorStep == \/ DoctorLooks \/ DoctorWeighs \/ DoctorResolves
              \/ DoctorLooksForServer \/ DoctorHears \/ DoctorReports

-----------------------------------------------------------------------------
(* kawn setup                                                              *)

\* Without a graph the user is asked whether to scan.
SetupLooks ==
  /\ cmd.name = "setup" /\ cmd.pc = "start"
  /\ \/ GraphExists /\ cmd' = [cmd EXCEPT !.pc = "plan", !.hadGraph = TRUE]
     \/ ~GraphExists /\ \E pc \in {"scan", "plan"} : Goto(pc)
  /\ Quiet

SetupScans ==
  /\ \/ cmd.pc = "scan" /\ graph' = "torn" /\ Goto("scanning")
     \/ /\ cmd.pc = "scanning"
        /\ graph' = "fresh"
        /\ cmd' = [cmd EXCEPT !.pc = "plan", !.hadGraph = TRUE]
  /\ UNCHANGED <<probeVars, scanning, scans, edits, built, refusing,
                 agentVars, retrieved>>

\* planSetup, and the three ways to stop here: nobody to connect, nothing left
\* to write, and a user who says no.
SetupPlans ==
  /\ cmd.pc = "plan"
  /\ IF \A id \in Selected : id \in connected \ outdated /\ ~Blocked(id)
       THEN cmd' = [cmd EXCEPT !.pc = "done", !.ok = TRUE]
       ELSE Goto("apply") \/ Goto("done")
  /\ Quiet

\* applySetup detects and selects again.
SetupApplies ==
  /\ cmd.pc = "apply"
  /\ cmd' = [cmd EXCEPT !.pc = "install", !.todo = Selected]
  /\ Quiet

SetupInstalls ==
  /\ cmd.pc = "install"
  /\ \E id \in cmd.todo :
       /\ cmd' = [cmd EXCEPT !.todo = @ \ {id}, !.blocked = @ \/ Blocked(id)]
       /\ IF Blocked(id) THEN UNCHANGED agentVars
          ELSE /\ connected' = connected \cup {id}
               /\ outdated' = outdated \ {id}
               /\ disk' = disk \cup {getAdapter(id).file}
  /\ UNCHANGED <<probeVars, worldVars, retrieved>>

\* Only a selected agent that uses MCP gives a reason to probe.
SetupSkipsProbe ==
  /\ cmd.pc = "install" /\ cmd.todo = {}
  /\ Selected \cap McpAgents = {}
  /\ cmd' = [cmd EXCEPT !.pc = "done", !.ok = ~cmd.blocked]
  /\ Quiet

\* describeReport asks for the context if there was a graph at the beginning.
SetupReports ==
  /\ cmd.name = "setup" /\ cmd.pc = "answer" /\ probe.settled
  /\ cmd' = [cmd EXCEPT !.pc = "done", !.probed = TRUE,
               !.ok = /\ ~cmd.blocked
                      /\ probe.ok /\ (cmd.hadGraph => probe.context = "ok")]
  /\ Quiet

SetupStep == \/ SetupLooks \/ SetupScans \/ SetupPlans \/ SetupApplies
             \/ SetupInstalls \/ SetupSkipsProbe \/ SetupReports

Probes ==
  /\ \/ cmd.name = "doctor" /\ cmd.pc = "probe"
     \/ /\ cmd.name = "setup" /\ cmd.pc = "install" /\ cmd.todo = {}
        /\ Selected \cap McpAgents # {}
  /\ StartProbe

\* What the event loop has to deliver.
Delivers ==
  /\ Receive \/ TimesOut \/ LaunchFails \/ Reap
  /\ UNCHANGED <<cmd, worldVars, agentVars, retrieved>>

-----------------------------------------------------------------------------
(* The server that is probed, and the world                                *)

\* McpServer says when a graph answers; a server may also just fail.
ServerAnswers ==
  /\ stdin # <<>>
  /\ \E kind \in IF Head(stdin) < 3 THEN {"result", "bare", "error"}
                ELSE {"isError", "error"}
                       \cup (IF graph \in {"stale", "fresh"} THEN {"result"} ELSE {}) :
       /\ Answer(kind)
       /\ retrieved' = (retrieved \/ (Head(stdin) = 3 /\ kind = "result"))
  /\ UNCHANGED <<cmd, worldVars, agentVars>>

ServerEnds == ChildEnds /\ UNCHANGED <<cmd, worldVars, agentVars, retrieved>>

OtherScan ==
  /\ \/ scanning /\ graph' = "fresh" /\ scanning' = FALSE /\ UNCHANGED scans
     \/ /\ ~scanning /\ scans < MaxScans
        /\ graph' = "torn" /\ scanning' = TRUE /\ scans' = scans + 1
  /\ UNCHANGED <<probeVars, cmd, edits, built, refusing, agentVars, retrieved>>

Edit ==
  /\ edits < MaxEdits /\ edits' = edits + 1
  /\ graph = "fresh" /\ graph' = "stale"
  /\ UNCHANGED <<probeVars, cmd, scanning, scans, built, refusing, agentVars,
                 retrieved>>

\* A build of the checkout starts by removing dist.
Clean ==
  /\ built /\ built' = FALSE
  /\ UNCHANGED <<probeVars, cmd, graph, scanning, scans, edits, refusing,
                 agentVars, retrieved>>

-----------------------------------------------------------------------------

Ended == thrown \/ (cmd.pc = "done" /\ ~Handles)

CommandStep == ~thrown /\ (DoctorStep \/ SetupStep \/ Probes \/ Delivers)

Rest == Ended /\ UNCHANGED vars

Next == \/ CommandStep
        \/ ServerAnswers \/ ServerEnds
        \/ OtherScan \/ Edit \/ Clean
        \/ Rest

Spec == Init /\ [][Next]_vars

\* The event loop runs what is due, the timer included, and a process that is
\* killed ends.  No server is held to answer, and no scan to end.
FairSpec == /\ Spec
            /\ WF_vars(CommandStep)
            /\ WF_vars(child = "killed" /\ ServerEnds)

-----------------------------------------------------------------------------
(* Properties                                                              *)

\* A clean bill of health is earned: doctor calls a project healthy only if it had a graph
\* that could be read, and unless it was told to skip the probe, and setup a project with a
\* graph connected and verified, only after kawn_context has answered from a readable graph
\* in the course of the command.  The checks are spread over three looks at the graph and
\* three answers (checks.ts, setup.ts, mcpProbe.ts), with scans in between.
HealthyMeansRetrieved ==
  cmd.pc = "done" /\ cmd.ok =>
    /\ cmd.name = "doctor" => cmd.hadGraph /\ (cmd.skipProbe \/ retrieved)
    /\ cmd.name = "setup" /\ cmd.probed /\ (cmd.hadGraph \/ cmd.withGraph) => retrieved

\* A claim of mcpProbe.ts: whatever goes wrong is an answer, ok: false.
NeverThrows == ~thrown

\* Both commands come to an end, whatever the server does: it may be silent,
\* die between two answers, fail to start, or answer after the timer.  The
\* child, its pipes and the timer each keep the process alive until finish
\* has seen to them (mcpProbe.ts).
CommandEnds == <>Ended

=============================================================================

------------------------------ MODULE McpProbe -------------------------------
(***************************************************************************)
(* probeMcpServer: launch the MCP server as a child, ask it three things   *)
(* over its pipes, and settle one promise with what came of it.            *)
(*                                                                         *)
(* The answers, the timer and the end of the child race.  The promise is   *)
(* settled once, but neither the conversation nor the child stops there:   *)
(* an answer that comes late is still taken, and the next question is      *)
(* still written to a child that has been told to go.  A write to a pipe   *)
(* nobody reads any more is an 'error' of child.stdin, which nobody        *)
(* listens for: it ends the process (`thrown`).  Once the end of the child *)
(* has been noticed, node has closed the pipe and drops what is written.   *)
(***************************************************************************)
EXTENDS Naturals, Sequences

VARIABLES
  probe,     \* the promise and the closures around it
  timer,     \* setTimeout's
  child,     \* the process launched
  stdin,     \* the questions it has not read
  stdout,    \* its answers that have not been read
  thrown     \* an exception nobody catches

probeVars == <<probe, timer, child, stdin, stdout, thrown>>

\* What an answer may be: as it should, without the fields looked for, a
\* JSON-RPC error, or a tool's result with isError.
Replies == {"result", "bare", "error", "isError"}

\* tools/call follows only when a smoke query was asked for.
Idle == [pending |-> 0,           \* the id of the one question that is open
         smoke   |-> FALSE,
         proto   |-> FALSE,       \* protocolVersion was in the first answer
         tools   |-> FALSE,       \* the list of tools is not empty
         context |-> "unasked",   \* contextOk
         settled |-> FALSE,
         ok      |-> FALSE]

ProbeInit ==
  /\ probe = Idle
  /\ timer = "off"
  /\ child = "none"
  /\ stdin = <<>> /\ stdout = <<>>
  /\ thrown = FALSE

\* A fault: the server is left running.
FinishWithoutKill(p, ok) ==
  /\ probe' = IF probe.settled THEN p
              ELSE [p EXCEPT !.settled = TRUE, !.ok = ok]
  /\ timer' = IF probe.settled THEN timer ELSE "off"
  /\ UNCHANGED child

\* finish: the first to come settles the promise and kills the child.
Finish(p, ok) ==
  IF probe.settled
    THEN /\ probe' = p
         /\ UNCHANGED <<timer, child>>
    ELSE /\ probe' = [p EXCEPT !.settled = TRUE, !.ok = ok]
         /\ timer' = "off"
         /\ child' = IF child = "running" THEN "killed" ELSE child

\* rpc: what becomes of a write depends on the child.
Rpc(p, id) ==
  /\ probe' = [p EXCEPT !.pending = id]
  /\ stdin' = IF child \in {"running", "killed"} THEN Append(stdin, id) ELSE stdin
  /\ thrown' = (thrown \/ child = "dead")
  /\ UNCHANGED <<timer, child>>

\* The first question is written in the same turn as the launch.  A command
\* that cannot be launched says so in a later turn.
Launch(smoke) ==
  /\ child = "none"
  /\ child' \in {"running", "unlaunchable"}
  /\ probe' = [Idle EXCEPT !.smoke = smoke, !.pending = 1]
  /\ timer' = "set"
  /\ stdin' = IF child' = "running" THEN <<1>> ELSE <<>>
  /\ UNCHANGED <<stdout, thrown>>

LaunchFails ==
  /\ child = "unlaunchable"
  /\ child' = "reaped"
  /\ probe' = IF probe.settled THEN probe ELSE [probe EXCEPT !.settled = TRUE]
  /\ timer' = "off"
  /\ UNCHANGED <<stdin, stdout, thrown>>

TimesOut ==
  /\ timer = "set"
  /\ Finish(probe, FALSE)
  /\ UNCHANGED <<stdin, stdout, thrown>>

-----------------------------------------------------------------------------
(* The answers, each with what the conversation goes on to do              *)

Initialized(kind) ==
  IF kind = "error"
    THEN /\ Finish([probe EXCEPT !.pending = 0], FALSE)
         /\ UNCHANGED <<stdin, thrown>>
    ELSE Rpc([probe EXCEPT !.proto = kind = "result"], 2)

Concluded(p) ==
  /\ Finish(p, p.proto /\ p.tools /\ (p.smoke => p.context = "ok"))
  /\ UNCHANGED <<stdin, thrown>>

Listed(kind) ==
  LET p == [probe EXCEPT !.tools = kind = "result", !.pending = 0]
  IN  IF p.smoke THEN Rpc(p, 3) ELSE Concluded(p)

\* A fault: only a result's isError counts as a failure.
CalledOrError(kind) ==
  Concluded([probe EXCEPT !.pending = 0,
                          !.context = IF kind = "isError" THEN "failed" ELSE "ok"])

Called(kind) ==
  Concluded([probe EXCEPT !.pending = 0,
                          !.context = IF kind \in {"error", "isError"}
                                        THEN "failed" ELSE "ok"])

\* A line with another id, or with none, is passed over.
Receive ==
  /\ stdout # <<>>
  /\ stdout' = Tail(stdout)
  /\ LET m == Head(stdout)
     IN  CASE m.id # probe.pending -> UNCHANGED <<probe, timer, child, stdin, thrown>>
           [] m.id = 1 /\ probe.pending = 1 -> Initialized(m.kind)
           [] m.id = 2 /\ probe.pending = 2 -> Listed(m.kind)
           [] m.id = 3 /\ probe.pending = 3 -> Called(m.kind)

-----------------------------------------------------------------------------
(* The child: a server of src/packages/mcp, or whatever the command starts *)

Answer(kind) ==
  /\ child \in {"running", "killed"}
  /\ stdin # <<>>
  /\ stdout' = Append(stdout, [id |-> Head(stdin), kind |-> kind])
  /\ stdin' = Tail(stdin)
  /\ UNCHANGED <<probe, timer, child, thrown>>

\* Killed, or of its own.
ChildEnds ==
  /\ child \in {"running", "killed"}
  /\ child' = "dead"
  /\ stdin' = <<>>
  /\ UNCHANGED <<probe, timer, stdout, thrown>>

\* The end of the child reaches node, which closes its stdin.
Reap ==
  /\ child = "dead"
  /\ child' = "reaped"
  /\ UNCHANGED <<probe, timer, stdin, stdout, thrown>>

\* What keeps the event loop of the parent alive.
Handles == timer = "set" \/ child \notin {"none", "reaped"} \/ stdout # <<>>

=============================================================================

---------------------------- MODULE ChildSession ----------------------------
(***************************************************************************)
(* One agent session of the benchmark: the process runStreaming spawns,    *)
(* its hard timeout, what the adapter has understood of its output so far, *)
(* and the verdict the adapter draws once the streams are closed.          *)
(*                                                                         *)
(* A parser is a fold over the lines, so what is kept of a line is what    *)
(* the fold keeps of it.  Tools, tokens and wording are left out: nothing  *)
(* of the session's verdict depends on them.  A command the agent started  *)
(* may outlive it (a helper); such a helper may hold the stdout it         *)
(* inherited, and then Node does not report 'close'.                       *)
(***************************************************************************)
EXTENDS Naturals

CONSTANTS
  KillsTree,      \* Windows: taskkill /T; elsewhere only the child is killed
  HelpersHold     \* a helper may hold the agent's stdout open

VARIABLES
  child,          \* the process: "none", "running", or how it ended
  helper,         \* a process it started: "none", "holding" or "detached"
  timer,          \* the timeout: "off", "armed" or "fired"
  parsed          \* what parseClaudeLines or parseCodexLines keeps

childVars == <<child, helper, timer, parsed>>

Agents == {"claude", "codex"}
Ended == {"exit0", "exit1", "killed", "unspawned"}

\* final is claude's last result event; error, answered and sawAny are codex's.
Unread == [final |-> "none", sawAny |-> FALSE, answered |-> FALSE, error |-> "none"]

\* The events that bear on the verdict, and the tool events that do not.
Says(agent) == IF agent = "claude" THEN {"tool", "ok", "error", "auth"}
               ELSE {"tool", "answer", "error", "auth"}

\* The last result wins; a failed turn does not unsay the answer before it.
parseClaudeLine(p, e) == IF e = "tool" THEN p ELSE [p EXCEPT !.final = e]

parseCodexLine(p, e) ==
  [p EXCEPT !.sawAny = TRUE,
            !.answered = @ \/ e = "answer",
            !.error = IF e \in {"error", "auth"} THEN e ELSE @]

parseLine(agent, p, e) ==
  IF agent = "claude" THEN parseClaudeLine(p, e) ELSE parseCodexLine(p, e)

\* The verdict, its tests in the order the adapters make them.
claudeVerdict ==
  CASE timer = "fired" -> "timed out"
    [] parsed.final = "auth" -> "auth"
    [] parsed.final = "none" -> "no result"
    [] OTHER -> parsed.final

codexVerdict ==
  CASE timer = "fired" -> "timed out"
    [] ~parsed.sawAny -> "no result"
    [] parsed.error = "auth" -> "auth"
    [] child # "exit0" /\ ~parsed.answered -> "error"
    [] OTHER -> "ok"

Verdict(agent) == IF agent = "claude" THEN claudeVerdict ELSE codexVerdict
-----------------------------------------------------------------------------

ChildInit == /\ child = "none"
             /\ helper = "none"
             /\ timer = "off"
             /\ parsed = Unread

Spawn == /\ child' = "running"
         /\ timer' = "armed"
         /\ parsed' = Unread
         /\ helper' = "none"

\* The 'error' event: finish(null) at once.
SpawnFails == /\ child = "running"
              /\ parsed = Unread
              /\ helper = "none"
              /\ child' = "unspawned"
              /\ UNCHANGED <<helper, timer, parsed>>

Prints(agent, e) == /\ child = "running"
                    /\ e \in Says(agent)
                    /\ parsed' = parseLine(agent, parsed, e)
                    /\ UNCHANGED <<child, helper, timer>>

\* Codex runs shell commands, and nothing keeps Claude from doing so.
StartsHelper ==
  /\ child = "running"
  /\ helper = "none"
  /\ helper' \in {"detached"} \cup (IF HelpersHold THEN {"holding"} ELSE {})
  /\ UNCHANGED <<child, timer, parsed>>

Exits == /\ child = "running"
         /\ child' \in {"exit0", "exit1"}
         /\ UNCHANGED <<helper, timer, parsed>>

\* A fault: the timer only notes that time is up.
TimesOutOnly ==
  /\ timer = "armed"
  /\ child \in {"running"} \cup Ended
  /\ timer' = "fired"
  /\ UNCHANGED <<child, helper, parsed>>

\* The timer kills the child, and may also fire after it has ended but before
\* its streams are closed.
TimesOut ==
  /\ timer = "armed"
  /\ child \in {"running"} \cup Ended
  /\ timer' = "fired"
  /\ child' = IF child = "running" THEN "killed" ELSE child
  /\ helper' = IF KillsTree /\ child = "running" THEN "none" ELSE helper
  /\ UNCHANGED parsed

HelperEnds == /\ helper # "none"
              /\ helper' = "none"
              /\ UNCHANGED <<child, timer, parsed>>

\* 'close' comes when the child has ended and nobody holds its streams.
Closed == /\ child \in Ended
          /\ helper # "holding"

\* finish: the timer is cleared and the promise resolved.
Finish == /\ Closed
          /\ timer' = "off"
          /\ child' = "none"
          /\ parsed' = Unread
          /\ UNCHANGED helper
=============================================================================

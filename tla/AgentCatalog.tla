---------------------------- MODULE AgentCatalog ----------------------------
(***************************************************************************)
(* The agents kawn can be set up for, an adapter each, and what an adapter *)
(* makes of a project before anything is written: whether its agent is in  *)
(* use here, whether kawn is connected to it already, and what it refuses. *)
(*                                                                         *)
(* An adapter either merges an entry into a file of the agent's (kind      *)
(* "mcp") or owns one file under .kawn/.  Paths are names; descriptions,   *)
(* links and usage notes are left out.  What happens to the files is       *)
(* AgentConfig's.                                                          *)
(***************************************************************************)
LOCAL INSTANCE Naturals
LOCAL INSTANCE Sequences
LOCAL INSTANCE FiniteSets

AgentId == {"claude", "codex", "cursor", "copilot", "gemini", "aider",
            "local", "generic"}

AgentKind == {"mcp", "context-file", "export", "local-llm"}

\* slashCommands is a capability no adapter has.
Capability == {"mcp", "slashCommands", "contextFiles", "promptExport"}

\* signals: what shows that the agent is used here, its file apart.
AgentAdapter ==
  [id : AgentId, kind : AgentKind, supports : SUBSET Capability,
   autoSelectable : BOOLEAN, file : STRING, signals : SUBSET STRING]

-----------------------------------------------------------------------------
(* Adapters that merge                                                     *)

Merging(id, file, signals) ==
  [id |-> id, kind |-> "mcp", supports |-> {"mcp"}, autoSelectable |-> TRUE,
   file |-> file, signals |-> signals]

claude == Merging("claude", ".mcp.json", {".claude", "CLAUDE.md"})
codex  == Merging("codex", ".codex/config.toml", {".codex", "AGENTS.md"})
cursor == Merging("cursor", ".cursor/mcp.json", {".cursor"})
gemini == Merging("gemini", ".gemini/settings.json", {".gemini", "GEMINI.md"})

\* .vscode alone is any project of VS Code, and is no sign of Copilot.
copilot == Merging("copilot", ".vscode/mcp.json",
                   {".github/copilot-instructions.md", ".vscode/mcp.json"})

-----------------------------------------------------------------------------
(* Adapters that own                                                       *)

Owning(id, kind, supports, autoSelectable, file, signals) ==
  [id |-> id, kind |-> kind, supports |-> supports,
   autoSelectable |-> autoSelectable, file |-> file, signals |-> signals]

aider   == Owning("aider", "context-file", {"contextFiles", "promptExport"}, TRUE,
                  ".kawn/agent-context/kawn-context.md",
                  {".aider.conf.yml", ".aider.conf.yaml",
                   ".aider.chat.history.md", ".aider.input.history"})
generic == Owning("generic", "export", {"contextFiles", "promptExport"}, FALSE,
                  ".kawn/agent-context/USING-KAWN.md", {})
local   == Owning("local", "local-llm", {}, FALSE, ".kawn/local-llm.json", {})

-----------------------------------------------------------------------------
(* The registry                                                            *)

ADAPTERS == <<claude, codex, cursor, copilot, gemini, aider, generic, local>>

getAdapter(id) ==
  ADAPTERS[CHOOSE i \in DOMAIN ADAPTERS : ADAPTERS[i].id = id]

AUTO_AGENT_IDS == {id \in AgentId : getAdapter(id).autoSelectable}

McpAgents == {id \in AgentId : getAdapter(id).kind = "mcp"}

-----------------------------------------------------------------------------
(* detect and plan                                                         *)

\* What is there of disk, the paths of the project, that speaks of the agent.
Evidence(id, disk) == ({getAdapter(id).file} \cup getAdapter(id).signals) \cap disk

\* An entry of kawn's in the file, or just the file if it is kawn's own.
Installed(id, disk, registered) ==
  /\ getAdapter(id).file \in disk
  /\ id \in McpAgents => id \in registered

\* detectAgents: the agents used here.  A connection is not without its file, so
\* those kawn is connected to are among them.
DetectAgents(disk) == {id \in AgentId : Evidence(id, disk) # {}}

\* resolveSelection
Selection(selector, disk) ==
  CASE selector = "all"  -> AUTO_AGENT_IDS
    [] selector = "auto" -> DetectAgents(disk) \cap AUTO_AGENT_IDS
    [] OTHER             -> {selector}

\* An adapter that owns its file refuses nothing but a missing --provider.
NeedsProvider(id) == id = "local"

-----------------------------------------------------------------------------
(* What the rest of kawn relies on                                         *)

\* Every id names one adapter.  No two adapters write the same file, on which
\* setup, disconnect and the book of integrations count (AgentConfig): they
\* know a file by its agent.  Only an agent that is shown to be used by
\* something other than kawn's own file is ever set up without being named.
ASSUME CatalogIsConsistent ==
  /\ ADAPTERS \in Seq(AgentAdapter)
  /\ \A id \in AgentId : getAdapter(id).id = id
  /\ \A i, j \in DOMAIN ADAPTERS :
        i # j => /\ ADAPTERS[i].id # ADAPTERS[j].id
                 /\ ADAPTERS[i].file # ADAPTERS[j].file
                 /\ ADAPTERS[i].file \notin ADAPTERS[j].signals
  /\ \A id \in AgentId :
        LET a == getAdapter(id)
        IN /\ a.kind = "mcp" <=> "mcp" \in a.supports
           /\ a.autoSelectable <=> a.signals \ {a.file} # {}
=============================================================================

------------------------------ MODULE MCDoctor -------------------------------
EXTENDS Doctor

\* The file of an agent that uses MCP, another sign of it, and the file of an
\* adapter that is only ever named.
MCPaths == {".mcp.json", "CLAUDE.md", ".kawn/local-llm.json"}
MCSelectors == {"auto", "local"}

=============================================================================

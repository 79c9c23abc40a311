---------------------------- MODULE MCMcpServer -----------------------------
EXTENDS McpServer, TLC

\* Two commits differ only in what they hold.
Symmetry == Permutations(Commits)
=============================================================================

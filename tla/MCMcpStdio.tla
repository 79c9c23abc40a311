----------------------------- MODULE MCMcpStdio ------------------------------
EXTENDS McpStdio, TLC
=============================================================================

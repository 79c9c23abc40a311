---------------------------- MODULE MCGraphStore ----------------------------
EXTENDS GraphStore, TLC

\* Two commits differ only in what they hold, and two processes in how far
\* they are.
Symmetry == Permutations(Commits) \cup Permutations(Scanners)
=============================================================================

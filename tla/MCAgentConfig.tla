--------------------------- MODULE MCAgentConfig ----------------------------
EXTENDS AgentConfig, TomlTable, TLC

CONSTANTS r1, bare

Text(kawn, legacy, rest) == [kawn |-> kawn, legacy |-> legacy, rest |-> rest]

\* A file of the user's, one with a foreign entry and one of kawn's under its
\* former name, one where the present name is taken by an entry kawn does not
\* edit (Codex), and two that are no configuration (JSON).  What is in a file
\* that kawn owns makes no difference to it.
MCUserFiles ==
  [a \in Agents |->
     IF a \in Owned THEN {Text(None, FALSE, r1)}
     ELSE {Text(None, FALSE, r1), Text(Foreign, TRUE, bare),
           Text(Unmanaged, TRUE, bare), Garbled, Alien}]

\* Codex' file is edited as text, and every text of up to four lines the way
\* AgentConfig says.
ASSUME TextEditsMerge ==
  \A n \in 1..4 : \A text \in [1..n -> Lines] : EditsMerge(text)

\* Commands run the same code, and launch entries are only compared.
Symmetry == Permutations(Procs) \cup Permutations(Launches)
=============================================================================

--------------------------- MODULE MCBenchRunner ---------------------------
(***************************************************************************)
(* Three campaigns: a task to edit, with both agents; one to read and one  *)
(* to edit and test, with Claude; and two projects to read, with Codex,    *)
(* without a gold set.  A session may change a gold file or the one behind *)
(* a link, or add another, which the tests may too.                        *)
(***************************************************************************)
EXTENDS BenchRunner

Edits == [mode |-> "e2e", gold |-> {"gold"}, tested |-> FALSE]
Reads == [mode |-> "retrieval", gold |-> {}, tested |-> FALSE]
Tested == [Edits EXCEPT !.tested = TRUE]

MCCampaigns == {[agents |-> <<"claude", "codex">>, projects |-> <<<<Edits>>>>],
                [agents |-> <<"claude">>, projects |-> <<<<Reads, Tested>>>>],
                [agents |-> <<"codex">>, projects |-> <<<<Reads>>, <<Reads>>>>]}
=============================================================================

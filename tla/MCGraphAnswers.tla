--------------------------- MODULE MCGraphAnswers ---------------------------
(***************************************************************************)
(* Seven nodes: a function with its file's other route, a test that calls   *)
(* it, a table with a key into itself, a general document that a plug-in    *)
(* has found without a file, a file that is a test, and a component of the  *)
(* visual layer between the document and that file.  One of the files is    *)
(* called "M", as a status of git is.                                       *)
(***************************************************************************)
EXTENDS GraphAnswers

MCIds == 1..7

Plain == [type |-> "function", layer |-> "code", path |-> "a.ts", label |-> 100, tail |-> 200,
          auth |-> FALSE, tenant |-> FALSE, writes |-> FALSE, whole |-> {}, part |-> {},
          across |-> {}, named |-> {}, generic |-> FALSE, lines |-> 0, chars |-> 20]

MCInfo ==
  <<[Plain EXCEPT !.type = "file", !.label = 101, !.whole = {"auth"}],
    [Plain EXCEPT !.label = 102, !.tail = 202, !.auth = TRUE, !.writes = TRUE, !.lines = 45,
                  !.whole = {"auth", "token"}, !.across = {"authtoken"}, !.named = {"authtoken"}],
    [Plain EXCEPT !.type = "test", !.layer = "test", !.path = "t.ts", !.label = 102, !.tail = 203,
                  !.part = {"token"}],
    [Plain EXCEPT !.type = "table", !.layer = "data", !.path = "db.sql", !.label = 104,
                  !.tenant = TRUE, !.named = {"token"}, !.part = {"token"}],
    [Plain EXCEPT !.type = "doc", !.layer = "docs", !.path = NoPath, !.label = 105,
                  !.generic = TRUE, !.whole = {"auth"}, !.lines = 1],
    [Plain EXCEPT !.type = "file", !.layer = "test", !.path = "M", !.label = 106],
    [Plain EXCEPT !.type = "component", !.layer = "visual", !.path = "t.ts", !.label = 107]>>

E(type, from, to) == [type |-> type, from |-> from, to |-> to]

MCCandidates ==
  {E("calls", 3, 2), E("calls", 2, 6), E("imports", 6, 1), E("references", 2, 4),
   E("references", 4, 4), E("mentions", 5, 2), E("defines", 1, 2), E("imports", 1, 6),
   E("references", 5, 7), E("references", 7, 6)}

MCTasks == {{}, {"auth"}, {"token", "tables"}, {"auth", "token", "guide"}, {"authtoken"}}
MCBudgets == {0, 100, 700, 1500}

Changed(path, status, old) == [path |-> path, status |-> status, old |-> old]
MCGitReports ==
  {[entries |-> <<Changed(p, "M", NoNode)>>, untracked |-> <<"new.ts">>]
     : p \in {"a.ts", "M", "db.sql"}}
  \cup {[entries |-> <<Changed("new.ts", "R", "a.ts"), Changed("t.ts", "T", NoNode)>>, untracked |-> <<>>],
        [entries |-> <<Changed("M", "C", "a.ts"), Changed("db.sql", "D", NoNode)>>, untracked |-> <<"db.sql">>],
        [entries |-> <<Changed("new.ts", "R", "M"), Changed("README.md", "A", NoNode)>>, untracked |-> <<>>]}

MCPathOrder == <<"M", "README.md", "a.ts", "db.sql", "new.ts", "t.ts">>
\* A definition is where the defined is, a mention nowhere, and two calls on
\* one line are in one place.
MCPlace == [e \in Edge |-> CASE e.type = "defines" -> <<"node", e.to>>
                           [] e.type = "mentions" -> NoPath
                           [] OTHER -> <<"edge", e.type>>]
MCDataWords == {"tables"}
MCTestWords == {"spec"}
MCDocWords == {"guide"}
=============================================================================

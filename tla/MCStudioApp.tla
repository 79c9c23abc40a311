---------------------------- MODULE MCStudioApp ----------------------------
(***************************************************************************)
(* Two questions, one of them refused by the server, two ports, and a      *)
(* benchmark directory with a single run, a newer one, and a broken merged *)
(* campaign.                                                               *)
(***************************************************************************)
EXTENDS StudioApp

MCTasks == {"task", "long"}
MCLength(q) == IF q = "long" THEN MAX_QUERY_LEN + 1 ELSE 4
MCPorts == <<1, 2>>
MCReports == {[place |-> 1, merged |-> FALSE, mtime |-> 1, content |-> "legacy"],
              [place |-> 2, merged |-> TRUE, mtime |-> 2, content |-> "torn"]}
=============================================================================

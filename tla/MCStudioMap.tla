---------------------------- MODULE MCStudioMap ----------------------------
(***************************************************************************)
(* Ten nodes in three layers of which one dominates, a hub, a node without *)
(* an edge, and two inputs for the canvas that are too large to lay out in *)
(* place.                                                                  *)
(***************************************************************************)
EXTENDS StudioMap

MCLayers == <<"code", "data", "test">>
MCNode(l, t, terms) == [layer |-> l, type |-> t, terms |-> terms]
MCNodes == <<MCNode("code", "function", {}), MCNode("code", "function", {}),
             MCNode("code", "function", {}), MCNode("code", "function", {"pay"}),
             MCNode("code", "function", {"pay"}), MCNode("code", "function", {"pay"}),
             MCNode("data", "function", {}), MCNode("data", "function", {"pay"}),
             MCNode("test", "function", {}), MCNode("test", "function", {})>>
MCEdge(a, b) == [from |-> a, to |-> b, type |-> "calls"]
MCEdges == {MCEdge(1, 4), MCEdge(2, 4), MCEdge(3, 4), MCEdge(4, 5), MCEdge(5, 8),
            MCEdge(9, 4), MCEdge(10, 6)}
MCInputs == {"small", "large", "larger"}
MCLarge == {"large", "larger"}
=============================================================================

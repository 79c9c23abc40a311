------------------------- MODULE MCLegacyMigration -------------------------
(***************************************************************************)
(* A .athar/ with all three files, whose config already has the new key,    *)
(* and a subdirectory.                                                      *)
(***************************************************************************)
EXTENDS LegacyMigration

MCNames == <<"cache", "config.json", "graph.json", "manifest.json">>
MCLegacy == [n \in {"cache", "config.json", "graph.json", "manifest.json"} |->
               CASE n = "cache"         -> Directory
                 [] n = "config.json"   -> [of |-> 0, key |-> "kawnVersion"]
                 [] n = "graph.json"    -> [of |-> 0, key |-> "none"]
                 [] n = "manifest.json" -> [of |-> 0, key |-> "atharVersion"]]
=============================================================================

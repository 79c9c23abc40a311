--------------------------- MODULE ContextProtocol ---------------------------
(***************************************************************************)
(* The Universal Context Pack: how a pack crosses to an agent               *)
(* (context-protocol/fromContextPack.ts), what a consumer checks before it  *)
(* trusts one (validate.ts), and how the two sides agree beforehand         *)
(* (negotiate.ts, version.ts, capabilities.ts).                             *)
(*                                                                         *)
(* Malformed stands for any value of the wrong type, and for one that is    *)
(* missing; a version is a pair of numbers.  What only people read (task,   *)
(* provenance, title, label, why, location, message) is one field, text, of *)
(* the record it is in, and rank is its two numbers.                        *)
(***************************************************************************)
EXTENDS ContextPack

CONSTANTS
  NoPath,       \* the empty path: a plug-in may leave a node without a file
  Place,        \* [Edge -> the evidence the scanner gave the edge; NoPath: none, or no file]
  Malformed     \* a value of the wrong type

CONTEXT_PROTOCOL_VERSION == <<1, 0>>

\* The same major version; a string that is no version agrees with nothing.
isProtocolCompatible(produced, consumer) ==
  produced # Malformed /\ consumer # Malformed /\ produced[1] = consumer[1]

NodeKinds == {"file", "symbol", "function", "class", "route", "table", "migration", "doc",
              "section", "decision", "image", "diagram", "package", "test", "env"}
Layers == {"code", "data", "config", "docs", "visual", "decision", "test", "runtime"}

\* No scanner puts a node in the layers of decisions and of what runs.
ASSUME LayersAssumption == \A n \in Ids : Info[n].layer \in Layers \ {"decision", "runtime"}

Flags == {"evidence", "explanations", "ranking", "tokenBudget", "layeredSections",
          "deterministic", "noLlm"}

KAWN_PROTOCOL_CAPABILITIES ==
  [protocolVersion |-> CONTEXT_PROTOCOL_VERSION, flags |-> [f \in Flags |-> TRUE],
   nodeKinds |-> NodeKinds, layers |-> Layers]

layerForNodeType(type) ==
  CASE type \in {"table", "migration"} -> "data"
    [] type \in {"doc", "section"} -> "docs"
    [] type \in {"image", "diagram"} -> "visual"
    [] type = "decision" -> "decision"
    [] type = "package" -> "config"
    [] type = "test" -> "test"
    [] OTHER -> "code"

-----------------------------------------------------------------------------
(* Producing                                                               *)

\* The item's own place, if its node has a file, then the places of the edges
\* that touch it, in the order of their ids: none twice, none without a file,
\* and no more than 1 + max in all.
EvidenceOf(g, withGraph, n, max) ==
  LET edges == IF withGraph THEN g.edges ELSE <<>>
      shown[i \in 0..Len(edges)] ==
        IF i = 0 THEN IF Info[n].path = NoPath THEN <<>> ELSE <<<<"node", n>>>>
        ELSE LET before == shown[i - 1]
                 place  == Place[edges[i]]
             IN IF \/ n \notin {edges[i].from, edges[i].to} \/ place = NoPath
                   \/ Len(before) >= 1 + max \/ place \in ToSet(before)
                THEN before ELSE Append(before, place)
  IN shown[Len(edges)]

UniversalItem(g, withGraph, r, position, max) ==
  [id |-> r.id, text |-> "text", kind |-> Info[r.id].type,
   layer |-> IF withGraph /\ r.id \in g.ids THEN Info[r.id].layer
             ELSE layerForNodeType(Info[r.id].type),
   position |-> position, score |-> r.score, evidence |-> EvidenceOf(g, withGraph, r.id, max),
   tokensEstimate |-> estimateTokens(r.id)]

\* A fault: an item is placed by its rank in the whole pack, from nought.
UniversalSectionFromZero(g, withGraph, id, role, items, max) ==
  [id |-> id, text |-> "text", role |-> role,
   items |-> [i \in DOMAIN items |-> UniversalItem(g, withGraph, items[i], i - 1, max)]]

UniversalSection(g, withGraph, id, role, items, max) ==
  [id |-> id, text |-> "text", role |-> role,
   items |-> [i \in DOMAIN items |-> UniversalItem(g, withGraph, items[i], i, max)]]

\* withGraph: whether the caller hands over the graph the pack came from.
toUniversalPack(pack, g, withGraph, max) ==
  LET section(id, role, items) == UniversalSection(g, withGraph, id, role, items, max)
  IN [protocolVersion |-> CONTEXT_PROTOCOL_VERSION, text |-> "text",
      mode |-> pack.mode, confidence |-> pack.confidence,
      budget |-> [limit |-> pack.budget, used |-> pack.tokensUsed],
      capabilities |-> KAWN_PROTOCOL_CAPABILITIES,
      sections |-> <<section("must_read", "primary", pack.mustRead),
                     section("related_docs", "supporting", pack.relatedDocs),
                     section("tables", "data", pack.tables),
                     section("tests", "verification", pack.tests)>>,
      risks |-> pack.risks, excluded |-> pack.excluded]

\* What a pack is made of.
Evidence == ({<<"node", n>> : n \in Ids} \cup {Place[e] : e \in Edge}) \ {NoPath}
UcpItem == [id : Ids, text : {"text"}, kind : NodeKinds, layer : Layers, position : Nat, score : Int,
            evidence : Seq(Evidence), tokensEstimate : Nat]
SectionIds == {"must_read", "related_docs", "tables", "tests"}
Roles == {"primary", "supporting", "data", "verification"}
UcpSection == [id : SectionIds, text : {"text"}, role : Roles, items : Seq(UcpItem)]
RiskKinds == {"auth", "tenant-isolation", "data-write", "referential-integrity", "schema"}
UcpRisk == [level : {"high", "medium"}, node : Ids \cup {NoNode}, kind : RiskKinds]

ASSUME PlacesAssumption == \A n \in Ids : <<"node", n>> # NoPath

ASSUME MalformedAssumption ==
  /\ Malformed \notin {"text", "high", "medium"} \cup NodeKinds \cup Layers \cup Modes
                        \cup SectionIds \cup Roles \cup RiskKinds
  /\ Malformed \notin Int /\ Malformed \notin BOOLEAN /\ Malformed \notin Ids \cup {NoNode}
  /\ Malformed \notin Int \X Int /\ Malformed \notin [limit : Int, used : Int]
  /\ Malformed \notin Evidence /\ Malformed \notin Seq(Evidence)
  /\ Malformed \notin Seq(UcpItem) /\ Malformed \notin Seq(UcpSection)
  /\ Malformed \notin Seq(UcpRisk) /\ Malformed \notin Seq(Ids)
  /\ Malformed # KAWN_PROTOCOL_CAPABILITIES /\ Malformed # KAWN_PROTOCOL_CAPABILITIES.flags
  /\ Malformed # NodeKinds /\ Malformed # Layers

-----------------------------------------------------------------------------
(* Consuming                                                               *)

Typed(x, fields) == \A f \in fields : x[f] # Malformed

validateItem(item) ==
  /\ Typed(item, {"id", "text", "kind", "layer", "position", "score", "evidence", "tokensEstimate"})
  /\ item.kind \in NodeKinds /\ item.layer \in Layers
  /\ item.tokensEstimate >= 0 /\ item.position >= 1
  /\ item.evidence # <<>> /\ \A i \in DOMAIN item.evidence : item.evidence[i] # Malformed

validateSection(s) ==
  /\ Typed(s, {"id", "text", "role", "items"})
  /\ s.role \in Roles /\ \A i \in DOMAIN s.items : validateItem(s.items[i])

validateCapabilities(c, packVersion) ==
  /\ Typed(c, {"protocolVersion", "flags", "nodeKinds", "layers"})
  /\ isProtocolCompatible(c.protocolVersion, packVersion)
  /\ \A f \in Flags : c.flags[f] # Malformed

validateRisk(risk) ==
  /\ Typed(risk, {"level", "kind", "node"})
  /\ risk.level \in {"low", "medium", "high"}

validateUniversalPack(p) ==
  /\ Typed(p, {"protocolVersion", "text", "mode", "confidence", "budget", "capabilities",
               "sections", "risks", "excluded"})
  /\ isProtocolCompatible(p.protocolVersion, CONTEXT_PROTOCOL_VERSION)
  /\ p.mode \in Modes /\ p.confidence \in 0..100
  /\ Typed(p.budget, {"limit", "used"}) /\ p.budget.limit >= 0 /\ p.budget.used >= 0
  /\ validateCapabilities(p.capabilities, p.protocolVersion)
  /\ \A i \in DOMAIN p.sections : validateSection(p.sections[i])
  /\ \A i, j \in DOMAIN p.sections : p.sections[i].id = p.sections[j].id => i = j
  /\ \A i \in DOMAIN p.risks : validateRisk(p.risks[i])
  /\ \A i \in DOMAIN p.excluded : p.excluded[i] # Malformed

\* needs: [require : set of flags, nodeKinds, layers : a set, or NoNode when
\* the consumer takes anything].
negotiate(produced, needs, consumerVersion) ==
  /\ isProtocolCompatible(produced.protocolVersion, consumerVersion)
  /\ \A f \in needs.require : produced.flags[f]
  /\ needs.nodeKinds = NoNode \/ produced.nodeKinds \subseteq needs.nodeKinds
  /\ needs.layers = NoNode \/ produced.layers \subseteq needs.layers
=============================================================================

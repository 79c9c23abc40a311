---------------------------- MODULE Doctor_proofs ----------------------------
(***************************************************************************)
(* Proofs about `kawn doctor` and `kawn setup`, for any agents and any     *)
(* number of scans and edits: a clean bill of health is earned.            *)
(*                                                                         *)
(* Three looks at the graph and three answers are spread over the command. *)
(* What holds them together is that a graph, once there, may be torn or    *)
(* stale but is never missing again, so the probe of a project that had    *)
(* one asks for context; and that a server can only have told the truth.   *)
(***************************************************************************)
EXTENDS Doctor, TLAPS

DoctorPlaces == {"start", "freshness", "resolve", "resolved", "probe", "answer", "agents", "done"}
SetupPlaces == {"start", "scan", "scanning", "plan", "apply", "install", "answer", "done"}
Verdicts == {"none", "pass", "warn", "fail"}

Commands ==
  [name : {"doctor", "setup"}, selector : Selectors \cup {"none"}, provider : BOOLEAN,
   skipProbe : BOOLEAN,
   pc : DoctorPlaces \cup SetupPlaces, source : {"none", "local", "npx"},
   checks : [Checks -> Verdicts], hadGraph : BOOLEAN, withGraph : BOOLEAN, probed : BOOLEAN,
   todo : SUBSET AgentId, blocked : BOOLEAN, ok : BOOLEAN]

Placed(c) == /\ c.name = "doctor" => c.pc \in DoctorPlaces
             /\ c.name = "setup" => c.pc \in SetupPlaces /\ c.selector \in Selectors

Ids == {1, 2, 3}
ProbeStates ==
  [pending : Ids \cup {0}, smoke : BOOLEAN, proto : BOOLEAN, tools : BOOLEAN,
   context : {"unasked", "ok", "failed"}, settled : BOOLEAN, ok : BOOLEAN]

TypeInv ==
  /\ cmd \in Commands
  /\ Placed(cmd)
  /\ graph \in {"missing", "torn", "stale", "fresh"}
  /\ built \in BOOLEAN
  /\ probe \in ProbeStates
  /\ stdin \in Seq(Ids)
  /\ stdout \in Seq([id : Ids, kind : Replies])
  /\ retrieved \in BOOLEAN

\* What the answers on their way, and those taken, say of the graph.
AnswerInv ==
  /\ \A i \in 1..Len(stdout) :
        stdout[i].id = 3 => stdout[i].kind \in {"error", "isError"} \/ retrieved
  /\ probe.context = "ok" => retrieved
  /\ probe.ok => probe.pending = 0 /\ (probe.smoke => probe.context = "ok")

\* What the command knows of the graph: a project that had one has one.
GraphInv ==
  /\ cmd.hadGraph \/ cmd.pc = "freshness" => graph # "missing"
  /\ (cmd.name = "doctor" /\ cmd.pc \notin {"start", "freshness", "done"}) =>
        (cmd.hadGraph \/ cmd.checks["graph"] = "fail")
  /\ cmd.pc = "answer" =>
        /\ probe.smoke = cmd.withGraph
        /\ cmd.name = "doctor" => (cmd.withGraph \/ cmd.checks["graph"] = "fail")
  /\ cmd.pc \notin {"agents", "done"} => ~cmd.probed

\* What the report may say.
VerdictInv ==
  /\ cmd.pc = "agents" => \/ \E id \in Checks \ {"agents"} : cmd.checks[id] = "fail"
                          \/ cmd.skipProbe \/ retrieved
  /\ HealthyMeansRetrieved

IInv == TypeInv /\ AnswerInv /\ GraphInv /\ VerdictInv

-----------------------------------------------------------------------------
(* The conversation.                                                       *)

\* The type of the conversation alone, which the command does not touch.
ProbeTypeInv == /\ probe \in ProbeStates
                /\ stdin \in Seq(Ids)
                /\ stdout \in Seq([id : Ids, kind : Replies])

\* What a step of the conversation must keep, and must not do.
LEMMA ConversationKeeps ==
  ASSUME IInv, ProbeTypeInv', AnswerInv', retrieved => retrieved', retrieved' \in BOOLEAN,
         probe'.smoke = probe.smoke, UNCHANGED <<cmd, graph, built>>
  PROVE  IInv'
<1>1. TypeInv'
  BY DEF IInv, TypeInv, ProbeTypeInv
<1>2. GraphInv'
  BY DEF IInv, GraphInv
<1>3. VerdictInv'
  BY DEF IInv, VerdictInv, HealthyMeansRetrieved
<1> QED BY <1>1, <1>2, <1>3 DEF IInv

\* The promise settles with p's answers, or p goes on after it has.
LEMMA FinishKeeps ==
  ASSUME IInv, NEW p \in ProbeStates, NEW ok \in BOOLEAN, Finish(p, ok),
         p.smoke = probe.smoke, p.settled = probe.settled, p.ok = probe.ok,
         p.context = "ok" => retrieved,
         (ok \/ p.ok) => p.pending = 0 /\ (p.smoke => p.context = "ok"),
         UNCHANGED <<stdin, retrieved>>,
         stdout' = stdout \/ (stdout # <<>> /\ stdout' = Tail(stdout)),
         UNCHANGED <<cmd, graph, built>>
  PROVE  IInv'
<1>1. probe' = p \/ probe' = [p EXCEPT !.settled = TRUE, !.ok = ok]
  BY DEF Finish
<1>2. stdout' \in Seq([id : Ids, kind : Replies])
  BY DEF IInv, TypeInv
<1>3. ProbeTypeInv'
  BY <1>1, <1>2 DEF ProbeTypeInv, ProbeStates, IInv, TypeInv
<1>4. \A i \in 1..Len(stdout') : stdout'[i].id = 3 =>
        stdout'[i].kind \in {"error", "isError"} \/ retrieved
  <2>1. CASE stdout' = stdout
    BY <2>1 DEF IInv, AnswerInv
  <2>2. CASE stdout # <<>> /\ stdout' = Tail(stdout)
    <3>1. \A i \in 1..Len(stdout') : i + 1 \in 1..Len(stdout) /\ stdout'[i] = stdout[i + 1]
      BY <2>2 DEF IInv, TypeInv
    <3> QED BY <3>1 DEF IInv, AnswerInv
  <2> QED BY <2>1, <2>2
<1>5. AnswerInv'
  BY <1>1, <1>4 DEF AnswerInv, ProbeStates
<1>6. probe'.smoke = probe.smoke /\ retrieved' \in BOOLEAN
  BY <1>1 DEF ProbeStates, IInv, TypeInv
<1> QED BY <1>3, <1>5, <1>6, ConversationKeeps

\* The next question is written.
LEMMA RpcKeeps ==
  ASSUME IInv, NEW p \in ProbeStates, NEW id \in Ids, Rpc(p, id),
         p.smoke = probe.smoke, ~p.ok, p.context = "ok" => retrieved,
         UNCHANGED retrieved, stdout # <<>>, stdout' = Tail(stdout),
         UNCHANGED <<cmd, graph, built>>
  PROVE  IInv'
<1>1. probe' = [p EXCEPT !.pending = id]
  BY DEF Rpc
<1>2. stdin' \in Seq(Ids) /\ stdout' \in Seq([id : Ids, kind : Replies])
  BY DEF Rpc, IInv, TypeInv
<1>3. ProbeTypeInv'
  BY <1>1, <1>2 DEF ProbeTypeInv, ProbeStates
<1>4. \A i \in 1..Len(stdout') : i + 1 \in 1..Len(stdout) /\ stdout'[i] = stdout[i + 1]
  BY DEF IInv, TypeInv
<1>5. AnswerInv'
  BY <1>1, <1>4 DEF AnswerInv, ProbeStates, IInv
<1>6. probe'.smoke = probe.smoke /\ retrieved' \in BOOLEAN
  BY <1>1 DEF ProbeStates, IInv, TypeInv
<1> QED BY <1>3, <1>5, <1>6, ConversationKeeps

LEMMA ReceiveKeeps ==
  ASSUME IInv, Receive, UNCHANGED <<cmd, worldVars, agentVars, retrieved>>
  PROVE  IInv'
<1> USE DEF IInv
<1>1. stdout # <<>> /\ stdout' = Tail(stdout) /\ UNCHANGED <<cmd, graph, built, retrieved>>
  BY DEF Receive, worldVars
<1>2. PICK m : m = Head(stdout)
  OBVIOUS
<1>3. m = stdout[1] /\ 1 \in 1..Len(stdout) /\ m \in [id : Ids, kind : Replies]
  <2>1. PICK T : T = [id : Ids, kind : Replies]
    OBVIOUS
  <2>2. stdout \in Seq(T) /\ stdout # <<>>
    BY <1>1, <2>1 DEF TypeInv
  <2>3. Head(stdout) = stdout[1] /\ 1 \in 1..Len(stdout) /\ Head(stdout) \in T
    BY <2>2
  <2> QED BY <1>2, <2>1, <2>3
<1>4. m.id = 3 => m.kind \in {"error", "isError"} \/ retrieved
  BY <1>3 DEF AnswerInv
<1>5. probe \in ProbeStates
  BY DEF TypeInv
<1>6. CASE m.id # probe.pending
  <2>1. UNCHANGED <<probe, stdin>>
    BY <1>2, <1>6 DEF Receive
  <2>2. \A i \in 1..Len(stdout') : i + 1 \in 1..Len(stdout) /\ stdout'[i] = stdout[i + 1]
    BY <1>1 DEF TypeInv
  <2>3. ProbeTypeInv' /\ AnswerInv'
    BY <1>1, <2>1, <2>2 DEF ProbeTypeInv, TypeInv, AnswerInv
  <2> QED BY <1>1, <2>1, <2>3, ConversationKeeps DEF TypeInv
<1>7. CASE m.id = probe.pending /\ m.id = 1
  <2>1. Initialized(m.kind)
    BY <1>2, <1>7 DEF Receive
  <2>2. ~probe.ok
    BY <1>7 DEF AnswerInv
  <2>3. CASE m.kind = "error"
    <3> DEFINE p == [probe EXCEPT !.pending = 0]
    <3>1. p \in ProbeStates /\ p.smoke = probe.smoke /\ p.settled = probe.settled
          /\ p.ok = probe.ok /\ p.context = probe.context
      BY <1>5 DEF ProbeStates
    <3>2. Finish(p, FALSE) /\ UNCHANGED stdin
      BY <2>1, <2>3 DEF Initialized
    <3> HIDE DEF p
    <3> QED BY <1>1, <2>2, <3>1, <3>2, FinishKeeps DEF AnswerInv
  <2>4. CASE m.kind # "error"
    <3> DEFINE p == [probe EXCEPT !.proto = m.kind = "result"]
    <3>1. p \in ProbeStates /\ p.smoke = probe.smoke /\ p.ok = probe.ok
          /\ p.context = probe.context
      BY <1>5 DEF ProbeStates
    <3>2. Rpc(p, 2)
      BY <2>1, <2>4 DEF Initialized
    <3> HIDE DEF p
    <3> QED BY <1>1, <2>2, <3>1, <3>2, RpcKeeps DEF AnswerInv, Ids
  <2> QED BY <2>3, <2>4
<1>8. ASSUME NEW p \in ProbeStates, Concluded(p), p.pending = 0,
             p.smoke = probe.smoke, p.settled = probe.settled, p.ok = probe.ok, ~p.ok,
             p.context = "ok" => retrieved
      PROVE  IInv'
  <2>1. PICK ok \in BOOLEAN : ok = (p.proto /\ p.tools /\ (p.smoke => p.context = "ok"))
    OBVIOUS
  <2>2. Finish(p, ok) /\ UNCHANGED stdin
    BY <1>8, <2>1 DEF Concluded
  <2> QED BY <1>1, <1>8, <2>1, <2>2, FinishKeeps
<1>9. CASE m.id = probe.pending /\ m.id = 2
  <2> DEFINE p == [probe EXCEPT !.tools = m.kind = "result", !.pending = 0]
  <2>1. Listed(m.kind)
    BY <1>2, <1>9 DEF Receive
  <2>2. ~probe.ok
    BY <1>9 DEF AnswerInv
  <2>3. p \in ProbeStates /\ p.smoke = probe.smoke /\ p.settled = probe.settled
        /\ p.ok = probe.ok /\ p.context = probe.context /\ p.pending = 0
    BY <1>5 DEF ProbeStates
  <2>4. (p.smoke /\ Rpc(p, 3)) \/ Concluded(p)
    BY <2>1 DEF Listed
  <2> HIDE DEF p
  <2>5. p.context = "ok" => retrieved
    BY <2>3 DEF AnswerInv
  <2>6. CASE Rpc(p, 3)
    BY <1>1, <2>2, <2>3, <2>5, <2>6, RpcKeeps DEF Ids
  <2>7. CASE Concluded(p)
    BY <1>8, <2>2, <2>3, <2>5, <2>7
  <2> QED BY <2>4, <2>6, <2>7
<1>10. CASE m.id = probe.pending /\ m.id = 3
  <2>0. m.id # 1 /\ m.id # 2 /\ probe.pending = 3
    BY <1>10
  <2>1. Called(m.kind)
    BY <1>2, <1>10, <2>0 DEF Receive
  <2> DEFINE x == IF m.kind \in {"error", "isError"} THEN "failed" ELSE "ok"
             p == [probe EXCEPT !.pending = 0, !.context = x]
  <2>2. ~probe.ok
    BY <1>10 DEF AnswerInv
  <2>3. x \in {"failed", "ok"} /\ (x = "ok" => retrieved)
    BY <1>4, <1>10
  <2>4. Concluded(p)
    BY <2>1 DEF Called
  <2> HIDE DEF x
  <2>5. p \in ProbeStates /\ p.smoke = probe.smoke /\ p.settled = probe.settled
        /\ p.ok = probe.ok /\ p.context = x /\ p.pending = 0
    BY <1>5, <2>3 DEF ProbeStates
  <2> HIDE DEF p
  <2> QED BY <1>8, <2>2, <2>3, <2>4, <2>5
<1> QED BY <1>3, <1>6, <1>7, <1>9, <1>10 DEF Ids

LEMMA DeliversKeeps ==
  ASSUME IInv, Delivers
  PROVE  IInv'
<1>1. UNCHANGED <<cmd, graph, built, retrieved>> /\ retrieved \in BOOLEAN
  BY DEF Delivers, worldVars, IInv, TypeInv
<1>2. CASE Receive
  BY <1>2, ReceiveKeeps DEF Delivers
<1>3. CASE TimesOut
  <2>1. probe \in ProbeStates
    BY DEF IInv, TypeInv
  <2> QED BY <1>1, <1>3, <2>1, FinishKeeps DEF TimesOut, IInv, AnswerInv
<1>4. CASE LaunchFails
  <2>1. probe' = probe \/ probe' = [probe EXCEPT !.settled = TRUE]
    BY <1>4 DEF LaunchFails
  <2>2. UNCHANGED <<stdin, stdout>>
    BY <1>4 DEF LaunchFails
  <2>3. ProbeTypeInv' /\ AnswerInv' /\ probe'.smoke = probe.smoke
    BY <1>1, <2>1, <2>2 DEF IInv, TypeInv, ProbeTypeInv, AnswerInv, ProbeStates
  <2> QED BY <1>1, <2>3, ConversationKeeps
<1>5. CASE Reap
  <2>1. UNCHANGED <<probe, stdin, stdout>>
    BY <1>5 DEF Reap
  <2>2. ProbeTypeInv' /\ AnswerInv' /\ probe'.smoke = probe.smoke
    BY <1>1, <2>1 DEF IInv, TypeInv, ProbeTypeInv, AnswerInv
  <2> QED BY <1>1, <2>2, ConversationKeeps
<1> QED BY <1>2, <1>3, <1>4, <1>5 DEF Delivers

\* A server answers a question about the graph only from a graph.
LEMMA ServerAnswersKeeps ==
  ASSUME IInv, ServerAnswers
  PROVE  IInv'
<1>1. PICK kind \in Replies :
        /\ stdin # <<>> /\ Answer(kind)
        /\ retrieved' = (retrieved \/ (Head(stdin) = 3 /\ kind = "result"))
        /\ Head(stdin) = 3 => kind \in {"isError", "error", "result"}
  BY DEF ServerAnswers, Replies
<1>2. PICK id \in Ids : id = Head(stdin)
  BY <1>1 DEF IInv, TypeInv
<1>3. PICK m : m = [id |-> id, kind |-> kind]
  OBVIOUS
<1>4. stdout' = Append(stdout, m) /\ stdin' = Tail(stdin) /\ UNCHANGED probe
  BY <1>1, <1>2, <1>3 DEF Answer
<1>5. UNCHANGED <<cmd, graph, built>>
  BY DEF ServerAnswers, worldVars
<1>6. m \in [id : Ids, kind : Replies]
  BY <1>3
<1>7. ProbeTypeInv'
  BY <1>1, <1>4, <1>6 DEF ProbeTypeInv, IInv, TypeInv
<1>8. m.id = 3 => m.kind \in {"error", "isError"} \/ retrieved'
  BY <1>1, <1>2, <1>3
<1>9. \A i \in 1..Len(stdout') : stdout'[i] = m \/ (i \in 1..Len(stdout) /\ stdout'[i] = stdout[i])
  BY <1>4, <1>6 DEF IInv, TypeInv
<1>10. AnswerInv'
  BY <1>1, <1>4, <1>8, <1>9 DEF AnswerInv, IInv
<1> QED BY <1>1, <1>4, <1>5, <1>7, <1>10, ConversationKeeps DEF IInv, TypeInv

-----------------------------------------------------------------------------
(* The world.                                                              *)

LEMMA WorldKeeps ==
  ASSUME IInv, OtherScan \/ Edit \/ Clean \/ ServerEnds
  PROVE  IInv'
<1>1. UNCHANGED <<cmd, probe, stdout, retrieved>> /\ stdin' \in Seq(Ids)
  <2>1. CASE OtherScan \/ Edit \/ Clean
    BY <2>1 DEF OtherScan, Edit, Clean, probeVars, IInv, TypeInv
  <2>2. CASE ServerEnds
    <3>1. stdin' = <<>>
      BY <2>2 DEF ServerEnds, ChildEnds
    <3> QED BY <2>2, <3>1 DEF ServerEnds, ChildEnds
  <2> QED BY <2>1, <2>2
<1>2. graph' \in {"torn", "stale", "fresh"} \/ UNCHANGED graph
  BY DEF OtherScan, Edit, Clean, ServerEnds, worldVars
<1>3. built' \in BOOLEAN
  BY DEF OtherScan, Edit, Clean, ServerEnds, worldVars, IInv, TypeInv
<1>4. TypeInv'
  BY <1>1, <1>2, <1>3 DEF IInv, TypeInv
<1>5. AnswerInv' /\ VerdictInv'
  BY <1>1 DEF IInv, AnswerInv, VerdictInv, HealthyMeansRetrieved
<1>6. GraphInv'
  BY <1>1, <1>2 DEF IInv, GraphInv
<1> QED BY <1>4, <1>5, <1>6 DEF IInv

-----------------------------------------------------------------------------
(* The commands.                                                           *)

LEMMA QuietKeeps ==
  ASSUME IInv, Quiet, cmd' \in Commands, Placed(cmd'), GraphInv', VerdictInv'
  PROVE  IInv'
<1>1. UNCHANGED <<probe, stdin, stdout, graph, built, retrieved>>
  BY DEF Quiet, probeVars, worldVars
<1>2. TypeInv'
  BY <1>1 DEF IInv, TypeInv, Placed
<1>3. AnswerInv'
  BY <1>1 DEF IInv, AnswerInv
<1> QED BY <1>2, <1>3 DEF IInv

\* A step of the command to a place where nothing is reported yet.
LEMMA OnTheWay ==
  ASSUME IInv, Quiet, cmd' \in Commands, Placed(cmd'), GraphInv',
         cmd'.pc \notin {"agents", "done"}
  PROVE  IInv'
<1>1. VerdictInv'
  BY DEF VerdictInv, HealthyMeansRetrieved
<1> QED BY <1>1, QuietKeeps

LEMMA DoctorKeeps ==
  ASSUME IInv, DoctorStep
  PROVE  IInv'
<1> USE DEF IInv
<1>1. /\ cmd \in Commands /\ Placed(cmd) /\ graph \in {"missing", "torn", "stale", "fresh"}
      /\ GraphInv /\ AnswerInv
  BY DEF TypeInv, Placed
<1>2. Quiet /\ UNCHANGED <<graph, probe, retrieved>> /\ cmd.name = "doctor"
  BY <1>1 DEF DoctorStep, DoctorLooks, DoctorWeighs, DoctorResolves, DoctorLooksForServer,
    DoctorHears, DoctorReports, Quiet, worldVars, probeVars, Commands, Placed, SetupPlaces
<1>3. ASSUME NEW id \in Checks, NEW status \in Verdicts
      PROVE  /\ Check(id, status) \in [Checks -> Verdicts]
             /\ Check(id, status)[id] = status
             /\ \A other \in Checks \ {id} : Check(id, status)[other] = cmd.checks[other]
  <2>1. cmd.checks \in [Checks -> Verdicts]
    BY <1>1 DEF Commands
  <2> QED BY <2>1 DEF Check
<1>4. "graph" \in Checks /\ "resolve" \in Checks /\ "handshake" \in Checks /\ "agents" \in Checks
      /\ "graph" \in Checks \ {"resolve"} /\ "graph" \in Checks \ {"handshake"}
      /\ {"graph", "resolve", "handshake"} \subseteq Checks \ {"agents"}
  BY DEF Checks
<1>5. CASE DoctorLooks
  <2>1. CASE GraphExists
    <3>1. cmd' = [cmd EXCEPT !.pc = "freshness"] /\ graph # "missing" /\ cmd.pc = "start"
      BY <1>5, <2>1 DEF DoctorLooks, Goto, GraphExists
    <3>2. cmd' \in Commands /\ Placed(cmd')
      BY <1>1, <1>2, <3>1 DEF Commands, Placed, DoctorPlaces
    <3>3. GraphInv'
      BY <1>1, <1>2, <3>1 DEF GraphInv, Commands
    <3> QED BY <1>1, <1>2, <3>1, <3>2, <3>3, OnTheWay DEF Commands
  <2>2. CASE ~GraphExists
    <3>1. PICK k : k = Check("graph", "fail")
      OBVIOUS
    <3>2. k \in [Checks -> Verdicts] /\ k["graph"] = "fail"
      BY <1>3, <1>4, <3>1 DEF Verdicts
    <3>3. cmd' = [cmd EXCEPT !.pc = "resolve", !.checks = k] /\ cmd.pc = "start"
      BY <1>5, <2>2, <3>1 DEF DoctorLooks
    <3>4. cmd' \in Commands /\ Placed(cmd')
      BY <1>1, <1>2, <3>2, <3>3 DEF Commands, Placed, DoctorPlaces
    <3>5. GraphInv'
      BY <1>1, <1>2, <3>2, <3>3 DEF GraphInv, Commands
    <3> QED BY <1>1, <1>2, <3>3, <3>4, <3>5, OnTheWay DEF Commands
  <2> QED BY <2>1, <2>2
<1>6. CASE DoctorWeighs
  <2>1. PICK s : s = CASE graph = "fresh" -> "pass" [] graph = "stale" -> "warn" [] OTHER -> "fail"
    OBVIOUS
  <2>2. s \in Verdicts /\ (s = "fail" \/ graph # "missing")
    BY <1>1, <2>1 DEF Verdicts
  <2>3. PICK k : k = Check("graph", s)
    OBVIOUS
  <2>4. k \in [Checks -> Verdicts] /\ k["graph"] = s
    BY <1>3, <1>4, <2>2, <2>3
  <2>5. cmd' = [cmd EXCEPT !.pc = "resolve", !.hadGraph = TRUE, !.checks = k]
        /\ cmd.pc = "freshness"
    BY <1>6, <2>1, <2>3 DEF DoctorWeighs
  <2>6. cmd' \in Commands /\ Placed(cmd')
    BY <1>1, <1>2, <2>4, <2>5 DEF Commands, Placed, DoctorPlaces
  <2>7. GraphInv'
    BY <1>1, <1>2, <2>2, <2>4, <2>5 DEF GraphInv, Commands
  <2> QED BY <1>1, <1>2, <2>5, <2>6, <2>7, OnTheWay DEF Commands
<1>7. CASE DoctorResolves
  <2>1. cmd' = [cmd EXCEPT !.pc = "resolved", !.source = Source] /\ cmd.pc = "resolve"
        /\ Source \in {"none", "local", "npx"}
    BY <1>7 DEF DoctorResolves, Source
  <2>2. cmd' \in Commands /\ Placed(cmd')
    BY <1>1, <1>2, <2>1 DEF Commands, Placed, DoctorPlaces
  <2>3. GraphInv'
    BY <1>1, <1>2, <2>1 DEF GraphInv, Commands
  <2> QED BY <1>1, <1>2, <2>1, <2>2, <2>3, OnTheWay DEF Commands
<1>8. CASE DoctorLooksForServer
  <2>1. PICK s \in Verdicts, pc \in {"agents", "probe"} :
          /\ cmd' = [cmd EXCEPT !.pc = pc, !.checks = Check("resolve", s)]
          /\ pc = "agents" => s = "fail" \/ cmd.skipProbe
          /\ cmd.pc = "resolved"
    <3>1. CASE cmd.source = "local" /\ ~built
      BY <1>8, <3>1 DEF DoctorLooksForServer, Verdicts
    <3>2. CASE ~(cmd.source = "local" /\ ~built)
      BY <1>8, <3>2 DEF DoctorLooksForServer, Verdicts
    <3> QED BY <3>1, <3>2
  <2>2. PICK k : k = Check("resolve", s)
    OBVIOUS
  <2>3. k \in [Checks -> Verdicts] /\ k["resolve"] = s
        /\ \A other \in Checks \ {"resolve"} : k[other] = cmd.checks[other]
    <3>1. k \in [Checks -> Verdicts] /\ k["resolve"] = s
      BY <1>3, <1>4, <2>2
    <3>2. \A other \in Checks \ {"resolve"} : k[other] = cmd.checks[other]
      BY <1>3, <1>4, <2>2
    <3> QED BY <3>1, <3>2
  <2>4. k["graph"] = cmd.checks["graph"]
    BY <1>4, <2>3
  <2>5. cmd' = [cmd EXCEPT !.pc = pc, !.checks = k]
    BY <2>1, <2>2
  <2>6. cmd' \in Commands /\ Placed(cmd')
    BY <1>1, <1>2, <2>3, <2>5 DEF Commands, Placed, DoctorPlaces
  <2>7. GraphInv'
    BY <1>1, <1>2, <2>1, <2>4, <2>5 DEF GraphInv, Commands
  <2>8. VerdictInv'
    <3>1. cmd'.pc = pc /\ cmd'.checks = k /\ cmd'.skipProbe = cmd.skipProbe
      BY <1>1, <2>5 DEF Commands
    <3>2. pc = "agents" => k["resolve"] = "fail" \/ cmd.skipProbe
      BY <2>1, <2>3
    <3>3. pc # "done"
      OBVIOUS
    <3> QED BY <1>4, <3>1, <3>2, <3>3 DEF VerdictInv, HealthyMeansRetrieved
  <2> QED BY <1>2, <2>6, <2>7, <2>8, QuietKeeps
<1>9. CASE DoctorHears
  <2>1. PICK s \in Verdicts :
          s = IF probe.ok /\ (cmd.withGraph => probe.context = "ok") THEN "pass" ELSE "fail"
    BY DEF Verdicts
  <2>2. PICK k : k = Check("handshake", s)
    OBVIOUS
  <2>3. k \in [Checks -> Verdicts] /\ k["handshake"] = s /\ k["graph"] = cmd.checks["graph"]
    <3>1. k \in [Checks -> Verdicts] /\ k["handshake"] = s
      BY <1>3, <1>4, <2>2
    <3>2. \A other \in Checks \ {"handshake"} : k[other] = cmd.checks[other]
      BY <1>3, <1>4, <2>2
    <3> QED BY <1>4, <3>1, <3>2
  <2>4. cmd' = [cmd EXCEPT !.pc = "agents", !.probed = TRUE, !.checks = k] /\ cmd.pc = "answer"
    BY <1>9, <2>1, <2>2 DEF DoctorHears
  <2>5. cmd' \in Commands /\ Placed(cmd')
    BY <1>1, <1>2, <2>3, <2>4 DEF Commands, Placed, DoctorPlaces
  <2>6. GraphInv'
    BY <1>1, <1>2, <2>3, <2>4 DEF GraphInv, Commands
  <2>7. k["graph"] = "fail" \/ k["handshake"] = "fail" \/ retrieved
    BY <1>1, <1>2, <2>1, <2>3, <2>4 DEF GraphInv, AnswerInv
  <2>8. cmd'.pc = "agents" /\ cmd'.checks = k
    BY <1>1, <2>4 DEF Commands
  <2>9. VerdictInv'
    BY <1>2, <1>4, <2>7, <2>8 DEF VerdictInv, HealthyMeansRetrieved
  <2> QED BY <1>2, <2>5, <2>6, <2>9, QuietKeeps
<1>10. CASE DoctorReports
  <2>1. PICK s \in Verdicts :
          s = IF Detected # {} /\ Detected \subseteq connected THEN "pass" ELSE "warn"
    BY DEF Verdicts
  <2>2. PICK k : k = Check("agents", s)
    OBVIOUS
  <2>3. k \in [Checks -> Verdicts] /\ k["agents"] = s /\ s # "fail"
        /\ \A id \in Checks \ {"agents"} : k[id] = cmd.checks[id]
    BY <1>3, <1>4, <2>1, <2>2
  <2>4. PICK ok \in BOOLEAN : ok = \A id \in Checks : k[id] # "fail"
    OBVIOUS
  <2>5. cmd' = [cmd EXCEPT !.pc = "done", !.checks = k, !.ok = ok] /\ cmd.pc = "agents"
    BY <1>10, <2>1, <2>2, <2>4 DEF DoctorReports
  <2>6. cmd' \in Commands /\ Placed(cmd')
    BY <1>1, <1>2, <2>3, <2>5 DEF Commands, Placed, DoctorPlaces
  <2>7. GraphInv'
    BY <1>1, <1>2, <2>5 DEF GraphInv, Commands
  <2>8. /\ cmd'.ok = ok /\ cmd'.pc = "done" /\ cmd'.skipProbe = cmd.skipProbe
        /\ cmd'.hadGraph = cmd.hadGraph /\ cmd'.withGraph = cmd.withGraph
        /\ cmd'.probed = cmd.probed
    BY <1>1, <2>5 DEF Commands
  <2>9. ok => cmd.hadGraph /\ (cmd.skipProbe \/ retrieved)
    <3>1. SUFFICES ASSUME ok, ~(cmd.hadGraph /\ (cmd.skipProbe \/ retrieved))
                   PROVE  FALSE
      OBVIOUS
    <3>2. PICK id \in Checks \ {"agents"} : cmd.checks[id] = "fail"
      BY <1>1, <1>2, <1>4, <2>5, <3>1 DEF VerdictInv, GraphInv
    <3> QED BY <2>3, <2>4, <3>1, <3>2
  <2>10. VerdictInv'
    <3>1. cmd'.name = "doctor"
      BY <1>1, <1>2, <2>5 DEF Commands
    <3> QED BY <1>2, <2>8, <2>9, <3>1 DEF VerdictInv, HealthyMeansRetrieved
  <2> QED BY <1>2, <2>6, <2>7, <2>10, QuietKeeps
<1> QED BY <1>5, <1>6, <1>7, <1>8, <1>9, <1>10 DEF DoctorStep

LEMMA SelectionOK ==
  ASSUME NEW s \in Selectors
  PROVE  Selection(s, disk) \subseteq AgentId
<1>1. s \in AgentId \cup {"auto", "all"} /\ AUTO_AGENT_IDS \subseteq AgentId
  BY DoctorAssumption DEF AUTO_AGENT_IDS
<1>2. CASE s = "all"
  BY <1>1, <1>2 DEF Selection
<1>3. CASE s = "auto"
  <2>1. Selection(s, disk) = DetectAgents(disk) \cap AUTO_AGENT_IDS
    BY <1>3 DEF Selection
  <2> QED BY <1>1, <2>1
<1>4. CASE s \notin {"all", "auto"}
  <2>1. Selection(s, disk) = {s}
    BY <1>4 DEF Selection
  <2> QED BY <1>1, <1>4, <2>1
<1> QED BY <1>2, <1>3, <1>4

LEMMA SetupKeeps ==
  ASSUME IInv, SetupStep
  PROVE  IInv'
<1> USE DEF IInv
<1>1. /\ cmd \in Commands /\ Placed(cmd) /\ graph \in {"missing", "torn", "stale", "fresh"}
      /\ GraphInv /\ AnswerInv
  BY DEF TypeInv, Placed
<1>2. cmd.name = "setup"
  BY <1>1 DEF SetupStep, SetupLooks, SetupScans, SetupPlans, SetupApplies, SetupInstalls,
    SetupSkipsProbe, SetupReports, Commands, Placed, DoctorPlaces
<1>3. CASE SetupLooks
  <2>1. Quiet /\ UNCHANGED graph /\ cmd.pc = "start"
    BY <1>3 DEF SetupLooks, Quiet, worldVars
  <2>2. CASE GraphExists /\ cmd' = [cmd EXCEPT !.pc = "plan", !.hadGraph = TRUE]
    <3>1. cmd' \in Commands /\ Placed(cmd')
      BY <1>1, <1>2, <2>2 DEF Commands, Placed, SetupPlaces
    <3>2. GraphInv'
      BY <1>1, <1>2, <2>1, <2>2 DEF GraphInv, Commands, GraphExists
    <3> QED BY <1>1, <2>1, <2>2, <3>1, <3>2, OnTheWay DEF Commands
  <2>3. CASE \E pc \in {"scan", "plan"} : Goto(pc)
    <3>1. PICK pc \in {"scan", "plan"} : cmd' = [cmd EXCEPT !.pc = pc]
      BY <2>3 DEF Goto
    <3>2. cmd' \in Commands /\ Placed(cmd')
      BY <1>1, <1>2, <3>1 DEF Commands, Placed, SetupPlaces
    <3>3. GraphInv'
      BY <1>1, <1>2, <2>1, <3>1 DEF GraphInv, Commands
    <3> QED BY <1>1, <2>1, <3>1, <3>2, <3>3, OnTheWay DEF Commands
  <2> QED BY <1>3, <2>2, <2>3 DEF SetupLooks
<1>4. CASE SetupScans
  <2>1. UNCHANGED <<probe, stdin, stdout, built, retrieved>> /\ graph' \in {"torn", "fresh"}
    BY <1>4 DEF SetupScans, probeVars
  <2>2. PICK pc \in {"scanning", "plan"}, had \in BOOLEAN :
          cmd' = [cmd EXCEPT !.pc = pc, !.hadGraph = had] /\ cmd.pc \in {"scan", "scanning"}
    <3>1. CASE cmd.pc = "scan"
      <4>1. cmd' = [cmd EXCEPT !.pc = "scanning"]
        BY <1>4, <3>1 DEF SetupScans, Goto
      <4>2. cmd' = [cmd EXCEPT !.pc = "scanning", !.hadGraph = cmd.hadGraph]
            /\ cmd.hadGraph \in BOOLEAN
        BY <1>1, <4>1 DEF Commands
      <4> QED BY <3>1, <4>2
    <3>2. CASE cmd.pc = "scanning"
      BY <1>4, <3>2 DEF SetupScans
    <3> QED BY <1>4, <3>1, <3>2 DEF SetupScans
  <2>3. cmd' \in Commands /\ Placed(cmd')
    BY <1>1, <1>2, <2>2 DEF Commands, Placed, SetupPlaces
  <2>4. GraphInv'
    BY <1>1, <1>2, <2>1, <2>2 DEF GraphInv, Commands
  <2>5. VerdictInv'
    BY <1>1, <2>2 DEF VerdictInv, HealthyMeansRetrieved, Commands
  <2>6. AnswerInv' /\ TypeInv'
    BY <2>1, <2>3 DEF AnswerInv, TypeInv, Placed
  <2> QED BY <2>4, <2>5, <2>6
<1>5. CASE SetupPlans
  <2>1. Quiet /\ UNCHANGED graph /\ cmd.pc = "plan"
    BY <1>5 DEF SetupPlans, Quiet, worldVars
  <2>2. PICK pc \in {"apply", "done"}, ok \in BOOLEAN : cmd' = [cmd EXCEPT !.pc = pc, !.ok = ok]
    <3>1. CASE \A id \in Selected : id \in connected \ outdated /\ ~Blocked(id)
      BY <1>5, <3>1 DEF SetupPlans
    <3>2. CASE ~(\A id \in Selected : id \in connected \ outdated /\ ~Blocked(id))
      <4>1. PICK pc \in {"apply", "done"} : cmd' = [cmd EXCEPT !.pc = pc]
        BY <1>5, <3>2 DEF SetupPlans, Goto
      <4>2. cmd' = [cmd EXCEPT !.pc = pc, !.ok = cmd.ok] /\ cmd.ok \in BOOLEAN
        BY <1>1, <4>1 DEF Commands
      <4> QED BY <4>2
    <3> QED BY <3>1, <3>2
  <2>3. cmd' \in Commands /\ Placed(cmd') /\ ~cmd'.probed /\ cmd'.name = "setup"
        /\ cmd'.pc # "agents"
    BY <1>1, <1>2, <2>1, <2>2 DEF Commands, Placed, SetupPlaces, GraphInv
  <2>4. GraphInv'
    BY <1>1, <1>2, <2>1, <2>2 DEF GraphInv, Commands
  <2>5. VerdictInv'
    BY <2>3 DEF VerdictInv, HealthyMeansRetrieved
  <2> QED BY <2>1, <2>3, <2>4, <2>5, QuietKeeps
<1>6. CASE SetupApplies
  <2>1. Quiet /\ UNCHANGED graph /\ cmd.pc = "apply"
    BY <1>6 DEF SetupApplies, Quiet, worldVars
  <2>2. PICK t : t = Selected
    OBVIOUS
  <2>3. t \in SUBSET AgentId
    BY <1>1, <1>2, <2>2, SelectionOK DEF Placed, Selected
  <2>4. cmd' = [cmd EXCEPT !.pc = "install", !.todo = t]
    BY <1>6, <2>2 DEF SetupApplies
  <2>5. cmd' \in Commands /\ Placed(cmd')
    BY <1>1, <1>2, <2>3, <2>4 DEF Commands, Placed, SetupPlaces
  <2>6. GraphInv'
    BY <1>1, <1>2, <2>1, <2>4 DEF GraphInv, Commands
  <2> QED BY <1>1, <2>1, <2>4, <2>5, <2>6, OnTheWay DEF Commands
<1>7. CASE SetupInstalls
  <2>1. UNCHANGED <<probe, stdin, stdout, built, retrieved, graph>> /\ cmd.pc = "install"
    BY <1>7 DEF SetupInstalls, probeVars, worldVars
  <2>2. PICK id \in cmd.todo :
          cmd' = [cmd EXCEPT !.todo = @ \ {id}, !.blocked = @ \/ Blocked(id)]
    BY <1>7 DEF SetupInstalls
  <2>3. cmd' \in Commands /\ Placed(cmd')
    BY <1>1, <1>2, <2>2 DEF Commands, Placed
  <2>4. GraphInv'
    BY <1>1, <1>2, <2>1, <2>2 DEF GraphInv, Commands
  <2>5. VerdictInv'
    BY <1>1, <2>1, <2>2 DEF VerdictInv, HealthyMeansRetrieved, Commands
  <2>6. AnswerInv' /\ TypeInv'
    BY <2>1, <2>3 DEF AnswerInv, TypeInv, Placed
  <2> QED BY <2>4, <2>5, <2>6
<1>8. CASE SetupSkipsProbe
  <2>1. Quiet /\ UNCHANGED graph /\ cmd.pc = "install"
        /\ cmd' = [cmd EXCEPT !.pc = "done", !.ok = ~cmd.blocked]
    BY <1>8 DEF SetupSkipsProbe, Quiet, worldVars
  <2>2. cmd' \in Commands /\ Placed(cmd') /\ ~cmd'.probed /\ cmd'.name = "setup"
        /\ cmd'.pc # "agents"
    BY <1>1, <1>2, <2>1 DEF Commands, Placed, SetupPlaces, GraphInv
  <2>3. GraphInv'
    BY <1>1, <1>2, <2>1 DEF GraphInv, Commands
  <2>4. VerdictInv'
    BY <2>2 DEF VerdictInv, HealthyMeansRetrieved
  <2> QED BY <2>1, <2>2, <2>3, <2>4, QuietKeeps
<1>9. CASE SetupReports
  <2>1. PICK ok \in BOOLEAN :
          ok = (~cmd.blocked /\ probe.ok /\ (cmd.hadGraph => probe.context = "ok"))
    OBVIOUS
  <2>2. Quiet /\ UNCHANGED <<graph, retrieved>> /\ cmd.pc = "answer"
        /\ cmd' = [cmd EXCEPT !.pc = "done", !.probed = TRUE, !.ok = ok]
    BY <1>9, <2>1 DEF SetupReports, Quiet, worldVars
  <2>3. /\ cmd' \in Commands /\ Placed(cmd') /\ cmd'.name = "setup" /\ cmd'.pc = "done"
        /\ cmd'.ok = ok /\ cmd'.hadGraph = cmd.hadGraph /\ cmd'.withGraph = cmd.withGraph
    BY <1>1, <1>2, <2>2 DEF Commands, Placed, SetupPlaces
  <2>4. GraphInv'
    BY <1>1, <2>2, <2>3 DEF GraphInv
  <2>5. ok /\ (cmd.hadGraph \/ cmd.withGraph) => retrieved
    BY <1>1, <2>1, <2>2 DEF GraphInv, AnswerInv
  <2>6. VerdictInv'
    BY <2>2, <2>3, <2>5 DEF VerdictInv, HealthyMeansRetrieved
  <2> QED BY <2>2, <2>3, <2>4, <2>6, QuietKeeps
<1> QED BY <1>3, <1>4, <1>5, <1>6, <1>7, <1>8, <1>9 DEF SetupStep

\* The server is asked for context if there is a graph now.
LEMMA ProbesKeeps ==
  ASSUME IInv, Probes
  PROVE  IInv'
<1> USE DEF IInv
<1>1. /\ cmd \in Commands /\ Placed(cmd) /\ cmd.pc \in {"probe", "install"}
      /\ cmd.name = "doctor" => cmd.pc = "probe"
  BY DEF TypeInv, Placed, Probes
<1>2. PICK smoke \in BOOLEAN : smoke = GraphExists
  BY DEF GraphExists
<1>3. /\ cmd' = [cmd EXCEPT !.pc = "answer", !.withGraph = smoke, !.source = "none"]
      /\ Launch(smoke) /\ UNCHANGED <<graph, built, retrieved>>
  BY <1>2 DEF Probes, StartProbe, worldVars
<1>4. probe' = [Idle EXCEPT !.smoke = smoke, !.pending = 1]
      /\ stdin' \in {<<>>, <<1>>} /\ UNCHANGED stdout
  BY <1>3 DEF Launch
<1>5. probe' \in ProbeStates /\ probe'.smoke = smoke /\ ~probe'.ok /\ probe'.context = "unasked"
  BY <1>4 DEF ProbeStates, Idle, Ids
<1>6. cmd' \in Commands /\ Placed(cmd') /\ cmd'.pc = "answer" /\ cmd'.withGraph = smoke
      /\ cmd'.name = cmd.name /\ cmd'.checks = cmd.checks /\ cmd'.hadGraph = cmd.hadGraph
      /\ cmd'.probed = cmd.probed
  BY <1>1, <1>3 DEF Commands, Placed, DoctorPlaces, SetupPlaces
<1>7. stdin' \in Seq(Ids)
  <2>1. <<1>> \in Seq(Ids) /\ <<>> \in Seq(Ids)
    BY DEF Ids
  <2> QED BY <1>4, <2>1
<1>8. TypeInv'
  BY <1>3, <1>4, <1>5, <1>6, <1>7 DEF TypeInv, Placed
<1>9. AnswerInv'
  BY <1>3, <1>4, <1>5 DEF AnswerInv
<1>10. GraphInv'
  BY <1>1, <1>2, <1>3, <1>5, <1>6 DEF GraphInv, GraphExists
<1>11. VerdictInv'
  BY <1>6 DEF VerdictInv, HealthyMeansRetrieved
<1> QED BY <1>8, <1>9, <1>10, <1>11

LEMMA InitKeeps == Init => IInv
<1> SUFFICES ASSUME Init
             PROVE  IInv
  OBVIOUS
<1>1. PICK name \in {"doctor", "setup"}, selector \in Selectors \cup {"none"}, p \in BOOLEAN,
           skip \in BOOLEAN :
        cmd = Fresh(name, selector, p, skip) /\ (name = "setup" => selector \in Selectors)
  <2>1. CASE \E skip \in BOOLEAN : cmd = Fresh("doctor", "none", FALSE, skip)
    BY <2>1
  <2>2. CASE \E s \in Selectors, p \in BOOLEAN : cmd = Fresh("setup", s, p, FALSE)
    BY <2>2
  <2> QED BY <2>1, <2>2 DEF Init
<1>2. [id \in Checks |-> "none"] \in [Checks -> Verdicts]
  BY DEF Verdicts
<1>3. cmd \in Commands /\ Placed(cmd) /\ cmd.pc = "start" /\ ~cmd.hadGraph /\ ~cmd.probed
  BY <1>1, <1>2 DEF Fresh, Commands, Placed, DoctorPlaces, SetupPlaces
<1>4. /\ probe = Idle /\ stdin = <<>> /\ stdout = <<>> /\ retrieved = FALSE
      /\ graph \in {"missing", "stale", "fresh"} /\ built \in BOOLEAN
  BY DEF Init, ProbeInit
<1>5. probe \in ProbeStates /\ ~probe.ok /\ probe.context = "unasked"
  BY <1>4 DEF Idle, ProbeStates
<1>6. TypeInv
  <2>1. stdin \in Seq(Ids) /\ stdout \in Seq([id : Ids, kind : Replies])
    BY <1>4
  <2> QED BY <1>3, <1>4, <1>5, <2>1 DEF TypeInv
<1>7. AnswerInv
  <2>1. Len(stdout) = 0
    BY <1>4
  <2> QED BY <1>5, <2>1 DEF AnswerInv
<1>8. GraphInv /\ VerdictInv
  BY <1>3 DEF GraphInv, VerdictInv, HealthyMeansRetrieved
<1> QED BY <1>6, <1>7, <1>8 DEF IInv

LEMMA NextKeeps == IInv /\ [Next]_vars => IInv'
<1> SUFFICES ASSUME IInv, [Next]_vars
             PROVE  IInv'
  OBVIOUS
<1>1. CASE UNCHANGED vars
  <2>1. UNCHANGED <<probe, stdin, stdout, retrieved, cmd, graph, built>>
    BY <1>1 DEF vars, probeVars, worldVars
  <2>2. TypeInv' /\ AnswerInv' /\ GraphInv'
    BY <2>1 DEF IInv, TypeInv, AnswerInv, GraphInv
  <2>3. VerdictInv'
    BY <2>1 DEF IInv, VerdictInv, HealthyMeansRetrieved
  <2> QED BY <2>2, <2>3 DEF IInv
<1>2. CASE Next
  BY <1>1, <1>2, DoctorKeeps, SetupKeeps, ProbesKeeps, DeliversKeeps, ServerAnswersKeeps,
    WorldKeeps DEF Next, CommandStep, Rest
<1> QED BY <1>1, <1>2

\* Whatever scans, edits and answers come in between, `kawn doctor` calls a project healthy
\* only if it had a graph that could be read, and, unless it skips the probe, and `kawn
\* setup` a project with a graph verified, only after kawn_context has answered from one.
THEOREM HealthIsEarned == Spec => []HealthyMeansRetrieved
<1>1. IInv => HealthyMeansRetrieved
  BY DEF IInv, VerdictInv
<1> QED BY <1>1, InitKeeps, NextKeeps, PTL DEF Spec
=============================================================================

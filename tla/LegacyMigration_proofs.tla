----------------------- MODULE LegacyMigration_proofs -----------------------
(***************************************************************************)
(* Proofs about kawn migrate: its memory and its files have their types,   *)
(* nothing of .athar/ is lost, a migration nobody writes beside truncates  *)
(* no file, one that reports success has copied all, and what it copied    *)
(* describes itself truly if what it copied from did.                      *)
(*                                                                         *)
(* The inductive invariant says how far a migration has come.  While it    *)
(* copies files, .athar/ is what it was in the beginning; what it has      *)
(* copied is there; and as long as nobody else has written and no listing  *)
(* of .kawn/ has failed, .kawn/ holds exactly that, and the file under way,*)
(* torn.                                                                    *)
(***************************************************************************)
EXTENDS LegacyMigration, FiniteSetTheorems, TLAPS

\* What a migration writes for a file of the first .athar/.
Carried(n) == IF n \in Sidecars /\ Legacy[n].key = "atharVersion"
              THEN [Legacy[n] EXCEPT !.key = "kawnVersion"] ELSE Legacy[n]

\* The files a migration plans to copy: all of them, or none if it could not list them.
Planned(p) == proc[p].plan \ {"ignore"}
Done(p) == Planned(p) \ proc[p].items

\* A copying migration, whoever else has written.
Underway(p) ==
  /\ \A n \in Done(p) : kawn[n] # Absent /\ p \in writers
  /\ writers \subseteq {p, "scan"} => \A n \in Done(p) : kawn[n] # Torn
  /\ proc[p].open # NoItem =>
       /\ proc[p].open.name \in Files(Legacy) /\ kawn[proc[p].open.name] # Absent
       /\ proc[p].open.as = Carried(proc[p].open.name)
       /\ p \in writers

\* One that has had .kawn/ to itself.
Alone(p) ==
  \A n \in AllNames :
    kawn[n] = IF n \in Done(p) THEN Carried(n)
              ELSE IF proc[p].open # NoItem /\ proc[p].open.name = n THEN Torn ELSE Absent

\* The manifest is copied after the graph.
Ordered(p) ==
  "manifest.json" \in Done(p) /\ "graph.json" \in Files(Legacy) => "graph.json" \in Done(p)

PlanOK(p) ==
  /\ Planned(p) # {} => legacy = Legacy /\ Planned(p) = Files(Legacy)
  /\ proc[p].items \subseteq proc[p].plan

CopyOK(p) ==
  /\ Busy(p) => PlanOK(p)
  /\ proc[p].pc = "guard" => Done(p) = {}
  /\ proc[p].pc = "copy" => /\ Underway(p) /\ Ordered(p)
                            /\ ~blind /\ writers \subseteq {p} => Alone(p)
                            /\ ~blind /\ p \notin joined => writers \subseteq {p}

CopyInv == \A p \in Migrators : CopyOK(p)

WritersInv == writers = {} <=> Files(kawn) = {}

ScanInv ==
  /\ scan = "graph" => "scan" \in writers
  /\ writers = {"scan"} =>
       /\ kawn["graph.json"] = [of |-> scans, key |-> "none"]
       /\ scan = "idle" => kawn["manifest.json"] = [of |-> scans, key |-> "kawnVersion"]

\* Nothing is lost while .athar/ stands, or once a migration has reported success.
KeptInv ==
  legacy # Legacy \/ settled # {} =>
    \A w \in Migrators \cup {"scan"} : writers \subseteq {w, "scan"} =>
      \A n \in Files(Legacy) : kawn[n] \notin {Absent, Torn}

WholeInv ==
  settled # {} /\ ~blind => \A w \in Migrators \cup {"scan"} : writers \subseteq {w} =>
    \A n \in AllNames :
      /\ n \in Files(Legacy) => kawn[n] \notin {Absent, Torn} /\ kawn[n].of = Legacy[n].of
      /\ n \in Sidecars /\ kawn[n] # Absent => kawn[n].key # "atharVersion"

\* A manifest that can be read describes the graph in the directory.
Pair(dir) == dir["manifest.json"] \notin {Absent, Directory, Torn} =>
               /\ dir["graph.json"] \notin {Absent, Directory, Torn}
               /\ dir["manifest.json"].of = dir["graph.json"].of

PairInv == Pair(Legacy) /\ ~blind => \A p \in Migrators : writers = {p} => Pair(kawn)

IInv == TypeOK /\ CopyInv /\ WritersInv /\ ScanInv /\ KeptInv /\ WholeInv /\ PairInv
-----------------------------------------------------------------------------
(* Types                                                                   *)

LEMMA CarriedType ==
  ASSUME NEW n \in Files(Legacy)
  PROVE  /\ Carried(n) \in Contents /\ Carried(n) \notin {Absent, Torn}
         /\ Carried(n).of = Legacy[n].of
         /\ n \in Sidecars => Carried(n).key # "atharVersion"
  BY MigrationAssumption DEF Carried, Contents, Files

LEMMA IdleMemory ==
  ASSUME NEW status \in Statuses
  PROVE  MemoryOK([Idle EXCEPT !.status = status])
  BY MigrationAssumption DEF MemoryOK, Memory, Idle, Statuses, Items

\* A migration that changes its own memory soundly.
LEMMA OwnMemory ==
  ASSUME TypeOK, NEW p \in Migrators, NEW m, MemoryOK(m), proc' = [proc EXCEPT ![p] = m]
  PROVE  proc' \in [Migrators -> Memory] /\ \A q \in Migrators : MemoryOK(proc'[q])
  BY DEF TypeOK, MemoryOK

LEMMA EndsOK ==
  ASSUME TypeOK, NEW p \in Migrators, NEW status \in Statuses, End(p, status)
  PROVE  proc' \in [Migrators -> Memory] /\ \A q \in Migrators : MemoryOK(proc'[q])
  BY IdleMemory, OwnMemory DEF End

LEMMA WritesOK ==
  ASSUME TypeOK, NEW w \in Migrators \cup {"scan"}, Writes(w)
  PROVE  /\ writers' \subseteq Migrators \cup {"scan"} /\ joined' \subseteq Migrators
         /\ settled' \subseteq Migrators /\ blind' \in BOOLEAN
  BY DEF TypeOK, Writes

LEMMA TypeInit == Init => TypeOK
<1> SUFFICES ASSUME Init PROVE TypeOK
  OBVIOUS
<1>1. MemoryOK(Idle) /\ Idle \in Memory
  BY MigrationAssumption DEF MemoryOK, Memory, Idle, Statuses, Items
<1>2. Empty \in [AllNames -> Contents \cup {Absent, Torn}]
  BY DEF Empty
<1>3. proc \in [Migrators -> Memory] /\ \A p \in Migrators : MemoryOK(proc[p])
  BY <1>1 DEF Init
<1>4. scans \in 0..MaxScans /\ starts \in 0..MaxStarts
  BY MigrationAssumption DEF Init
<1>5. QED
  BY <1>2, <1>3, <1>4 DEF Init, TypeOK

LEMMA PlanType == ASSUME NEW listed \in Listings(legacy) PROVE Plan(listed) \in Items
  BY DEF Plan, Files, Listings, Items

\* A file a migration may open is one of the first .athar/, still there.
LEMMA OpensLegacy ==
  ASSUME NEW p \in Migrators, CopyOK(p), Busy(p), NEW n \in AllNames, n \in proc[p].items
  PROVE  legacy = Legacy /\ Planned(p) = Files(Legacy) /\ n \in Files(Legacy)
  BY MigrationAssumption DEF CopyOK, PlanOK, Planned

LEMMA TypeNext ==
  ASSUME TypeOK, CopyInv, [Next]_vars
  PROVE  TypeOK'
<1> USE DEF TypeOK
<1> DEFINE ProcOK == proc \in [Migrators -> Memory] /\ \A p \in Migrators : MemoryOK(proc[p])
<1>1. ASSUME NEW p \in Migrators, NEW dryRun \in BOOLEAN, Start(p, dryRun) PROVE TypeOK'
  <2>1. ProcOK'
    <3>1. CASE ~present
      BY <1>1, <3>1, EndsOK DEF Start, Statuses
    <3>2. CASE present
      <4>0. PICK listed \in Listings(legacy) :
              proc' = [proc EXCEPT ![p] = [Idle EXCEPT !.pc = "guard", !.plan = Plan(listed),
                                                       !.items = Plan(listed), !.dryRun = dryRun]]
        BY <1>1, <3>2 DEF Start
      <4> DEFINE m == [Idle EXCEPT !.pc = "guard", !.plan = Plan(listed), !.items = Plan(listed),
                                   !.dryRun = dryRun]
      <4>1. MemoryOK(m)
        BY PlanType, MigrationAssumption DEF MemoryOK, Memory, Idle, Statuses
      <4>2. proc' = [proc EXCEPT ![p] = m]
        BY <4>0
      <4> HIDE DEF m
      <4>3. QED BY <4>1, <4>2, OwnMemory
    <3>3. QED BY <3>1, <3>2
  <2>2. starts' \in 0..MaxStarts
    <3>1. starts < MaxStarts /\ starts' = starts + 1
      BY <1>1, Zenon DEF Start
    <3>2. QED BY <3>1, MigrationAssumption
  <2>3. UNCHANGED <<present, legacy, kawn, ignore, scan, scans, writers, settled, blind>>
        /\ joined' = joined \ {p}
    BY <1>1 DEF Start
  <2>4. present' \in BOOLEAN /\ blind' \in BOOLEAN
    BY <2>3, Zenon
  <2>5. QED BY <2>1, <2>2, <2>3, <2>4
<1>2. ASSUME NEW p \in Migrators, Guard(p) PROVE TypeOK'
  <2>1. ProcOK'
    <3>1. CASE End(p, "conflict") \/ End(p, "planned")
      BY <3>1, EndsOK DEF Statuses
    <3>2. CASE proc' = [proc EXCEPT ![p].pc = "copy"]
      <4> DEFINE m == [proc[p] EXCEPT !.pc = "copy"]
      <4>1. MemoryOK(m)
        BY DEF MemoryOK, Memory
      <4>2. proc' = [proc EXCEPT ![p] = m]
        BY <3>2
      <4> HIDE DEF m
      <4>3. QED BY <4>1, <4>2, OwnMemory
    <3>3. QED BY <1>2, <3>1, <3>2 DEF Guard
  <2>2. blind' \in BOOLEAN
    BY <1>2 DEF Guard
  <2>3. QED BY <1>2, <2>1, <2>2 DEF Guard
<1>3. ASSUME NEW p \in Migrators, OpenItem(p) PROVE TypeOK'
  <2>1. PICK n \in AllNames :
          /\ IsNext(n, proc[p].items)
          /\ IF legacy[n] = Absent THEN End(p, "failed") /\ UNCHANGED <<kawn, history>>
             ELSE /\ proc' = [proc EXCEPT ![p].open = [name |-> n, as |-> Converted(n)]]
                  /\ kawn' = [kawn EXCEPT ![n] = Torn]
                  /\ Writes(p)
    BY <1>3 DEF OpenItem
  <2>2. CASE legacy[n] = Absent
    BY <1>3, <2>1, <2>2, EndsOK DEF OpenItem, history, Statuses
  <2>3. CASE legacy[n] # Absent
    <3> DEFINE m == [proc[p] EXCEPT !.open = [name |-> n, as |-> Converted(n)]]
    <3>1. legacy = Legacy /\ proc[p].pc = "copy" /\ n \in Files(Legacy)
      BY <1>3, <2>1, OpensLegacy DEF OpenItem, CopyInv, Busy, IsNext
    <3>2. Converted(n) \in Contents
      BY <3>1, CarriedType DEF Converted, Carried
    <3>3. MemoryOK(m)
      BY <2>1, <3>1, <3>2 DEF MemoryOK, Memory
    <3>4. proc' = [proc EXCEPT ![p] = m]
      BY <2>1, <2>3
    <3> HIDE DEF m
    <3>5. ProcOK'
      BY <3>3, <3>4, OwnMemory
    <3>6. QED BY <1>3, <2>1, <2>3, <3>5, WritesOK DEF OpenItem
  <2>4. QED BY <2>2, <2>3
<1>4. ASSUME NEW p \in Migrators, WriteItem(p) PROVE TypeOK'
  <2> DEFINE m == [proc[p] EXCEPT !.items = @ \ {proc[p].open.name}, !.open = NoItem]
  <2>1. MemoryOK(m)
    <3>1. proc[p] \in Memory
      OBVIOUS
    <3>2. m \in Memory /\ m.open = NoItem
      BY <3>1 DEF Memory, Items
    <3>3. QED BY <3>2 DEF MemoryOK
  <2>2. proc' = [proc EXCEPT ![p] = m]
    BY <1>4 DEF WriteItem
  <2>3. kawn' \in [AllNames -> Contents \cup {Absent, Torn}]
    BY <1>4 DEF WriteItem, MemoryOK, Memory
  <2> HIDE DEF m
  <2>4. ProcOK'
    BY <2>1, <2>2, OwnMemory
  <2>5. QED BY <1>4, <2>3, <2>4, WritesOK DEF WriteItem
<1>5. ASSUME NEW p \in Migrators, CopyIgnore(p) PROVE TypeOK'
  <2> DEFINE m == [proc[p] EXCEPT !.items = @ \ {"ignore"}]
  <2>1. MemoryOK(m)
    BY <1>5 DEF CopyIgnore, MemoryOK, Memory, Items
  <2>2. proc' = [proc EXCEPT ![p] = m]
    BY <1>5 DEF CopyIgnore
  <2> HIDE DEF m
  <2>3. ProcOK'
    BY <2>1, <2>2, OwnMemory
  <2>4. QED BY <1>5, <2>3 DEF CopyIgnore, history
<1>6. ASSUME NEW p \in Migrators, Finish(p) PROVE TypeOK'
  BY <1>6, EndsOK DEF Finish, Reports, Statuses
<1>7. ASSUME NEW p \in Migrators, Crash(p) PROVE TypeOK'
  BY <1>7, EndsOK DEF Crash, Statuses, history
<1>8. CASE ScanWritesGraph
  <2>1. scans + 1 \in 0..MaxScans
    BY <1>8, MigrationAssumption DEF ScanWritesGraph
  <2>2. [of |-> scans + 1, key |-> "none"] \in Contents
    BY <2>1 DEF Contents
  <2>3. QED BY <1>8, <2>1, <2>2, WritesOK DEF ScanWritesGraph
<1>9. CASE ScanWritesManifest
  <2>1. [of |-> scans, key |-> "kawnVersion"] \in Contents
    BY DEF Contents
  <2>2. QED BY <1>9, <2>1, WritesOK DEF ScanWritesManifest
<1>10. CASE ClearTarget
  BY <1>10 DEF ClearTarget, Empty
<1>11. CASE RemoveLegacy
  BY <1>11 DEF RemoveLegacy, history
<1>12. CASE UNCHANGED vars
  BY <1>12 DEF vars, history
<1>13. QED
  BY <1>1, <1>2, <1>3, <1>4, <1>5, <1>6, <1>7, <1>8, <1>9, <1>10, <1>11, <1>12 DEF Next
-----------------------------------------------------------------------------
(* How far a migration has come                                            *)

LEMMA FilesOfNone == Files(Empty) = {}
  BY DEF Files, Empty

\* w puts something into one file of .kawn/.
Puts(w, n, c) == n \in AllNames /\ c \in Contents \cup {Torn} /\ kawn' = [kawn EXCEPT ![n] = c] /\ Writes(w)

\* What somebody else writes leaves a migration where it is, but no longer alone.
LEMMA OthersWrite ==
  ASSUME TypeOK, NEW q \in Migrators, CopyOK(q), NEW w, w # q, NEW n, NEW c, Puts(w, n, c),
         w = "scan" => c # Torn, proc'[q] = proc[q], legacy' = legacy
  PROVE  CopyOK(q)'
<1>1. \A f \in AllNames : /\ kawn[f] # Absent => kawn'[f] # Absent
                          /\ kawn[f] # Torn /\ w = "scan" => kawn'[f] # Torn
  BY MigrationAssumption DEF Puts, TypeOK
<1>2. Busy(q) => q \in joined'
  BY DEF Puts, Writes
<1>3. writers \subseteq writers' /\ w \in writers' /\ blind' = blind
  BY DEF Puts, Writes
<1>4. (Busy(q)' <=> Busy(q)) /\ Done(q)' = Done(q) /\ PlanOK(q)' = PlanOK(q)
  BY DEF Busy, Done, Planned, PlanOK, Files
<1>5. proc[q].pc = "copy" => Underway(q)'
  <2>1. Done(q) \subseteq AllNames
    BY DEF Done, Planned, TypeOK, Memory, Items
  <2>2. ASSUME proc[q].open # NoItem PROVE proc[q].open.name \in AllNames
    BY <2>2 DEF TypeOK, MemoryOK, Memory
  <2>3. ASSUME writers' \subseteq {q, "scan"} PROVE w = "scan" /\ writers \subseteq {q, "scan"}
    BY <1>3, <2>3
  <2>4. QED BY <1>1, <1>3, <1>4, <2>1, <2>2, <2>3 DEF CopyOK, Underway
<1>6. proc[q].pc = "copy" => Busy(q)
  BY DEF Busy
<1>7. QED BY <1>2, <1>3, <1>4, <1>5, <1>6 DEF CopyOK, Ordered, Files

\* A step that writes nothing leaves the other migrations alone.
LEMMA OthersStay ==
  ASSUME NEW q \in Migrators, CopyOK(q), proc'[q] = proc[q], legacy' = legacy, kawn' = kawn,
         writers' = writers, q \in joined' <=> q \in joined, blind' = blind \/ blind'
  PROVE  CopyOK(q)'
  BY DEF CopyOK, Busy, PlanOK, Planned, Underway, Ordered, Alone, Done, Files

\* Nothing is asked of a migration that is over.
LEMMA IdleCopyOK == ASSUME NEW p, proc'[p].pc = "idle" PROVE CopyOK(p)'
  BY DEF CopyOK, Busy

LEMMA EndIdle ==
  ASSUME TypeOK, NEW p \in Migrators, NEW status, End(p, status)
  PROVE  proc'[p].pc = "idle" /\ \A q \in Migrators \ {p} : proc'[q] = proc[q]
  BY DEF End, Idle, TypeOK

\* A scan puts a whole file.
LEMMA ScanPuts ==
  ASSUME TypeOK, ScanWritesGraph \/ ScanWritesManifest
  PROVE  \E n, c : Puts("scan", n, c) /\ c # Torn
<1>1. CASE ScanWritesGraph
  <2>1. [of |-> scans + 1, key |-> "none"] \in Contents
    <3>1. scans + 1 \in 0..MaxScans
      BY <1>1, MigrationAssumption DEF ScanWritesGraph, TypeOK
    <3>2. QED BY <3>1 DEF Contents
  <2>2. Puts("scan", "graph.json", [of |-> scans + 1, key |-> "none"])
    BY <1>1, <2>1, MigrationAssumption DEF ScanWritesGraph, Puts
  <2>3. QED BY <2>1, <2>2, MigrationAssumption
<1>2. CASE ScanWritesManifest
  <2>1. [of |-> scans, key |-> "kawnVersion"] \in Contents
    BY DEF Contents, TypeOK
  <2>2. Puts("scan", "manifest.json", [of |-> scans, key |-> "kawnVersion"])
    BY <1>2, <2>1, MigrationAssumption DEF ScanWritesManifest, Puts
  <2>3. QED BY <2>1, <2>2, MigrationAssumption
<1>3. QED BY <1>1, <1>2

LEMMA CopyNext ==
  ASSUME IInv, [Next]_vars
  PROVE  CopyInv'
<1> USE DEF IInv
<1>1. ASSUME NEW p \in Migrators, NEW dryRun \in BOOLEAN, Start(p, dryRun) PROVE CopyInv'
  <2>1. ASSUME NEW q \in Migrators, q # p PROVE CopyOK(q)'
    BY <1>1, <2>1, EndIdle, OthersStay DEF Start, CopyInv, TypeOK
  <2>2. CopyOK(p)'
    <3>1. CASE ~present
      BY <1>1, <3>1, EndIdle, IdleCopyOK DEF Start
    <3>2. CASE present
      <4>1. PICK listed \in Listings(legacy) :
              proc' = [proc EXCEPT ![p] = [Idle EXCEPT !.pc = "guard", !.plan = Plan(listed),
                                                       !.items = Plan(listed), !.dryRun = dryRun]]
        BY <1>1, <3>2 DEF Start
      <4>2. proc'[p].pc = "guard" /\ proc'[p].plan = Plan(listed) /\ proc'[p].items = Plan(listed)
        BY <4>1 DEF TypeOK, Idle
      <4>3. listed = {} \/ (legacy' = Legacy /\ listed = Files(Legacy))
        BY <1>1, FilesOfNone DEF Start, Listings, TypeOK
      <4>4. Planned(p)' = listed
        BY <4>2, <4>3, MigrationAssumption DEF Planned, Plan, Files
      <4>5. Done(p)' = {}
        BY <4>2 DEF Done, Planned
      <4>6. PlanOK(p)'
        BY <4>2, <4>3, <4>4 DEF PlanOK, Files
      <4>7. QED BY <4>2, <4>5, <4>6 DEF CopyOK
    <3>3. QED BY <3>1, <3>2
  <2>3. QED BY <2>1, <2>2 DEF CopyInv
<1>2. ASSUME NEW p \in Migrators, Guard(p) PROVE CopyInv'
  <2>1. PICK seen \in Listings(kawn) :
          /\ CASE seen # {} -> End(p, "conflict")
               [] seen = {} /\ proc[p].dryRun -> End(p, "planned")
               [] OTHER -> proc' = [proc EXCEPT ![p].pc = "copy"]
          /\ blind' = (blind \/ (seen # Files(kawn) /\ ~proc[p].dryRun))
    BY <1>2 DEF Guard
  <2>2. UNCHANGED <<legacy, kawn, writers, joined>>
    BY <1>2 DEF Guard
  <2>3. ASSUME NEW q \in Migrators, q # p PROVE CopyOK(q)'
    <3>1. proc'[q] = proc[q] /\ (blind' = blind \/ blind')
      BY <2>1, <2>3, EndIdle DEF TypeOK
    <3>2. QED BY <2>2, <3>1, OthersStay DEF CopyInv
  <2>4. CopyOK(p)'
    <3>1. CASE seen # {} \/ proc[p].dryRun
      <4>1. End(p, "conflict") \/ End(p, "planned")
        BY <2>1, <3>1
      <4>2. QED BY <4>1, EndIdle, IdleCopyOK
    <3>2. CASE seen = {} /\ ~proc[p].dryRun
      <4>1. proc' = [proc EXCEPT ![p].pc = "copy"]
        BY <2>1, <3>2
      <4>2. /\ proc'[p].pc = "copy" /\ proc'[p].items = proc[p].items
            /\ proc'[p].plan = proc[p].plan /\ proc'[p].open = proc[p].open
        BY <4>1 DEF TypeOK, Memory
      <4>3. proc[p].open = NoItem /\ Done(p) = {} /\ PlanOK(p)
        BY <1>2 DEF Guard, CopyInv, CopyOK, Busy, TypeOK, MemoryOK
      <4>4. ~blind' => writers = {} /\ \A n \in AllNames : kawn[n] = Absent
        <5>1. ~blind' => seen = Files(kawn)
          BY <2>1, <3>2
        <5>2. Files(kawn) = {} => \A n \in AllNames : kawn[n] = Absent
          BY MigrationAssumption DEF Files, TypeOK
        <5>3. QED BY <3>2, <5>1, <5>2 DEF WritersInv
      <4>5. Done(p)' = {} /\ PlanOK(p)'
        BY <2>2, <4>2, <4>3 DEF Done, Planned, PlanOK, Files
      <4>6. Underway(p)' /\ Ordered(p)' /\ (~blind' => Alone(p)')
        BY <2>2, <4>2, <4>3, <4>4, <4>5 DEF Underway, Alone, Ordered
      <4>7. QED BY <2>2, <4>2, <4>4, <4>5, <4>6 DEF CopyOK
    <3>3. QED BY <3>1, <3>2
  <2>5. QED BY <2>3, <2>4 DEF CopyInv
<1>3. ASSUME NEW p \in Migrators, OpenItem(p) PROVE CopyInv'
  <2>1. PICK n \in AllNames :
          /\ IsNext(n, proc[p].items)
          /\ IF legacy[n] = Absent THEN End(p, "failed") /\ UNCHANGED <<kawn, history>>
             ELSE /\ proc' = [proc EXCEPT ![p].open = [name |-> n, as |-> Converted(n)]]
                  /\ kawn' = [kawn EXCEPT ![n] = Torn]
                  /\ Writes(p)
    BY <1>3 DEF OpenItem
  <2>2. proc[p].pc = "copy" /\ proc[p].open = NoItem /\ PlanOK(p)
        /\ Underway(p) /\ (~blind /\ writers \subseteq {p} => Alone(p))
        /\ (~blind /\ p \notin joined => writers \subseteq {p}) /\ legacy' = legacy /\ Ordered(p)
    BY <1>3 DEF OpenItem, CopyInv, CopyOK, Busy
  <2>0. legacy = Legacy /\ n \in Files(Legacy)
    BY <1>3, <2>1, OpensLegacy DEF OpenItem, CopyInv, Busy, IsNext
  <2>3. CASE legacy[n] = Absent
    <3>1. End(p, "failed") /\ UNCHANGED <<kawn, writers, joined, blind>>
      BY <2>1, <2>3 DEF history
    <3>2. ASSUME NEW q \in Migrators, q # p PROVE CopyOK(q)'
      BY <2>2, <3>1, <3>2, EndIdle, OthersStay DEF CopyInv
    <3>3. CopyOK(p)'
      BY <3>1, EndIdle, IdleCopyOK
    <3>4. QED BY <3>2, <3>3 DEF CopyInv
  <2>4. CASE legacy[n] # Absent
    <3>1. Puts(p, n, Torn) /\ Writes(p)
      BY <2>1, <2>4, MigrationAssumption DEF Puts
    <3>2. proc' = [proc EXCEPT ![p].open = [name |-> n, as |-> Converted(n)]]
      BY <2>1, <2>4
    <3>3. ASSUME NEW q \in Migrators, q # p PROVE CopyOK(q)'
      BY <2>2, <3>1, <3>2, <3>3, OthersWrite, MigrationAssumption DEF CopyInv, TypeOK
    <3>4. /\ proc'[p].pc = "copy" /\ proc'[p].items = proc[p].items
          /\ proc'[p].plan = proc[p].plan
          /\ proc'[p].open = [name |-> n, as |-> Carried(n)]
      BY <2>2, <2>0, <3>2 DEF TypeOK, Memory, Converted, Carried
    <3>5. Done(p)' = Done(p) /\ n \notin Done(p) /\ proc'[p].open # NoItem /\ PlanOK(p)'
      <4>1. Carried(n) \in Contents
        BY <2>0, CarriedType
      <4>2. Done(p)' = Done(p) /\ n \notin Done(p) /\ PlanOK(p)'
        BY <2>1, <2>2, <3>4 DEF Done, Planned, PlanOK, IsNext, Files
      <4>3. QED BY <3>4, <4>1, <4>2, MigrationAssumption
    <3>6. kawn' = [kawn EXCEPT ![n] = Torn] /\ kawn \in [AllNames -> Contents \cup {Absent, Torn}]
      BY <3>1 DEF Puts, TypeOK
    <3>7. /\ writers' = writers \cup {p} /\ p \in Migrators /\ blind' = blind
          /\ joined' = joined \cup {q \in Migrators : Busy(q) /\ q # p}
      BY <3>1 DEF Writes
    <3>8. Underway(p)'
      <4>1. Done(p) \subseteq AllNames
        BY DEF Done, Planned, TypeOK, Memory, Items
      <4>2. QED
        BY <2>2, <2>0, <3>4, <3>5, <3>6, <3>7, <4>1, MigrationAssumption DEF Underway, Files
    <3>9. ASSUME ~blind, writers \subseteq {p} PROVE Alone(p)'
      BY <2>2, <3>4, <3>5, <3>6, <3>9 DEF Alone
    <3>10. CopyOK(p)'
      BY <2>2, <3>4, <3>5, <3>7, <3>8, <3>9 DEF CopyOK, Busy, Ordered, Files
    <3>11. QED BY <3>3, <3>10 DEF CopyInv
  <2>5. QED BY <2>3, <2>4
<1>4. ASSUME NEW p \in Migrators, WriteItem(p) PROVE CopyInv'
  <2> DEFINE n == proc[p].open.name
             c == proc[p].open.as
  <2>1. proc[p].open # NoItem /\ proc[p].pc = "copy" /\ n \in AllNames /\ n \in proc[p].items
    BY <1>4 DEF WriteItem, TypeOK, MemoryOK, Memory, IsNext
  <2>2. PlanOK(p) /\ Underway(p) /\ (~blind /\ writers \subseteq {p} => Alone(p))
        /\ (~blind /\ p \notin joined => writers \subseteq {p}) /\ legacy' = legacy
    BY <1>4, <2>1 DEF WriteItem, CopyInv, CopyOK, Busy
  <2>3. n \in Files(Legacy) /\ c = Carried(n) /\ c \in Contents /\ Planned(p) = Files(Legacy)
    BY <2>1, <2>2, CarriedType, OpensLegacy DEF Underway, CopyInv, Busy
  <2>4. proc' = [proc EXCEPT ![p].items = @ \ {n}, ![p].open = NoItem] /\ Writes(p)
        /\ kawn' = [kawn EXCEPT ![n] = c]
    BY <1>4 DEF WriteItem
  <2>5. /\ proc'[p].pc = "copy" /\ proc'[p].items = proc[p].items \ {n} /\ proc'[p].open = NoItem
        /\ proc'[p].plan = proc[p].plan
        /\ \A q \in Migrators \ {p} : proc'[q] = proc[q]
    BY <2>1, <2>4 DEF TypeOK, Memory
  <2>6. Puts(p, n, c)
    BY <2>1, <2>3, <2>4 DEF Puts
  <2>7. kawn \in [AllNames -> Contents \cup {Absent, Torn}]
    BY DEF TypeOK
  <2>8. /\ writers' = writers \cup {p} /\ blind' = blind
        /\ joined' = joined \cup {q \in Migrators : Busy(q) /\ q # p}
    BY <2>4 DEF Writes
  <2>9. Done(p)' = Done(p) \cup {n} /\ Done(p) \subseteq AllNames /\ PlanOK(p)'
    BY <2>1, <2>2, <2>3, <2>5 DEF Done, Planned, PlanOK, Files
  <2> HIDE DEF n, c
  <2>10. ASSUME NEW q \in Migrators, q # p PROVE CopyOK(q)'
    BY <2>2, <2>3, <2>5, <2>6, <2>10, OthersWrite, MigrationAssumption DEF CopyInv
  <2>11. Underway(p)'
    BY <2>1, <2>2, <2>3, <2>4, <2>5, <2>7, <2>8, <2>9, MigrationAssumption DEF Underway
  <2>12. ASSUME ~blind, writers \subseteq {p} PROVE Alone(p)'
    BY <2>1, <2>2, <2>3, <2>4, <2>5, <2>7, <2>9, <2>12 DEF Alone, n
  <2>13. Ordered(p)'
    <3>1. CASE n = "manifest.json" /\ "graph.json" \in proc[p].items
      <4>1. Before("manifest.json", "graph.json")
        BY <2>1, <3>1 DEF n, IsNext, TypeOK, MemoryOK
      <4>2. QED BY <4>1, MigrationAssumption DEF Before
    <3>2. CASE n # "manifest.json" \/ "graph.json" \notin proc[p].items
      <4>1. Ordered(p)
        BY <1>4, <2>1 DEF CopyInv, CopyOK
      <4>2. QED BY <2>3, <2>9, <3>2, <4>1 DEF Ordered, Done, Files
    <3>3. QED BY <3>1, <3>2
  <2>14. CopyOK(p)'
    BY <2>2, <2>5, <2>8, <2>9, <2>11, <2>12, <2>13 DEF CopyOK
  <2>15. QED BY <2>10, <2>14 DEF CopyInv
<1>5. ASSUME NEW p \in Migrators, CopyIgnore(p) PROVE CopyInv'
  <2>1. proc' = [proc EXCEPT ![p].items = @ \ {"ignore"}] /\ proc[p].pc = "copy"
        /\ UNCHANGED <<legacy, kawn, writers, joined, blind>>
    BY <1>5 DEF CopyIgnore, history
  <2>2. /\ proc'[p].pc = "copy" /\ proc'[p].items = proc[p].items \ {"ignore"}
        /\ proc'[p].plan = proc[p].plan
        /\ proc'[p].open = proc[p].open /\ \A q \in Migrators \ {p} : proc'[q] = proc[q]
    BY <2>1 DEF TypeOK, Memory
  <2>3. Done(p)' = Done(p) /\ (Busy(p) /\ PlanOK(p) => PlanOK(p)')
    BY <2>1, <2>2 DEF Done, Planned, PlanOK, Files
  <2>4. ASSUME NEW q \in Migrators, q # p PROVE CopyOK(q)'
    BY <2>1, <2>2, <2>4, OthersStay DEF CopyInv
  <2>5. CopyOK(p) /\ Busy(p)
    BY <2>1 DEF CopyInv, Busy
  <2>6. CopyOK(p)'
    BY <2>1, <2>2, <2>3, <2>5 DEF CopyOK, Underway, Ordered, Alone
  <2>7. QED BY <2>4, <2>6 DEF CopyInv
<1>6. ASSUME NEW p \in Migrators, Finish(p) \/ Crash(p) PROVE CopyInv'
  <2>1. /\ UNCHANGED <<legacy, kawn, writers, joined, blind>>
        /\ End(p, "migrated") \/ End(p, "killed")
    BY <1>6 DEF Finish, Reports, Crash, history
  <2>2. QED BY <2>1, EndIdle, IdleCopyOK, OthersStay DEF CopyInv
<1>7. CASE ScanWritesGraph \/ ScanWritesManifest
  <2>1. PICK n, c : Puts("scan", n, c) /\ c # Torn
    BY <1>7, ScanPuts
  <2>2. proc' = proc /\ legacy' = legacy
    BY <1>7 DEF ScanWritesGraph, ScanWritesManifest
  <2>3. \A q \in Migrators : "scan" # q
    BY MigrationAssumption
  <2>4. QED BY <2>1, <2>2, <2>3, OthersWrite DEF CopyInv
<1>8. CASE ClearTarget \/ RemoveLegacy
  <2>1. \A p \in Migrators : proc'[p].pc = "idle"
    BY <1>8 DEF ClearTarget, RemoveLegacy, Quiet, Busy
  <2>2. QED BY <2>1, IdleCopyOK DEF CopyInv
<1>9. CASE UNCHANGED vars
  BY <1>9, OthersStay DEF CopyInv, vars, history
<1>10. QED
  BY <1>1, <1>2, <1>3, <1>4, <1>5, <1>6, <1>7, <1>8, <1>9 DEF Next
-----------------------------------------------------------------------------
(* What is in .kawn/                                                       *)

\* Every step leaves the directory and its writers, or puts something into a file
\* of it, or clears it.
LEMMA StoreStep ==
  ASSUME IInv, [Next]_vars
  PROVE  \/ /\ UNCHANGED <<kawn, writers>> /\ (blind' = blind \/ blind')
            /\ settled' = settled \/ \E p \in Migrators : Finish(p)
            /\ UNCHANGED <<scan, scans>>
         \/ \E p \in Migrators : /\ \E n, c : Puts(p, n, c)
                                 /\ UNCHANGED <<scan, scans, legacy>> /\ legacy = Legacy
                                 /\ proc'[p].pc = "copy"
         \/ ScanWritesGraph /\ \E n, c : Puts("scan", n, c) /\ c # Torn
         \/ ScanWritesManifest /\ \E n, c : Puts("scan", n, c) /\ c # Torn
         \/ ClearTarget
<1> USE DEF IInv
<1>1. ASSUME NEW p \in Migrators, NEW dryRun \in BOOLEAN, Start(p, dryRun)
      PROVE  UNCHANGED <<kawn, writers, settled, blind, scan, scans>>
  BY <1>1 DEF Start
<1>2. ASSUME NEW p \in Migrators, CopyIgnore(p) \/ Crash(p)
      PROVE  UNCHANGED <<kawn, writers, settled, blind, scan, scans>>
  BY <1>2 DEF CopyIgnore, Crash, history
<1>11. ASSUME NEW p \in Migrators, Guard(p)
       PROVE  UNCHANGED <<kawn, writers, settled, scan, scans>> /\ (blind' = blind \/ blind')
  <2>1. blind' = blind \/ blind'
    BY <1>11 DEF Guard, TypeOK
  <2>2. QED BY <1>11, <2>1 DEF Guard
<1>3. ASSUME NEW p \in Migrators, OpenItem(p)
      PROVE  \/ UNCHANGED <<kawn, writers, settled, blind, scan, scans>>
             \/ /\ \E n, c : Puts(p, n, c)
                /\ UNCHANGED <<scan, scans, legacy>> /\ legacy = Legacy
                /\ proc'[p].pc = "copy"
  <2>1. PICK n \in AllNames :
          /\ IsNext(n, proc[p].items)
          /\ IF legacy[n] = Absent THEN End(p, "failed") /\ UNCHANGED <<kawn, history>>
             ELSE /\ proc' = [proc EXCEPT ![p].open = [name |-> n, as |-> Converted(n)]]
                  /\ kawn' = [kawn EXCEPT ![n] = Torn]
                  /\ Writes(p)
    BY <1>3 DEF OpenItem
  <2>2. CASE legacy[n] = Absent
    BY <1>3, <2>1, <2>2 DEF OpenItem, history
  <2>3. CASE legacy[n] # Absent
    <3>1. Puts(p, n, Torn)
      BY <2>1, <2>3 DEF Puts
    <3>2. proc'[p].pc = "copy"
      BY <1>3, <2>1, <2>3 DEF OpenItem, TypeOK, Memory
    <3>3. legacy = Legacy
      BY <1>3, <2>1, OpensLegacy DEF OpenItem, CopyInv, Busy, IsNext
    <3>4. QED BY <1>3, <3>1, <3>2, <3>3 DEF OpenItem
  <2>4. QED BY <2>2, <2>3
<1>4. ASSUME NEW p \in Migrators, WriteItem(p)
      PROVE  /\ \E n, c : Puts(p, n, c)
             /\ UNCHANGED <<scan, scans, legacy>> /\ legacy = Legacy
             /\ proc'[p].pc = "copy"
  <2>1. /\ proc[p].open # NoItem /\ proc[p].pc = "copy" /\ proc[p].open.name \in AllNames
        /\ proc[p].open.as \in Contents /\ proc[p].open.name \in proc[p].items
    BY <1>4 DEF WriteItem, TypeOK, MemoryOK, Memory, IsNext
  <2>2. Puts(p, proc[p].open.name, proc[p].open.as)
    BY <1>4, <2>1 DEF WriteItem, Puts
  <2>3. proc'[p].pc = "copy"
    BY <1>4, <2>1 DEF WriteItem, TypeOK, Memory
  <2>4. legacy = Legacy
    BY <2>1, OpensLegacy DEF CopyInv, Busy
  <2>5. QED BY <1>4, <2>2, <2>3, <2>4 DEF WriteItem
<1>5. ASSUME NEW p \in Migrators, Finish(p) PROVE UNCHANGED <<kawn, writers, blind, scan, scans>>
  BY <1>5 DEF Finish, Reports
<1>6. CASE ScanWritesGraph \/ ScanWritesManifest
  BY <1>6, ScanPuts
<1>8. CASE RemoveLegacy
  BY <1>8 DEF RemoveLegacy, history
<1>9. CASE UNCHANGED vars
  BY <1>9 DEF vars, history
<1>10. QED
  BY <1>1, <1>2, <1>11, <1>3, <1>4, <1>5, <1>6, <1>8, <1>9 DEF Next

LEMMA PutsKeeps ==
  ASSUME TypeOK, NEW w, NEW n, NEW c, Puts(w, n, c)
  PROVE  /\ \A f \in AllNames : kawn[f] # Absent => kawn'[f] # Absent
         /\ kawn'[n] # Absent /\ n \in AllNames
         /\ kawn'[n] \notin {Absent, Directory}
         /\ \A f \in AllNames : kawn[f] # Torn /\ c # Torn => kawn'[f] # Torn
         /\ writers \subseteq writers' /\ w \in writers' /\ settled' = {} /\ blind' = blind
  BY MigrationAssumption DEF Puts, TypeOK, Writes

LEMMA WritersNext == ASSUME IInv, [Next]_vars PROVE WritersInv'
<1> USE DEF IInv
<1>1. ASSUME NEW w, NEW n, NEW c, Puts(w, n, c) PROVE WritersInv'
  BY <1>1, PutsKeeps DEF WritersInv, Files
<1>2. ASSUME UNCHANGED <<kawn, writers>> PROVE WritersInv'
  BY <1>2 DEF WritersInv, Files
<1>3. ASSUME ClearTarget PROVE WritersInv'
  BY <1>3 DEF ClearTarget, WritersInv, Files, Empty
<1>4. QED BY <1>1, <1>2, <1>3, StoreStep

LEMMA ScanNext == ASSUME IInv, [Next]_vars PROVE ScanInv'
<1> USE DEF IInv
<1>1. ASSUME UNCHANGED <<kawn, writers, scan, scans>> PROVE ScanInv'
  BY <1>1 DEF ScanInv
<1>2. ASSUME NEW p \in Migrators, NEW n, NEW c, Puts(p, n, c), UNCHANGED <<scan, scans>>
      PROVE  ScanInv'
  BY <1>2, PutsKeeps, MigrationAssumption DEF ScanInv
<1>3. CASE ScanWritesGraph
  <2>1. kawn'["graph.json"] = [of |-> scans', key |-> "none"] /\ scan' = "graph" /\ "scan" \in writers'
    BY <1>3, MigrationAssumption DEF ScanWritesGraph, TypeOK, Writes
  <2>2. QED BY <2>1 DEF ScanInv
<1>4. CASE ScanWritesManifest
  <2>1. /\ kawn'["manifest.json"] = [of |-> scans', key |-> "kawnVersion"]
        /\ kawn'["graph.json"] = kawn["graph.json"]
        /\ scan' = "idle" /\ scans' = scans
    BY <1>4, MigrationAssumption DEF ScanWritesManifest, TypeOK
  <2>2. writers' = {"scan"} => writers = {"scan"}
    BY <1>4 DEF ScanWritesManifest, Writes, ScanInv
  <2>3. QED BY <2>1, <2>2 DEF ScanInv
<1>5. CASE ClearTarget
  BY <1>5 DEF ClearTarget, Quiet, ScanInv
<1>6. QED BY <1>1, <1>2, <1>3, <1>4, <1>5, StoreStep

\* A migration that has no file left to copy has copied them all, or had none.
LEMMA FinishedWhole ==
  ASSUME IInv, NEW p \in Migrators, Finish(p), settled' # settled
  PROVE  /\ \A n \in Files(Legacy) : kawn[n] # Absent
         /\ writers \subseteq {p, "scan"} => \A n \in Files(Legacy) : kawn[n] # Torn
         /\ p \in writers /\ Done(p) = Files(Legacy) /\ proc[p].pc = "copy"
         /\ ~blind /\ writers \subseteq {p} => Alone(p)
<1> USE DEF IInv
<1>1. ~(proc[p].plan \subseteq {"ignore"}) /\ proc[p].pc = "copy" /\ Busy(p) /\ proc[p].items = {}
  BY DEF Finish, Reports, Busy
<1>2. CopyOK(p)
  BY DEF CopyInv
<1>3. Planned(p) # {}
  BY <1>1 DEF Planned
<1>4. Done(p) = Files(Legacy) /\ Done(p) # {}
  BY <1>1, <1>2, <1>3 DEF CopyOK, PlanOK, Done
<1>5. QED BY <1>1, <1>2, <1>4 DEF CopyOK, Underway

LEMMA KeptNext == ASSUME IInv, [Next]_vars PROVE KeptInv'
<1> USE DEF IInv
<1>1. CASE UNCHANGED <<kawn, writers, settled, legacy>>
  BY <1>1 DEF KeptInv, Files
<1>2. ASSUME NEW n, NEW c, Puts("scan", n, c), c # Torn, legacy' = legacy PROVE KeptInv'
  <2>1. Files(Legacy) \subseteq AllNames
    BY DEF Files
  <2>2. QED BY <1>2, <2>1, PutsKeeps DEF KeptInv, Files
<1>3. ASSUME NEW p \in Migrators, Finish(p) PROVE KeptInv'
  <2>1. UNCHANGED <<kawn, writers, legacy>>
    BY <1>3 DEF Finish, Reports
  <2>2. CASE settled' = settled
    BY <1>1, <2>1, <2>2
  <2>3. CASE settled' # settled
    <3>1. ASSUME NEW w \in Migrators \cup {"scan"}, writers \subseteq {w, "scan"}
          PROVE  writers \subseteq {p, "scan"}
      BY <1>3, <2>3, <3>1, FinishedWhole, MigrationAssumption
    <3>2. QED BY <1>3, <2>1, <2>3, <3>1, FinishedWhole DEF KeptInv, Files
  <2>4. QED BY <2>2, <2>3
<1>4. CASE RemoveLegacy
  BY <1>4 DEF RemoveLegacy, KeptInv, Files, history
<1>5. CASE ClearTarget
  <2>1. legacy' = Legacy /\ settled' = {}
    BY <1>5, FilesOfNone DEF ClearTarget, TypeOK
  <2>2. QED BY <2>1 DEF KeptInv
<1>6. legacy' = legacy \/ RemoveLegacy
  <2>1. ASSUME NEW p \in Migrators, NEW dryRun \in BOOLEAN, Start(p, dryRun) PROVE legacy' = legacy
    BY <2>1 DEF Start
  <2>2. ASSUME NEW p \in Migrators, \/ Guard(p) \/ OpenItem(p) \/ WriteItem(p) \/ CopyIgnore(p)
                                    \/ Finish(p) \/ Crash(p)
        PROVE  legacy' = legacy
    BY <2>2 DEF Guard, OpenItem, WriteItem, CopyIgnore, Finish, Reports, Crash
  <2>3. ASSUME ScanWritesGraph \/ ScanWritesManifest \/ ClearTarget PROVE legacy' = legacy
    BY <2>3 DEF ScanWritesGraph, ScanWritesManifest, ClearTarget
  <2>4. QED BY <2>1, <2>2, <2>3 DEF Next, vars
<1>7. ASSUME NEW w, NEW n, NEW c, Puts(w, n, c), legacy = Legacy, legacy' = legacy PROVE KeptInv'
  BY <1>7, PutsKeeps DEF KeptInv
<1>8. ASSUME ScanWritesGraph \/ ScanWritesManifest PROVE legacy' = legacy
  BY <1>8 DEF ScanWritesGraph, ScanWritesManifest
<1>9. QED BY <1>1, <1>2, <1>3, <1>4, <1>5, <1>6, <1>7, <1>8, StoreStep

LEMMA WholeNext == ASSUME IInv, [Next]_vars PROVE WholeInv'
<1> USE DEF IInv
<1>1. CASE UNCHANGED <<kawn, writers, settled>> /\ (blind' = blind \/ blind')
  BY <1>1 DEF WholeInv, Files
<1>2. ASSUME settled' = {} PROVE WholeInv'
  BY <1>2 DEF WholeInv
<1>3. ASSUME NEW p \in Migrators, Finish(p) PROVE WholeInv'
  <2>1. kawn' = kawn /\ writers' = writers /\ blind' = blind
    BY <1>3 DEF Finish, Reports
  <2>2. ASSUME settled' # settled, ~blind, NEW w, writers \subseteq {w}, NEW n \in AllNames
        PROVE  /\ n \in Files(Legacy) => kawn[n] \notin {Absent, Torn} /\ kawn[n].of = Legacy[n].of
               /\ n \in Sidecars /\ kawn[n] # Absent => kawn[n].key # "atharVersion"
    <3>1. Alone(p) /\ Done(p) = Files(Legacy) /\ proc[p].open = NoItem
      <4>1. w = p
        BY <1>3, <2>2, FinishedWhole
      <4>2. proc[p].open = NoItem
        BY <1>3 DEF Finish, TypeOK, MemoryOK, IsNext
      <4>3. QED BY <1>3, <2>2, <4>1, <4>2, FinishedWhole
    <3>2. n \in Files(Legacy) => kawn[n] = Carried(n)
      BY <3>1 DEF Alone
    <3>3. n \notin Files(Legacy) => kawn[n] = Absent
      BY <3>1 DEF Alone
    <3>4. QED BY <3>2, <3>3, CarriedType
  <2>3. CASE settled' # settled
    BY <2>1, <2>2, <2>3 DEF WholeInv, Files
  <2>4. QED BY <1>1, <2>1, <2>3
<1>4. CASE ClearTarget
  BY <1>2, <1>4 DEF ClearTarget
<1>5. ASSUME NEW w, NEW n, NEW c, Puts(w, n, c) PROVE WholeInv'
  BY <1>2, <1>5, PutsKeeps
<1>6. QED BY <1>1, <1>3, <1>4, <1>5, StoreStep

LEMMA PairNext == ASSUME IInv, [Next]_vars, CopyInv' PROVE PairInv'
<1> USE DEF IInv
<1>1. CASE UNCHANGED <<kawn, writers>> /\ (blind' = blind \/ blind')
  BY <1>1 DEF PairInv, Pair
<1>2. CASE ClearTarget
  BY <1>2 DEF ClearTarget, PairInv
<1>3. ASSUME NEW p \in Migrators, NEW n, NEW c, Puts(p, n, c), proc'[p].pc = "copy",
             Pair(Legacy), ~blind', NEW q \in Migrators, writers' = {q}
      PROVE  Pair(kawn')
  <2>1. p = q
    BY <1>3, PutsKeeps
  <2>2. Alone(p)' /\ Ordered(p)'
    BY <1>3, <2>1 DEF CopyInv, CopyOK
  <2>3. SUFFICES ASSUME kawn'["manifest.json"] \notin {Absent, Directory, Torn}
                 PROVE  /\ kawn'["graph.json"] \notin {Absent, Directory, Torn}
                        /\ kawn'["manifest.json"].of = kawn'["graph.json"].of
    BY DEF Pair
  <2>4. "manifest.json" \in Done(p)' /\ kawn'["manifest.json"] = Carried("manifest.json")
    BY <2>2, <2>3, MigrationAssumption DEF Alone
  <2>5. "manifest.json" \in Files(Legacy)
    <3>1. Done(p)' \subseteq Files(Legacy)
      BY <1>3 DEF CopyInv, CopyOK, Busy, PlanOK, Done, Files
    <3>2. QED BY <2>4, <3>1
  <2>6. "graph.json" \in Files(Legacy) /\ Legacy["manifest.json"].of = Legacy["graph.json"].of
    BY <1>3, <2>5, MigrationAssumption DEF Pair, Files
  <2>7. "graph.json" \in Done(p)'
    BY <2>2, <2>4, <2>6 DEF Ordered, Files
  <2>8. kawn'["graph.json"] = Carried("graph.json")
    BY <2>2, <2>7, MigrationAssumption DEF Alone
  <2>9. QED BY <2>4, <2>5, <2>6, <2>8, CarriedType, MigrationAssumption
<1>4. ASSUME NEW p \in Migrators, NEW n, NEW c, Puts(p, n, c), proc'[p].pc = "copy" PROVE PairInv'
  BY <1>3, <1>4 DEF PairInv, Pair
<1>5. ASSUME NEW n, NEW c, Puts("scan", n, c) PROVE PairInv'
  BY <1>5, PutsKeeps, MigrationAssumption DEF PairInv
<1>6. QED BY <1>1, <1>2, <1>4, <1>5, StoreStep
-----------------------------------------------------------------------------
(* The theorems                                                            *)

LEMMA Invariance == Spec => []IInv
<1>1. Init => IInv
  <2> SUFFICES ASSUME Init PROVE IInv
    OBVIOUS
  <2>1. \A p \in Migrators : proc[p].pc = "idle"
    BY DEF Init, Idle
  <2>2. CopyInv
    BY <2>1 DEF CopyInv, CopyOK, Busy
  <2>3. WritersInv /\ ScanInv /\ KeptInv /\ WholeInv /\ PairInv
    BY FilesOfNone DEF Init, WritersInv, ScanInv, KeptInv, WholeInv, PairInv
  <2>4. QED BY <2>2, <2>3, TypeInit DEF IInv
<1>2. IInv /\ [Next]_vars => IInv'
  <2>1. ASSUME IInv, [Next]_vars PROVE IInv'
    <3>1. TypeOK' BY <2>1, TypeNext DEF IInv
    <3>2. CopyInv' BY <2>1, CopyNext
    <3>3. QED BY <2>1, <3>1, <3>2, WritersNext, ScanNext, KeptNext, WholeNext, PairNext DEF IInv
  <2>2. QED BY <2>1
<1>3. QED BY <1>1, <1>2, PTL DEF Spec

\* Type correctness, whatever crashes, restarts and scans come in between: in particular
\* a file is open only while copying, and always the next of the plan (migrateLegacyData).
THEOREM TypeCorrect == Spec => []TypeOK
<1>1. IInv => TypeOK BY DEF IInv
<1>2. QED BY <1>1, Invariance, PTL

LEMMA OneWriter ==
  ASSUME TypeOK, Cardinality(writers) <= 1, writers # {}
  PROVE  \E w \in Migrators \cup {"scan"} : writers = {w}
<1>1. IsFiniteSet(writers)
  <2>1. IsFiniteSet(Migrators \cup {"scan"})
    BY FS_AddElement, MigrationAssumption
  <2>2. QED BY <2>1, FS_Subset DEF TypeOK
<1>2. Cardinality(writers) \in Nat /\ Cardinality(writers) # 0
  BY <1>1, FS_CardinalityType, FS_EmptySet
<1>3. Cardinality(writers) = 1
  BY <1>2
<1>4. QED BY <1>1, <1>3, FS_Singleton DEF TypeOK

\* At most one migration among the writers.
LEMMA OneMigration ==
  ASSUME TypeOK, Cardinality(writers \ {"scan"}) <= 1
  PROVE  \E w \in Migrators \cup {"scan"} : writers \subseteq {w, "scan"}
<1>1. IsFiniteSet(writers \ {"scan"}) /\ writers \ {"scan"} \subseteq Migrators
  BY FS_Subset, MigrationAssumption DEF TypeOK
<1>2. CASE writers \ {"scan"} = {}
  BY <1>2
<1>3. CASE writers \ {"scan"} # {}
  <2>1. Cardinality(writers \ {"scan"}) = 1
    BY <1>1, <1>3, FS_CardinalityType, FS_EmptySet
  <2>2. PICK w : writers \ {"scan"} = {w}
    BY <1>1, <2>1, FS_Singleton
  <2>3. QED BY <1>1, <2>2
<1>4. QED BY <1>2, <1>3

\* What the user is told to remove is never the only whole copy, unless two migrations
\* wrote: a plain file of .athar/ is there as it was, or there is one of its name in .kawn/
\* that is not torn (the closing notes of migrateLegacyData).
THEOREM LegacyKept == Spec => []NothingLost
<1>1. IInv => NothingLost
  <2>1. SUFFICES ASSUME IInv, Cardinality(writers \ {"scan"}) <= 1, legacy # Legacy
                 PROVE  \A n \in Files(Legacy) : kawn[n] \notin {Absent, Torn}
    BY DEF NothingLost
  <2>2. QED BY <2>1, OneMigration DEF IInv, KeptInv
<1>2. QED BY <1>1, Invariance, PTL

\* A migration that reports files copied, with nobody else writing, has brought over every
\* plain file and no sidecar under its old key (the copy loop and copyDataFile).
THEOREM SuccessWhole == Spec => []SuccessIsWhole
<1>1. IInv => SuccessIsWhole
  <2>1. ASSUME IInv, settled # {}, ~blind, Cardinality(writers) <= 1
        PROVE  \E w \in Migrators \cup {"scan"} : writers \subseteq {w}
    <3>1. CASE writers = {} BY <3>1
    <3>2. CASE writers # {} BY <2>1, <3>2, OneWriter DEF IInv
    <3>3. QED BY <3>1, <3>2
  <2>2. QED BY <2>1 DEF IInv, WholeInv, SuccessIsWhole
<1>2. QED BY <1>1, Invariance, PTL

\* If the manifest of .athar/ described its graph, then so does every manifest that can be
\* read in a .kawn/ with one writer, be it a scan or a migration killed half way.
THEOREM PairTrue == ASSUME Pair(Legacy) PROVE Spec => []PairIsTrue
<1>1. IInv => PairIsTrue
  <2> SUFFICES ASSUME IInv, Cardinality(writers) <= 1, ~blind, kawn["manifest.json"] \notin {Absent, Torn},
                      scan = "idle"
               PROVE  /\ kawn["graph.json"] \notin {Absent, Torn}
                      /\ kawn["manifest.json"].of = kawn["graph.json"].of
    BY DEF PairIsTrue
  <2>1. writers # {}
    BY MigrationAssumption DEF IInv, TypeOK, WritersInv, Files
  <2>2. PICK w \in Migrators \cup {"scan"} : writers = {w}
    BY <2>1, OneWriter DEF IInv
  <2>3. CASE w = "scan"
    <3>1. kawn["graph.json"] = [of |-> scans, key |-> "none"] /\ kawn["manifest.json"].of = scans
      BY <2>2, <2>3 DEF IInv, ScanInv
    <3>2. [of |-> scans, key |-> "none"] \in Contents
      BY DEF IInv, TypeOK, Contents
    <3>3. QED BY <3>1, <3>2, MigrationAssumption
  <2>4. CASE w \in Migrators
    <3>1. Pair(kawn)
      BY <2>2, <2>4 DEF IInv, PairInv
    <3>2. Directory # kawn["manifest.json"]
      BY MigrationAssumption DEF IInv, TypeOK
    <3>3. QED BY <3>1, <3>2 DEF Pair
  <2>5. QED BY <2>3, <2>4
<1>2. QED BY <1>1, Invariance, PTL

\* A migration beside which nobody has written opens only files that are not there yet: the
\* one look of the conflict guard is enough for it.
THEOREM NoTruncation == Spec => TruncatesNothing
<1> DEFINE Kept == \A p \in Migrators :
                     Copying(p) /\ p \notin joined /\ ~blind => kawn[proc'[p].open.name] = Absent
<1>1. ASSUME IInv, [Next]_vars, NEW p \in Migrators, Copying(p), p \notin joined, ~blind
      PROVE  kawn[proc'[p].open.name] = Absent
  <2>1. OpenItem(p)
    <3>1. ASSUME NEW q \in Migrators, NEW status, End(q, status) PROVE FALSE
      BY <1>1, <3>1 DEF End, Copying, IInv, TypeOK, Idle
    <3>2. ASSUME NEW q \in Migrators, NEW dryRun \in BOOLEAN, Start(q, dryRun) PROVE FALSE
      <4>1. CASE ~present
        BY <3>1, <3>2, <4>1 DEF Start
      <4>2. CASE present
        <5>1. PICK listed \in Listings(legacy) :
                proc' = [proc EXCEPT ![q] = [Idle EXCEPT !.pc = "guard", !.plan = Plan(listed),
                                                         !.items = Plan(listed), !.dryRun = dryRun]]
          BY <3>2, <4>2 DEF Start
        <5>2. QED BY <1>1, <5>1 DEF Copying, IInv, TypeOK, Idle
      <4>3. QED BY <4>1, <4>2
    <3>3. ASSUME NEW q \in Migrators, Guard(q) PROVE FALSE
      <4>1. proc' = [proc EXCEPT ![q].pc = "copy"]
        BY <3>1, <3>3 DEF Guard
      <4>2. QED BY <1>1, <4>1 DEF Copying, IInv, TypeOK, Memory
    <3>4. ASSUME NEW q \in Migrators, WriteItem(q) \/ CopyIgnore(q) PROVE FALSE
      BY <1>1, <3>4 DEF WriteItem, CopyIgnore, Copying, IInv, TypeOK, Memory
    <3>5. ASSUME NEW q \in Migrators, Finish(q) \/ Crash(q) PROVE FALSE
      BY <3>1, <3>5 DEF Finish, Reports, Crash
    <3>6. ASSUME NEW q \in Migrators, OpenItem(q), q # p PROVE FALSE
      <4>1. PICK m : proc' = [proc EXCEPT ![q].open = m]
        BY <3>1, <3>6 DEF OpenItem
      <4>2. proc'[p] = proc[p]
        BY <3>6, <4>1 DEF IInv, TypeOK
      <4>3. QED BY <1>1, <4>2 DEF Copying
    <3>7. ASSUME proc' = proc PROVE FALSE
      BY <1>1, <3>7 DEF Copying
    <3>8. QED
      BY <1>1, <3>2, <3>3, <3>4, <3>5, <3>6, <3>7
         DEF Next, ScanWritesGraph, ScanWritesManifest, ClearTarget, RemoveLegacy, vars
  <2>2. PICK n \in AllNames :
          /\ IsNext(n, proc[p].items)
          /\ IF legacy[n] = Absent THEN End(p, "failed") /\ UNCHANGED <<kawn, history>>
             ELSE /\ proc' = [proc EXCEPT ![p].open = [name |-> n, as |-> Converted(n)]]
                  /\ kawn' = [kawn EXCEPT ![n] = Torn]
                  /\ Writes(p)
    BY <2>1 DEF OpenItem
  <2>3. proc'[p].open.name = n
    <3>1. ~End(p, "failed")
      BY <1>1 DEF End, Copying, IInv, TypeOK, Idle
    <3>2. PICK v : v = [name |-> n, as |-> Converted(n)] /\ proc' = [proc EXCEPT ![p].open = v]
      BY <2>2, <3>1
    <3>3. proc'[p].open = v
      BY <1>1, <3>2 DEF IInv, TypeOK, Memory
    <3>4. QED BY <3>2, <3>3
  <2>4. Alone(p) /\ proc[p].open = NoItem
    BY <1>1, <2>1 DEF IInv, CopyInv, CopyOK, OpenItem
  <2>5. n \notin Done(p)
    BY <2>2 DEF IsNext, Done
  <2>6. QED BY <2>3, <2>4, <2>5 DEF Alone
<1>2. IInv /\ [Next]_vars => [Kept]_vars
  BY <1>1
<1>3. QED BY <1>2, Invariance, PTL DEF Spec, TruncatesNothing
=============================================================================

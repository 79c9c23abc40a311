--------------------------- MODULE LegacyMigration ---------------------------
(***************************************************************************)
(* `kawn migrate`: copying a `.athar/` directory from before the rebrand   *)
(* into `.kawn/`, file by file, beside a `kawn scan` that fills `.kawn/`    *)
(* and a user who follows the notes the command prints.  A migration may   *)
(* be killed between any two steps, in the middle of a file too, and a     *)
(* directory may be impossible to list, which the code takes for empty.    *)
(*                                                                         *)
(* A file is [of, key]: the scan whose graph it holds or describes, and    *)
(* the name its version is kept under.                                      *)
(***************************************************************************)
EXTENDS Naturals, Sequences, FiniteSets

CONSTANTS
  Names,       \* the names in .athar/, in alphabetical order
  Legacy,      \* [name -> its content, Directory or Absent] when the story begins
  Migrators,   \* processes that run `kawn migrate`
  MaxScans,    \* bound on the scans of the story
  MaxStarts,   \* bound on the migrations of the story
  Absent, Torn, Directory, NoItem

AllNames == {Names[i] : i \in DOMAIN Names}

\* A file's content; a scan's own file is the newest it has written.
Contents == [of : 0..MaxScans, key : {"atharVersion", "kawnVersion", "none"}]

\* The sidecars of a scan are always among the names; "ignore" stands for the ignore
\* file of the root, which is no file of the directory.
ASSUME MigrationAssumption ==
  /\ Names \in Seq(STRING)
  /\ \A i, j \in DOMAIN Names : Names[i] = "graph.json" /\ Names[j] = "manifest.json" => i < j
  /\ {"graph.json", "manifest.json"} \subseteq AllNames /\ "ignore" \notin AllNames
  /\ MaxScans \in Nat /\ MaxStarts \in Nat
  /\ Legacy \in [AllNames -> Contents \cup {Absent, Directory}]
  /\ Absent \notin Contents /\ Torn \notin Contents /\ Directory \notin Contents
  /\ Absent # Torn /\ Directory # Absent /\ Directory # Torn
  /\ NoItem \notin [name : AllNames, as : Contents]
  /\ IsFiniteSet(Migrators) /\ "scan" \notin Migrators

Sidecars == {"manifest.json", "config.json"}

VARIABLES
  present,     \* BOOLEAN: there is a directory .athar/
  legacy,      \* what it holds: [name -> content, Directory or Absent]
  kawn,        \* .kawn/
  ignore,      \* [legacy, canonical : BOOLEAN]: .atharignore and .kawnignore
  proc,        \* memory of every migration
  scan,        \* "idle", "graph": a scan has written its graph but no manifest
  scans,       \* scans so far
  starts,      \* migrations so far
  \* history variables
  writers,     \* who wrote .kawn/ since it was last empty
  joined,      \* running migrations beside which somebody else wrote
  settled,     \* migrations that reported files copied, with .kawn/ untouched since
  blind        \* BOOLEAN: one went on over a .kawn/ it could not list, since it was last empty

history == <<writers, joined, settled, blind>>
vars == <<present, legacy, kawn, ignore, proc, scan, scans, starts, history>>

\* listFiles: the plain files of a directory; a subdirectory or a link is none.
Files(dir) == {n \in AllNames : dir[n] \notin {Absent, Directory}}

\* What it returns: the files, or nothing if the directory cannot be read.
Listings(dir) == {Files(dir), {}}
Empty == [n \in AllNames |-> Absent]

Idle == [pc |-> "idle", plan |-> {}, items |-> {}, dryRun |-> FALSE, open |-> NoItem, status |-> "none"]

Init ==
  /\ present = TRUE /\ legacy = Legacy
  /\ kawn = Empty
  /\ ignore \in [legacy : BOOLEAN, canonical : BOOLEAN]
  /\ proc = [p \in Migrators |-> Idle]
  /\ scan = "idle" /\ scans = 0 /\ starts = 0
  /\ writers = {} /\ joined = {} /\ settled = {} /\ blind = FALSE

Busy(p) == proc[p].pc # "idle"

\* w writes in .kawn/, beside the migrations under way.
Writes(w) == /\ writers' = writers \cup {w}
             /\ joined' = joined \cup {p \in Migrators : Busy(p) /\ p # w}
             /\ settled' = {} /\ UNCHANGED blind

End(p, status) == proc' = [proc EXCEPT ![p] = [Idle EXCEPT !.status = status]]

-----------------------------------------------------------------------------
(* kawn migrate                                                            *)

\* Every file listed in .athar/, and the ignore file if there is none yet.
Plan(listed) == listed \cup (IF ignore.legacy /\ ~ignore.canonical THEN {"ignore"} ELSE {})

\* A fault: the files in the order readdir gives them.
BeforeUnsorted(m, n) == n = "ignore" \/ \E i, j \in DOMAIN Names : j < i /\ Names[i] = m /\ Names[j] = n

\* The files by name, and the ignore file last.
Before(m, n) == n = "ignore" \/ \E i, j \in DOMAIN Names : i < j /\ Names[i] = m /\ Names[j] = n
IsNext(n, items) == n \in items /\ \A m \in items \ {n} : Before(n, m)

\* detectLegacyData and the plan.
Start(p, dryRun) ==
  /\ ~Busy(p) /\ starts < MaxStarts
  /\ starts' = starts + 1
  /\ joined' = joined \ {p}
  /\ IF present
     THEN \E listed \in Listings(legacy) :
            proc' = [proc EXCEPT ![p] = [Idle EXCEPT !.pc = "guard", !.plan = Plan(listed),
                                                     !.items = Plan(listed), !.dryRun = dryRun]]
     ELSE End(p, "no-legacy")
  /\ UNCHANGED <<present, legacy, kawn, ignore, scan, scans, writers, settled, blind>>

\* A fault: only a directory with a manifest counts as existing.
GuardManifest(p) ==
  /\ proc[p].pc = "guard"
  /\ CASE kawn["manifest.json"] # Absent -> End(p, "conflict")
       [] kawn["manifest.json"] = Absent /\ proc[p].dryRun -> End(p, "planned")
       [] OTHER -> proc' = [proc EXCEPT ![p].pc = "copy"]
  /\ UNCHANGED <<present, legacy, kawn, ignore, scan, scans, starts, history>>

\* A .kawn/ seen to hold any file is a conflict; a dry run ends here.
Guard(p) ==
  /\ proc[p].pc = "guard"
  /\ \E seen \in Listings(kawn) :
       /\ CASE seen # {} -> End(p, "conflict")
            [] seen = {} /\ proc[p].dryRun -> End(p, "planned")
            [] OTHER -> proc' = [proc EXCEPT ![p].pc = "copy"]
       /\ blind' = (blind \/ (seen # Files(kawn) /\ ~proc[p].dryRun))
  /\ UNCHANGED <<present, legacy, kawn, ignore, scan, scans, starts, writers, joined, settled>>

\* The bytes at the destination: a sidecar's old key is renamed unless it has the new one.
Converted(n) == IF n \in Sidecars /\ legacy[n].key = "atharVersion"
                THEN [legacy[n] EXCEPT !.key = "kawnVersion"] ELSE legacy[n]

\* The next file is opened, and truncated if it is there; without a source the command fails.
OpenItem(p) ==
  /\ proc[p].pc = "copy" /\ proc[p].open = NoItem
  /\ \E n \in AllNames :
       /\ IsNext(n, proc[p].items)
       /\ IF legacy[n] = Absent THEN End(p, "failed") /\ UNCHANGED <<kawn, history>>
          ELSE /\ proc' = [proc EXCEPT ![p].open = [name |-> n, as |-> Converted(n)]]
               /\ kawn' = [kawn EXCEPT ![n] = Torn]
               /\ Writes(p)
  /\ UNCHANGED <<present, legacy, ignore, scan, scans, starts>>

WriteItem(p) ==
  /\ proc[p].open # NoItem
  /\ kawn' = [kawn EXCEPT ![proc[p].open.name] = proc[p].open.as]
  /\ proc' = [proc EXCEPT ![p].items = @ \ {proc[p].open.name}, ![p].open = NoItem]
  /\ Writes(p)
  /\ UNCHANGED <<present, legacy, ignore, scan, scans, starts>>

\* The ignore file is copied to the root, over one that came to be in between.
CopyIgnore(p) ==
  /\ proc[p].pc = "copy" /\ proc[p].open = NoItem /\ IsNext("ignore", proc[p].items)
  /\ proc' = [proc EXCEPT ![p].items = @ \ {"ignore"}]
  /\ ignore' = [ignore EXCEPT !.canonical = TRUE]
  /\ UNCHANGED <<present, legacy, kawn, scan, scans, starts, history>>

\* "Migrated N item(s)": the result names what was planned, be it nothing.
Reports(p) == /\ End(p, "migrated")
              /\ settled' = settled \cup (IF proc[p].plan \subseteq {"ignore"} THEN {} ELSE {p})
              /\ UNCHANGED <<present, legacy, kawn, ignore, scan, scans, starts, writers, joined,
                             blind>>

\* A fault: the last copy is not awaited.
FinishEarly(p) == proc[p].pc = "copy" /\ Cardinality(proc[p].items) <= 1 /\ Reports(p)

Finish(p) == proc[p].pc = "copy" /\ proc[p].items = {} /\ Reports(p)

\* The process is killed; what it wrote stays.
Crash(p) ==
  /\ Busy(p)
  /\ End(p, "killed")
  /\ UNCHANGED <<present, legacy, kawn, ignore, scan, scans, starts, history>>

-----------------------------------------------------------------------------
(* The rest of the world                                                   *)

\* A scan writes its graph and then its manifest; its own faults are GraphStore's.
ScanWritesGraph ==
  /\ scan = "idle" /\ scans < MaxScans
  /\ scan' = "graph" /\ scans' = scans + 1
  /\ kawn' = [kawn EXCEPT !["graph.json"] = [of |-> scans + 1, key |-> "none"]]
  /\ Writes("scan")
  /\ UNCHANGED <<present, legacy, ignore, proc, starts>>

ScanWritesManifest ==
  /\ scan = "graph"
  /\ scan' = "idle"
  /\ kawn' = [kawn EXCEPT !["manifest.json"] = [of |-> scans, key |-> "kawnVersion"]]
  /\ Writes("scan")
  /\ UNCHANGED <<present, legacy, ignore, proc, scans, starts>>

Quiet == scan = "idle" /\ \A p \in Migrators : ~Busy(p)

\* "move or delete .kawn/ first": the user clears the way for another migration.
ClearTarget ==
  /\ Quiet /\ Files(kawn) # {} /\ Files(legacy) # {}
  /\ \E p \in Migrators : proc[p].status = "conflict"
  /\ kawn' = Empty
  /\ writers' = {} /\ settled' = {} /\ blind' = FALSE /\ UNCHANGED joined
  /\ UNCHANGED <<present, legacy, ignore, proc, scan, scans, starts>>

\* "remove it yourself once you have verified the migration": the directory, or what is
\* in it.  A user told that no item was migrated does not.
RemoveLegacy ==
  /\ Quiet /\ settled # {} /\ Files(legacy) # {}
  /\ legacy' = Empty /\ present' \in BOOLEAN
  /\ UNCHANGED <<kawn, ignore, proc, scan, scans, starts, history>>

Next ==
  \/ \E p \in Migrators, dryRun \in BOOLEAN : Start(p, dryRun)
  \/ \E p \in Migrators : \/ Guard(p) \/ OpenItem(p) \/ WriteItem(p) \/ CopyIgnore(p)
                          \/ Finish(p) \/ Crash(p)
  \/ ScanWritesGraph \/ ScanWritesManifest \/ ClearTarget \/ RemoveLegacy

Spec == Init /\ [][Next]_vars

-----------------------------------------------------------------------------
(* Properties                                                              *)

Statuses == {"none", "no-legacy", "conflict", "planned", "migrated", "failed", "killed"}

Items == SUBSET (AllNames \cup {"ignore"})
Memory == [pc : {"idle", "guard", "copy"}, plan : Items, items : Items,
           dryRun : BOOLEAN, open : [name : AllNames, as : Contents] \cup {NoItem},
           status : Statuses]

\* A file is open only while copying, and it is the next of the plan.
MemoryOK(m) == /\ m \in Memory
               /\ m.open # NoItem => m.pc = "copy" /\ IsNext(m.open.name, m.items)

\* Type invariant.
TypeOK ==
  /\ present \in BOOLEAN /\ blind \in BOOLEAN
  /\ legacy \in {Legacy, Empty}
  /\ kawn \in [AllNames -> Contents \cup {Absent, Torn}]
  /\ ignore \in [legacy : BOOLEAN, canonical : BOOLEAN]
  /\ proc \in [Migrators -> Memory] /\ \A p \in Migrators : MemoryOK(proc[p])
  /\ scan \in {"idle", "graph"} /\ scans \in 0..MaxScans /\ starts \in 0..MaxStarts
  /\ writers \subseteq Migrators \cup {"scan"} /\ joined \subseteq Migrators
  /\ settled \subseteq Migrators

\* A step of p opens a file of .kawn/.
Copying(p) == proc'[p].open # NoItem /\ proc[p].open = NoItem

\* A manifest that can be read describes the graph beside it, however often a migration
\* was killed half way, as long as one writer filled the directory: the manifest is copied
\* after the graph.
PairIsTrue ==
  /\ Cardinality(writers) <= 1 /\ ~blind
  /\ kawn["manifest.json"] \notin {Absent, Torn}
  /\ scan = "idle"
  => /\ kawn["graph.json"] \notin {Absent, Torn}
     /\ kawn["manifest.json"].of = kawn["graph.json"].of

\* After "Migrated N item(s)" with a file among the N, and nobody else writing, .kawn/ holds
\* every plain file that .athar/ held and no sidecar under its old key, although earlier
\* attempts may have left parts of it.  What a subdirectory held is not brought over.
SuccessIsWhole ==
  settled # {} /\ Cardinality(writers) <= 1 /\ ~blind =>
    \A n \in AllNames :
      /\ n \in Files(Legacy) => kawn[n] \notin {Absent, Torn} /\ kawn[n].of = Legacy[n].of
      /\ n \in Sidecars /\ kawn[n] # Absent => kawn[n].key # "atharVersion"

\* What the user is told to remove is never the only whole copy of a plain file, be it that
\* a scan or an earlier attempt has written beside the migration the user trusts; two
\* migrations at once are excluded, since one killed may leave torn what the other copied.
NothingLost ==
  Cardinality(writers \ {"scan"}) <= 1 =>
    \A n \in Files(Legacy) : legacy[n] = Legacy[n] \/ kawn[n] \notin {Absent, Torn}

\* A migration nobody writes beside truncates no file: whatever an earlier attempt, a scan
\* or another migration had left in a .kawn/ that can be listed is a conflict.
TruncatesNothing ==
  [][\A p \in Migrators : Copying(p) /\ p \notin joined /\ ~blind =>
       kawn[proc'[p].open.name] = Absent]_vars

\* "never ... overwriting an existing non-empty `.kawn/`" (migrate.ts:12): a migration
\* does not change a file another process put there.
NeverOverwrites ==
  [][\A p \in Migrators : Copying(p) => writers \subseteq {p}]_vars
=============================================================================

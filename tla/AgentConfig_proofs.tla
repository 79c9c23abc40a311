------------------------- MODULE AgentConfig_proofs -------------------------
(***************************************************************************)
(* What holds of `kawn setup` and `kawn disconnect` for any agents, any    *)
(* number of commands, and any edits in between.                           *)
(*                                                                         *)
(* And that the edits of Codex' configuration, which are edits of a text,  *)
(* are what the commands take them for.  A text and what an edit makes of  *)
(* it are compared by what is left when the lines that do not count are    *)
(* taken out of both.                                                      *)
(***************************************************************************)
EXTENDS AgentConfig, TomlTable, Loops, TLAPS

\* What AgentTypeOK says of the memory of one command.
MemoryOK(m) ==
  /\ m \in Memory
  /\ m.stage # "idle"
       => /\ m.agent \in Agents
          /\ \/ /\ m.cmd = "setup"
                /\ \/ m.stage \in {"readBook", "writeBook"}
                   \/ m.want \in Launches
             \/ m.cmd = "disconnect"

\* The state that is no history, and the history.
StoreOK ==
  /\ file \in [Agents -> FileState]
  /\ records \in Book
  /\ backups \in Seq(FileState)
  /\ begun \in 0..MaxCommands /\ edits \in 0..MaxEdits

CommandsOK == /\ proc \in [Procs -> Memory]
              /\ \A p \in Procs : MemoryOK(proc[p])

Trips == [from : FileState, installs : {1, 2}] \cup {NoTrip}
Since == {"nobody", "uncopied", "commands", "lost"}
Ends  == {"no", "nothing", "removed"}

HistoryOK ==
  /\ alone \in [Procs -> BOOLEAN]
  /\ since \in [Procs -> Since]
  /\ trip \in [Agents -> Trips]
  /\ gone \in [Agents -> Ends]

LEMMA TypeParts == AgentTypeOK <=> StoreOK /\ CommandsOK /\ HistoryOK
BY DEF AgentTypeOK, StoreOK, CommandsOK, HistoryOK, MemoryOK, Trips, Since, Ends, At

LEMMA IdleOK == MemoryOK(Idle)
BY DEF MemoryOK, Memory, Idle, Stages, FileState, Book

\* What a command writes is a configuration file.
LEMMA WrittenOK ==
  ASSUME NEW f \in FileState, NEW v \in Launches
  PROVE  /\ RestOf(f) \in Rests
         /\ Ours(v) \in FileState
         /\ Merged(f, v) \in FileState
         /\ Stripped(f) \in FileState
BY AgentAssumption DEF RestOf, Ours, Merged, Stripped, FileState, Config

\* A command that updates its own memory leaves the others alone.
LEMMA OwnMemory ==
  ASSUME CommandsOK, NEW p \in Procs, NEW m, MemoryOK(m),
         proc' = [proc EXCEPT ![p] = m]
  PROVE  /\ CommandsOK'
         /\ proc'[p] = m
         /\ \A q \in Procs \ {p} : proc'[q] = proc[q]
<1>1. /\ proc' \in [Procs -> Memory]
      /\ proc'[p] = m
      /\ \A q \in Procs \ {p} : proc'[q] = proc[q]
  BY DEF CommandsOK, MemoryOK
<1>2. \A q \in Procs : MemoryOK(proc'[q])
  BY <1>1 DEF CommandsOK
<1>3. QED BY <1>1, <1>2 DEF CommandsOK, MemoryOK

LEMMA MoveOK ==
  ASSUME CommandsOK, HistoryOK, NEW p \in Procs, NEW m, MemoryOK(m),
         NEW ok, Move(p, m, ok)
  PROVE  /\ CommandsOK'
         /\ proc'[p] = m
         /\ \A q \in Procs \ {p} : proc'[q] = proc[q]
         /\ alone' \in [Procs -> BOOLEAN]
         /\ alone'[p] => alone[p] /\ m # Idle /\ ok
         /\ \A q \in Procs \ {p} : alone'[q] = alone[q]
<1>1. /\ CommandsOK'
      /\ proc'[p] = m
      /\ \A q \in Procs \ {p} : proc'[q] = proc[q]
  BY OwnMemory DEF Move
<1>2. alone' = [alone EXCEPT ![p] = alone[p] /\ m # Idle /\ ok]
  BY DEF Move
<1>3. (alone[p] /\ m # Idle /\ ok) \in BOOLEAN
  OBVIOUS
<1>4. /\ alone' \in [Procs -> BOOLEAN]
      /\ alone'[p] => alone[p] /\ m # Idle /\ ok
      /\ \A q \in Procs \ {p} : alone'[q] = alone[q]
  BY <1>2, <1>3, Zenon DEF HistoryOK
<1>5. QED BY <1>1, <1>4

-----------------------------------------------------------------------------
(* Type correctness, one lemma per step of a command                       *)

TypeState == StoreOK /\ CommandsOK /\ HistoryOK

LEMMA BeginOK ==
  ASSUME TypeState, NEW p \in Procs, NEW a \in Agents, NEW force \in BOOLEAN,
         NEW cmd, NEW v, Begin(p, cmd, a, v, force),
         \/ cmd = "setup" /\ v \in Launches
         \/ cmd = "disconnect" /\ v = None
  PROVE  TypeState'
<1> DEFINE m == [Idle EXCEPT !.cmd = cmd, !.agent = a, !.want = v, !.force = force,
                   !.stage = IF cmd = "disconnect" /\ a \in Owned THEN "record"
                             ELSE "read"]
<1>1. MemoryOK(m)
  BY IdleOK DEF MemoryOK, Memory, Idle, Stages
<1>2. proc' = [proc EXCEPT ![p] = m]
  BY DEF Begin
<1> HIDE DEF m
<1>3. CommandsOK'
  BY <1>1, <1>2, OwnMemory DEF TypeState
<1>4. StoreOK'
  BY AgentAssumption DEF TypeState, StoreOK, Begin, diskVars
<1>5. HistoryOK'
  <2>1. alone' = [q \in Procs |-> q = p /\ \A r \in Procs \ {p} : At(r, "idle")]
    BY DEF Begin
  <2>2. alone' \in [Procs -> BOOLEAN]
    BY <2>1, Zenon
  <2>3. QED BY <2>2 DEF TypeState, HistoryOK, Begin
<1>6. QED BY <1>3, <1>4, <1>5 DEF TypeState

\* What ReadFile and ReadRecord make of the memory of a command.
AfterFile(m, f) == IF AfterRead(m, f) = "idle" THEN Idle
                   ELSE [m EXCEPT !.read = f, !.stage = AfterRead(m, f)]

AfterBook(m, rec) == [m EXCEPT !.stage = AfterRecord(m, rec), !.force = FALSE,
                        !.rec = IF m.cmd = "setup" THEN NoRecord ELSE rec]

LEMMA AfterFileOK ==
  ASSUME NEW m, MemoryOK(m), m.stage = "read", NEW f \in FileState
  PROVE  /\ MemoryOK(AfterFile(m, f))
         /\ AfterRead(m, f) = "idle" => AfterFile(m, f) = Idle
         /\ AfterRead(m, f) # "idle"
              => /\ AfterFile(m, f).stage = AfterRead(m, f)
                 /\ AfterFile(m, f).read = f
                 /\ AfterFile(m, f).agent = m.agent
                 /\ AfterFile(m, f).cmd = m.cmd
                 /\ AfterFile(m, f).rec = m.rec
                 /\ AfterRead(m, f) \in {"record", "backup", "write"}
         /\ AfterRead(m, f) \in {"idle", "record", "backup", "write"}
<1> DEFINE next == AfterRead(m, f)
           n    == [m EXCEPT !.read = f, !.stage = next]
<1>1. next \in {"idle", "record", "backup", "write"}
  BY DEF AfterRead
<1>2. AfterFile(m, f) = IF next = "idle" THEN Idle ELSE n
  BY DEF AfterFile
<1>3. AfterRead(m, f) = next
  OBVIOUS
<1> HIDE DEF next
<1>4. next # "idle" => /\ MemoryOK(n)
                       /\ n.stage = next /\ n.read = f /\ n.agent = m.agent
                       /\ n.cmd = m.cmd /\ n.rec = m.rec
  BY <1>1 DEF MemoryOK, Memory, Stages
<1> HIDE DEF n
<1>5. QED BY <1>1, <1>2, <1>3, <1>4, IdleOK

LEMMA AfterBookOK ==
  ASSUME NEW m, MemoryOK(m), m.stage = "record", NEW rec \in Nat \cup {NoRecord}
  PROVE  /\ AfterRecord(m, rec) # "idle" => MemoryOK(AfterBook(m, rec))
         /\ AfterBook(m, rec).stage = AfterRecord(m, rec)
         /\ AfterBook(m, rec).read = m.read
         /\ AfterBook(m, rec).agent = m.agent
         /\ AfterBook(m, rec).cmd = m.cmd
         /\ m.cmd # "setup" => AfterBook(m, rec).rec = rec
         /\ AfterRecord(m, rec) \in {"idle", "read", "backup", "write"}
<1> DEFINE next == AfterRecord(m, rec)
           n    == [m EXCEPT !.stage = next, !.force = FALSE,
                      !.rec = IF m.cmd = "setup" THEN NoRecord ELSE rec]
<1>1. next \in {"idle", "read", "backup", "write"}
  BY DEF AfterRecord
<1>2. AfterBook(m, rec) = n /\ AfterRecord(m, rec) = next
  BY DEF AfterBook
<1> HIDE DEF next
<1>3. /\ next # "idle" => MemoryOK(n)
      /\ n.stage = next /\ n.read = m.read /\ n.agent = m.agent /\ n.cmd = m.cmd
      /\ m.cmd # "setup" => n.rec = rec
  BY <1>1 DEF MemoryOK, Memory, Stages
<1> HIDE DEF n
<1>4. QED BY <1>1, <1>2, <1>3

\* The file, or none, and with it all that ReadFile does.
LEMMA ReadFileParts ==
  ASSUME TypeState, NEW p \in Procs, ReadFile(p)
  PROVE  /\ MemoryOK(proc[p]) /\ proc[p].stage = "read" /\ proc[p].agent \in Agents
         /\ UNCHANGED <<file, records, backups, begun, edits, trip>>
         /\ \E f \in {file[proc[p].agent], Absent} :
              /\ f \in FileState
              /\ Move(p, AfterFile(proc[p], f), f = file[proc[p].agent])
              /\ since' = [since EXCEPT ![p] =
                   IF AfterRead(proc[p], f) # "idle" /\ f = file[proc[p].agent]
                   THEN "nobody" ELSE "lost"]
              /\ gone' = [gone EXCEPT ![proc[p].agent] =
                   IF /\ AfterRead(proc[p], f) = "idle" /\ proc[p].cmd = "disconnect"
                      /\ alone[p] /\ f = file[proc[p].agent]
                      /\ gone[proc[p].agent] # "removed"
                   THEN "nothing" ELSE gone[proc[p].agent]]
<1>1. /\ MemoryOK(proc[p]) /\ proc[p].stage = "read" /\ proc[p].agent \in Agents
      /\ file[proc[p].agent] \in FileState /\ Absent \in FileState
  BY DEF TypeState, CommandsOK, StoreOK, MemoryOK, ReadFile, At, FileState
<1>2. UNCHANGED <<file, records, backups, begun, edits, trip>>
  BY DEF ReadFile, diskVars
<1>3. PICK f \in {file[proc[p].agent], Absent} :
              /\ Move(p, AfterFile(proc[p], f), f = file[proc[p].agent])
              /\ since' = [since EXCEPT ![p] =
                   IF AfterRead(proc[p], f) # "idle" /\ f = file[proc[p].agent]
                   THEN "nobody" ELSE "lost"]
              /\ gone' = [gone EXCEPT ![proc[p].agent] =
                   IF /\ AfterRead(proc[p], f) = "idle" /\ proc[p].cmd = "disconnect"
                      /\ alone[p] /\ f = file[proc[p].agent]
                      /\ gone[proc[p].agent] # "removed"
                   THEN "nothing" ELSE gone[proc[p].agent]]
  BY Zenon DEF ReadFile, AfterFile
<1>4. f \in FileState
  BY <1>1
<1>5. QED BY <1>1, <1>2, <1>3, <1>4, Zenon

LEMMA ReadFileOK ==
  ASSUME TypeState, NEW p \in Procs, ReadFile(p)
  PROVE  TypeState'
<1> DEFINE m == proc[p]
<1>1. /\ MemoryOK(m) /\ m.stage = "read" /\ m.agent \in Agents
      /\ UNCHANGED <<file, records, backups, begun, edits, trip>>
  BY ReadFileParts
<1>2. PICK f \in FileState :
        /\ Move(p, AfterFile(m, f), f = file[m.agent])
        /\ \E x \in Since : since' = [since EXCEPT ![p] = x]
        /\ \E x \in {"nothing", gone[m.agent]} : gone' = [gone EXCEPT ![m.agent] = x]
  <2>1. \A c : (IF c THEN "nobody" ELSE "lost") \in Since
    BY DEF Since
  <2>2. \A c : (IF c THEN "nothing" ELSE gone[m.agent]) \in {"nothing", gone[m.agent]}
    OBVIOUS
  <2>3. QED BY <2>1, <2>2, ReadFileParts, Zenon
<1>3. CommandsOK' /\ alone' \in [Procs -> BOOLEAN]
  BY <1>1, <1>2, AfterFileOK, MoveOK DEF TypeState
<1>4. since' \in [Procs -> Since] /\ gone' \in [Agents -> Ends]
  BY <1>1, <1>2 DEF TypeState, HistoryOK, Ends
<1>5. QED BY <1>1, <1>3, <1>4 DEF TypeState, StoreOK, HistoryOK

LEMMA ReadRecordParts ==
  ASSUME TypeState, NEW p \in Procs, ReadRecord(p)
  PROVE  /\ MemoryOK(proc[p]) /\ proc[p].stage = "record" /\ proc[p].agent \in Agents
         /\ UNCHANGED <<file, records, backups, begun, edits, trip, gone>>
         /\ \E rec \in Nat \cup {NoRecord} :
              \/ /\ Move(p, Idle, rec = records[proc[p].agent])
                 /\ since' = [since EXCEPT ![p] = "lost"]
              \/ /\ AfterRecord(proc[p], rec) # "idle"
                 /\ Move(p, AfterBook(proc[p], rec), rec = records[proc[p].agent])
                 /\ UNCHANGED since
<1>1. /\ MemoryOK(proc[p]) /\ proc[p].stage = "record" /\ proc[p].agent \in Agents
      /\ records[proc[p].agent] \in Nat \cup {NoRecord}
  BY DEF TypeState, CommandsOK, StoreOK, Book, MemoryOK, ReadRecord, At
<1>2. UNCHANGED <<file, records, backups, begun, edits, trip, gone>>
  BY DEF ReadRecord, diskVars
<1>3. PICK rec \in {records[proc[p].agent], NoRecord} :
              \/ /\ Move(p, Idle, rec = records[proc[p].agent])
                 /\ since' = [since EXCEPT ![p] = "lost"]
              \/ /\ AfterRecord(proc[p], rec) # "idle"
                 /\ Move(p, AfterBook(proc[p], rec), rec = records[proc[p].agent])
                 /\ UNCHANGED since
  BY Zenon DEF ReadRecord, AfterBook
<1>4. rec \in Nat \cup {NoRecord}
  BY <1>1
<1>5. QED BY <1>1, <1>2, <1>3, <1>4, Zenon

LEMMA ReadRecordOK ==
  ASSUME TypeState, NEW p \in Procs, ReadRecord(p)
  PROVE  TypeState'
<1> DEFINE m == proc[p]
<1>1. /\ MemoryOK(m) /\ m.stage = "record" /\ m.agent \in Agents
      /\ UNCHANGED <<file, records, backups, begun, edits, trip, gone>>
  BY ReadRecordParts
<1>2. PICK rec \in Nat \cup {NoRecord} :
        \/ /\ Move(p, Idle, rec = records[m.agent])
           /\ since' = [since EXCEPT ![p] = "lost"]
        \/ /\ AfterRecord(m, rec) # "idle"
           /\ Move(p, AfterBook(m, rec), rec = records[m.agent])
           /\ UNCHANGED since
  BY ReadRecordParts
<1>3. AfterRecord(m, rec) # "idle" => MemoryOK(AfterBook(m, rec))
  BY <1>1, AfterBookOK
<1>4. CommandsOK' /\ alone' \in [Procs -> BOOLEAN]
  BY <1>2, <1>3, IdleOK, MoveOK DEF TypeState
<1>5. since' \in [Procs -> Since]
  BY <1>2 DEF TypeState, HistoryOK, Since
<1>6. QED BY <1>1, <1>4, <1>5 DEF TypeState, StoreOK, HistoryOK

LEMMA CopiedOK ==
  ASSUME NEW m, MemoryOK(m), m.stage = "backup", NEW saved \in Nat
  PROVE  /\ MemoryOK(Copied(m, saved))
         /\ Copied(m, saved).stage = IF m.cmd = "disconnect" THEN "record" ELSE "write"
         /\ Copied(m, saved).read = m.read
         /\ Copied(m, saved).agent = m.agent
         /\ Copied(m, saved).cmd = m.cmd
         /\ m.cmd # "disconnect" => Copied(m, saved).saved = saved
BY DEF Copied, MemoryOK, Memory, Stages

\* A copy was taken, or was not to be, or could not be.
LEMMA BackupParts ==
  ASSUME TypeState, NEW p \in Procs, Backup(p)
  PROVE  /\ MemoryOK(proc[p]) /\ proc[p].stage = "backup" /\ proc[p].agent \in Agents
         /\ UNCHANGED <<file, records, begun, edits, trip, gone>>
         /\ \E saved \in Nat, ok \in BOOLEAN :
              /\ Move(p, Copied(proc[p], saved), ok)
              /\ since' = [since EXCEPT ![p] =
                   IF ~ok /\ since[p] = "nobody" THEN "uncopied" ELSE since[p]]
              /\ \/ /\ backups' = Append(backups, file[proc[p].agent])
                    /\ saved = Len(backups) + 1
                    /\ file[proc[p].agent] # Absent
                 \/ /\ backups' = backups
                    /\ saved = 0
                    /\ ok => \/ file[proc[p].agent] = Absent
                             \/ proc[p].agent \in Owned /\ proc[p].read = Absent
<1> DEFINE m    == proc[p]
           want == file[m.agent] # Absent /\ (m.agent \in Owned => m.read # Absent)
<1>1. /\ MemoryOK(m) /\ m.stage = "backup" /\ m.agent \in Agents
      /\ Len(backups) \in Nat
  BY DEF TypeState, CommandsOK, StoreOK, MemoryOK, Backup, At
<1>2. UNCHANGED <<file, records, begun, edits, trip, gone>>
  BY DEF Backup
<1>3. PICK taken \in {want, FALSE} :
        /\ backups' = IF taken THEN Append(backups, file[m.agent]) ELSE backups
        /\ Move(p, Copied(m, IF taken THEN Len(backups) + 1 ELSE 0), taken = want)
        /\ since' = [since EXCEPT ![p] =
             IF taken # want /\ since[p] = "nobody" THEN "uncopied" ELSE since[p]]
  BY Zenon DEF Backup
<1>4. ~want => \/ file[m.agent] = Absent
               \/ m.agent \in Owned /\ m.read = Absent
  OBVIOUS
<1>5. want => file[m.agent] # Absent
  OBVIOUS
<1>6. want \in BOOLEAN /\ (taken = want) \in BOOLEAN
  OBVIOUS
<1> HIDE DEF want
<1>7. CASE taken = TRUE
  <2>1. want
    BY <1>3, <1>7
  <2>2. (taken = want) = TRUE /\ (IF taken THEN Len(backups) + 1 ELSE 0) = Len(backups) + 1
    BY <1>6, <1>7, <2>1
  <2>3. /\ Move(p, Copied(m, Len(backups) + 1), TRUE)
        /\ backups' = Append(backups, file[m.agent])
    BY <1>3, <1>7, <2>2, Zenon
  <2>4. since' = [since EXCEPT ![p] = IF ~TRUE /\ since[p] = "nobody" THEN "uncopied"
                                      ELSE since[p]]
    BY <1>3, <2>2
  <2>5. Len(backups) + 1 \in Nat
    BY <1>1
  <2>6. QED BY <1>1, <1>2, <1>5, <2>1, <2>3, <2>4, <2>5, Zenon
<1>8. CASE taken = FALSE
  <2>1. (taken = want) => ~want
    BY <1>6, <1>8
  <2>2. 0 \in Nat
    OBVIOUS
  <2>3. Move(p, Copied(m, 0), taken = want) /\ backups' = backups
    BY <1>3, <1>8, Zenon
  <2>4. since' = [since EXCEPT ![p] =
          IF ~(taken = want) /\ since[p] = "nobody" THEN "uncopied" ELSE since[p]]
    BY <1>3
  <2>5. QED BY <1>1, <1>2, <1>4, <1>6, <2>1, <2>2, <2>3, <2>4, Zenon
<1>9. QED BY <1>3, <1>6, <1>7, <1>8

LEMMA BackupOK ==
  ASSUME TypeState, NEW p \in Procs, Backup(p)
  PROVE  TypeState'
<1> DEFINE m == proc[p]
<1>1. /\ MemoryOK(m) /\ m.stage = "backup" /\ m.agent \in Agents
      /\ UNCHANGED <<file, records, begun, edits, trip, gone>>
  BY BackupParts
<1>2. PICK saved \in Nat, ok \in BOOLEAN :
        /\ Move(p, Copied(m, saved), ok)
        /\ since' = [since EXCEPT ![p] =
             IF ~ok /\ since[p] = "nobody" THEN "uncopied" ELSE since[p]]
        /\ \/ backups' = Append(backups, file[m.agent])
           \/ backups' = backups
  BY BackupParts, Zenon
<1>3. CommandsOK' /\ alone' \in [Procs -> BOOLEAN]
  BY <1>1, <1>2, CopiedOK, MoveOK DEF TypeState
<1>4. backups' \in Seq(FileState)
  <2>1. file[m.agent] \in FileState /\ backups \in Seq(FileState)
    BY <1>1 DEF TypeState, StoreOK
  <2>2. Append(backups, file[m.agent]) \in Seq(FileState)
    BY <2>1
  <2>3. QED BY <1>2, <2>1, <2>2
<1>5. since' \in [Procs -> Since]
  BY <1>2 DEF TypeState, HistoryOK, Since
<1>6. QED BY <1>1, <1>3, <1>4, <1>5 DEF TypeState, StoreOK, HistoryOK

LEMMA OutcomeOK ==
  ASSUME TypeState, NEW p \in Procs, At(p, "write")
  PROVE  Outcome(proc[p]) \in FileState
<1>1. MemoryOK(proc[p]) /\ proc[p].stage = "write" /\ backups \in Seq(FileState)
  BY DEF TypeState, CommandsOK, StoreOK, At
<1>2. proc[p].read \in FileState
      /\ (proc[p].cmd = "setup" => proc[p].want \in Launches)
  BY <1>1 DEF MemoryOK, Memory
<1>3. Absent \in FileState
  BY DEF FileState
<1>4. Saved(proc[p].rec) \in FileState
  BY <1>1, <1>3 DEF Saved
<1>5. Stripped(proc[p].read) \in FileState
  BY <1>2, AgentAssumption DEF Stripped, RestOf, FileState, Config
<1>6. proc[p].cmd = "setup" => /\ Ours(proc[p].want) \in FileState
                               /\ Merged(proc[p].read, proc[p].want) \in FileState
  BY <1>2, WrittenOK
<1>7. QED BY <1>3, <1>4, <1>5, <1>6 DEF Outcome

\* The outcome is in the place of the file, or the file could not be removed.
LEMMA WriteParts ==
  ASSUME TypeState, NEW p \in Procs, Write(p)
  PROVE  LET m == proc[p]
             a == m.agent
             n == [Idle EXCEPT !.stage = "readBook", !.agent = a,
                               !.cmd = m.cmd, !.saved = m.saved]
         IN /\ MemoryOK(m) /\ m.stage = "write" /\ a \in Agents
            /\ MemoryOK(n) /\ n.stage = "readBook" /\ n.agent = a
            /\ n.cmd = m.cmd /\ n.saved = m.saved
            /\ UNCHANGED <<records, backups, begun, edits>>
            /\ gone' = [gone EXCEPT ![a] = "no"]
            /\ \A q \in Procs :
                 since'[q] = IF q = p THEN "lost"
                             ELSE IF proc[q].agent # a \/ since[q] = "lost" THEN since[q]
                             ELSE IF since[p] = "lost" THEN "lost" ELSE "commands"
            /\ \E f \in FileState :
                 /\ f = Outcome(m) \/ f = file[a]
                 /\ file' = [file EXCEPT ![a] = f]
                 /\ trip' = [trip EXCEPT ![a] = IF f = Outcome(m) THEN Trip(p) ELSE NoTrip]
                 /\ Move(p, n, f = Outcome(m))
<1> DEFINE m == proc[p]
           a == m.agent
           n == [Idle EXCEPT !.stage = "readBook", !.agent = a,
                             !.cmd = m.cmd, !.saved = m.saved]
           out == Outcome(m)
<1>1. /\ MemoryOK(m) /\ m.stage = "write" /\ a \in Agents
      /\ file[a] \in FileState /\ out \in FileState
  BY OutcomeOK DEF TypeState, CommandsOK, StoreOK, MemoryOK, Write, At
<1>2. /\ UNCHANGED <<records, backups, begun, edits>>
      /\ gone' = [gone EXCEPT ![a] = "no"]
  BY DEF Write
<1>3. \A q \in Procs :
        since'[q] = IF q = p THEN "lost"
                    ELSE IF proc[q].agent # a \/ since[q] = "lost" THEN since[q]
                    ELSE IF since[p] = "lost" THEN "lost" ELSE "commands"
  <2>1. since' = [q \in Procs |->
                    IF q = p THEN "lost"
                    ELSE IF proc[q].agent # a \/ since[q] = "lost" THEN since[q]
                    ELSE IF since[p] = "lost" THEN "lost" ELSE "commands"]
    BY DEF Write
  <2>2. QED BY <2>1, Zenon
<1>4. /\ MemoryOK(n) /\ n.stage = "readBook" /\ n.agent = a
      /\ n.cmd = m.cmd /\ n.saved = m.saved
  BY <1>1, IdleOK DEF MemoryOK, Memory, Stages, Idle
<1>5. PICK f \in {out} \cup IF out = Absent THEN {file[a]} ELSE {} :
        /\ file' = [file EXCEPT ![a] = f]
        /\ trip' = [trip EXCEPT ![a] = IF f = out THEN Trip(p) ELSE NoTrip]
        /\ Move(p, n, f = out)
  BY Zenon DEF Write
<1> HIDE DEF n, out
<1>6. f = out \/ f = file[a]
  BY <1>5
<1>7. f \in FileState
  BY <1>1, <1>6
<1>8. \E g \in FileState :
        /\ g = out \/ g = file[a]
        /\ file' = [file EXCEPT ![a] = g]
        /\ trip' = [trip EXCEPT ![a] = IF g = out THEN Trip(p) ELSE NoTrip]
        /\ Move(p, n, g = out)
  BY <1>5, <1>6, <1>7
<1>9. QED BY <1>1, <1>2, <1>3, <1>4, <1>8, Zenon DEF n, out

LEMMA TripOK ==
  ASSUME TypeState, NEW p \in Procs, MemoryOK(proc[p]), proc[p].agent \in Agents
  PROVE  Trip(p) \in Trips
<1>1. trip[proc[p].agent] \in Trips /\ proc[p].read \in FileState
  BY DEF TypeState, HistoryOK, MemoryOK, Memory
<1>2. QED BY <1>1 DEF Trip, Trips

LEMMA WriteOK ==
  ASSUME TypeState, NEW p \in Procs, Write(p)
  PROVE  TypeState'
<1> DEFINE m == proc[p]
           a == m.agent
           n == [Idle EXCEPT !.stage = "readBook", !.agent = a,
                             !.cmd = m.cmd, !.saved = m.saved]
<1>1. /\ MemoryOK(m) /\ m.stage = "write" /\ a \in Agents /\ MemoryOK(n)
      /\ UNCHANGED <<records, backups, begun, edits>>
      /\ gone' = [gone EXCEPT ![a] = "no"]
  BY WriteParts, Zenon
<1>2. PICK f \in FileState :
        /\ file' = [file EXCEPT ![a] = f]
        /\ trip' = [trip EXCEPT ![a] = IF f = Outcome(m) THEN Trip(p) ELSE NoTrip]
        /\ Move(p, n, f = Outcome(m))
  BY WriteParts, Zenon
<1> HIDE DEF n
<1>3. CommandsOK' /\ alone' \in [Procs -> BOOLEAN]
  BY <1>1, <1>2, MoveOK DEF TypeState
<1>4. StoreOK'
  BY <1>1, <1>2 DEF TypeState, StoreOK
<1>5. since' \in [Procs -> Since]
  <2>1. since' = [q \in Procs |->
                    IF q = p THEN "lost"
                    ELSE IF proc[q].agent # a \/ since[q] = "lost" THEN since[q]
                    ELSE IF since[p] = "lost" THEN "lost" ELSE "commands"]
    BY DEF Write
  <2>2. \A q \in Procs : since[q] \in Since
    BY DEF TypeState, HistoryOK
  <2>3. QED BY <2>1, <2>2 DEF Since
<1>6. trip' \in [Agents -> Trips]
  <2>1. NoTrip \in Trips /\ Trip(p) \in Trips
    BY <1>1, TripOK DEF Trips
  <2>2. QED BY <1>1, <1>2, <2>1 DEF TypeState, HistoryOK
<1>7. gone' \in [Agents -> Ends]
  BY <1>1 DEF TypeState, HistoryOK, Ends
<1>8. QED BY <1>3, <1>4, <1>5, <1>6, <1>7 DEF TypeState, HistoryOK

\* The book was read, or passes for empty.
LEMMA ReadBookParts ==
  ASSUME TypeState, NEW p \in Procs, ReadBook(p)
  PROVE  /\ MemoryOK(proc[p]) /\ proc[p].stage = "readBook"
         /\ UNCHANGED <<file, records, backups, begun, edits, since, trip, gone>>
         /\ \E n :
              /\ MemoryOK(n) /\ n.stage = "writeBook" /\ n.agent = proc[p].agent
              /\ n.cmd = proc[p].cmd /\ n.saved = proc[p].saved
              /\ Move(p, n, n.book = records)
<1> DEFINE n(book) == [proc[p] EXCEPT !.book = book, !.stage = "writeBook"]
<1>1. MemoryOK(proc[p]) /\ proc[p].stage = "readBook" /\ records \in Book
  BY DEF TypeState, CommandsOK, StoreOK, ReadBook, At
<1>2. UNCHANGED <<file, records, backups, begun, edits, since, trip, gone>>
  BY DEF ReadBook, diskVars
<1>3. PICK book \in {records, [a \in Agents |-> NoRecord]} :
        Move(p, n(book), book = records)
  BY DEF ReadBook
<1>4. book \in Book
  BY <1>1 DEF Book
<1>5. /\ MemoryOK(n(book)) /\ n(book).stage = "writeBook"
      /\ n(book).agent = proc[p].agent /\ n(book).book = book
      /\ n(book).cmd = proc[p].cmd /\ n(book).saved = proc[p].saved
  BY <1>1, <1>4 DEF MemoryOK, Memory, Stages
<1> HIDE DEF n
<1>6. QED BY <1>1, <1>2, <1>3, <1>5

LEMMA ReadBookOK ==
  ASSUME TypeState, NEW p \in Procs, ReadBook(p)
  PROVE  TypeState'
<1>1. CommandsOK' /\ alone' \in [Procs -> BOOLEAN]
  BY ReadBookParts, MoveOK DEF TypeState
<1>2. QED BY <1>1, ReadBookParts DEF TypeState, StoreOK, HistoryOK

LEMMA WriteBookOK ==
  ASSUME TypeState, NEW p \in Procs, WriteBook(p)
  PROVE  TypeState'
<1> DEFINE m == proc[p]
<1>1. MemoryOK(m) /\ m.stage = "writeBook"
  BY DEF TypeState, CommandsOK, WriteBook, At
<1>2. m.agent \in Agents /\ m.saved \in Nat /\ m.book \in Book
  BY <1>1 DEF MemoryOK, Memory
<1>3. Move(p, Idle, TRUE)
  BY DEF WriteBook
<1>4. CommandsOK' /\ alone' \in [Procs -> BOOLEAN]
  BY <1>3, IdleOK, MoveOK DEF TypeState
<1>5. records' \in Book
  BY <1>2 DEF WriteBook, Book
<1>6. gone' \in [Agents -> Ends]
  BY DEF WriteBook, TypeState, HistoryOK, Ends
<1>7. trip' \in [Agents -> Trips]
  BY DEF WriteBook, TypeState, HistoryOK, Trips
<1>8. QED BY <1>4, <1>5, <1>6, <1>7 DEF TypeState, StoreOK, HistoryOK, WriteBook

LEMMA CrashOK ==
  ASSUME TypeState, NEW p \in Procs, Crash(p)
  PROVE  TypeState'
<1>1. CommandsOK' /\ alone' \in [Procs -> BOOLEAN]
  BY IdleOK, MoveOK DEF TypeState, Crash
<1>2. HistoryOK'
  BY <1>1 DEF TypeState, HistoryOK, Crash, Trips, Since, Ends
<1>3. QED BY <1>1, <1>2 DEF TypeState, StoreOK, Crash, diskVars

LEMMA ByHandOK ==
  ASSUME TypeState, NEW S, ByHand(S)
  PROVE  CommandsOK' /\ HistoryOK' /\ edits' \in 0..MaxEdits /\ begun' = begun
<1>1. CommandsOK' /\ begun' = begun
  BY DEF TypeState, CommandsOK, MemoryOK, ByHand
<1>2. edits' \in 0..MaxEdits
  BY AgentAssumption DEF TypeState, StoreOK, ByHand
<1>3. alone' \in [Procs -> BOOLEAN] /\ trip' \in [Agents -> Trips]
  BY DEF TypeState, HistoryOK, ByHand, Trips
<1>4. since' \in [Procs -> Since]
  BY DEF TypeState, HistoryOK, ByHand, Since
<1>5. gone' \in [Agents -> Ends]
  BY DEF TypeState, HistoryOK, ByHand, Ends
<1>6. QED BY <1>1, <1>2, <1>3, <1>4, <1>5 DEF HistoryOK

LEMMA UserOK ==
  ASSUME TypeState, User
  PROVE  TypeState'
<1>1. PICK S : ByHand(S)
  BY DEF User, ReplaceFile, EditRest, LoseBook, LoseStore
<1>2. CommandsOK' /\ HistoryOK' /\ edits' \in 0..MaxEdits /\ begun' \in 0..MaxCommands
  BY <1>1, ByHandOK DEF TypeState, StoreOK
<1>3. file' \in [Agents -> FileState]
  <2>1. ASSUME NEW a \in Agents, NEW f \in UserFiles[a] \cup {Absent}, ReplaceFile(a, f)
        PROVE  file' \in [Agents -> FileState]
    <3>1. f \in FileState
      BY AgentAssumption DEF FileState
    <3>2. QED BY <2>1, <3>1 DEF TypeState, StoreOK, ReplaceFile
  <2>2. ASSUME NEW a \in Agents, NEW r \in Rests, EditRest(a, r)
        PROVE  file' \in [Agents -> FileState]
    <3>1. [file[a] EXCEPT !.rest = r] \in FileState
      BY <2>2 DEF EditRest, FileState, Config
    <3>2. QED BY <2>2, <3>1 DEF TypeState, StoreOK, EditRest
  <2>3. CASE LoseBook
    BY <2>3 DEF TypeState, StoreOK, LoseBook
  <2>4. CASE LoseStore
    BY <2>4 DEF TypeState, StoreOK, LoseStore, FileState
  <2>5. QED BY <2>1, <2>2, <2>3, <2>4 DEF User
<1>4. backups' \in Seq(FileState)
  <2>1. backups \in Seq(FileState) /\ Absent \in FileState
    BY DEF TypeState, StoreOK, FileState
  <2>2. [i \in DOMAIN backups |-> Absent] \in Seq(FileState)
    <3>1. DOMAIN backups = 1..Len(backups) /\ Len(backups) \in Nat
      BY <2>1
    <3>2. [i \in 1..Len(backups) |-> Absent] \in [1..Len(backups) -> FileState]
      BY <2>1
    <3>3. QED BY <3>1, <3>2
  <2>3. QED BY <2>1, <2>2 DEF User, ReplaceFile, EditRest, LoseBook, LoseStore
<1>5. records' \in Book
  BY DEF TypeState, StoreOK, Book, User, ReplaceFile, EditRest, LoseBook, LoseStore
<1>6. QED BY <1>2, <1>3, <1>4, <1>5 DEF TypeState, StoreOK

LEMMA InitOK == Init => TypeState
<1> SUFFICES ASSUME Init PROVE TypeState
  OBVIOUS
<1>1. StoreOK
  BY AgentAssumption DEF Init, StoreOK, Book
<1>2. CommandsOK
  BY IdleOK DEF Init, CommandsOK, MemoryOK
<1>3. HistoryOK
  BY DEF Init, HistoryOK, Trips, Since, Ends
<1>4. QED BY <1>1, <1>2, <1>3 DEF TypeState

LEMMA StepOK ==
  ASSUME TypeState, [Next]_vars
  PROVE  TypeState'
<1>1. ASSUME NEW p \in Procs, Command(p) PROVE TypeState'
  <2>1. ASSUME NEW a \in Agents, NEW v \in Launches, NEW force \in BOOLEAN,
               Begin(p, "setup", a, v, force)
        PROVE  TypeState'
    BY <2>1, BeginOK
  <2>2. ASSUME NEW a \in Agents, Begin(p, "disconnect", a, None, FALSE)
        PROVE  TypeState'
    BY <2>2, BeginOK
  <2>3. QED BY <1>1, <2>1, <2>2, ReadFileOK, ReadRecordOK, BackupOK, WriteOK,
               ReadBookOK, WriteBookOK, CrashOK DEF Command, Connect, Disconnect
<1>2. ASSUME UNCHANGED vars PROVE TypeState'
  BY <1>2 DEF vars, TypeState, StoreOK, CommandsOK, MemoryOK, HistoryOK
<1>3. QED BY <1>1, <1>2, UserOK DEF Next

\* The type invariant: a command in progress holds what the steps it has taken
\* gave it, whatever other commands, the user and crashes do (applySetup,
\* disconnectAgent).
THEOREM AgentTypeCorrect == Spec => []AgentTypeOK
<1>1. Spec => []TypeState
  BY InitOK, StepOK, PTL DEF Spec
<1>2. TypeState => AgentTypeOK
  BY TypeParts DEF TypeState
<1>3. QED BY <1>1, <1>2, PTL

-----------------------------------------------------------------------------
(* What a command still knows of the file it has read                      *)

Kept(f) == f = Absent \/ \E i \in DOMAIN backups : backups[i] = f

\* As long as the user leaves the file alone, the rest of it is the rest that
\* p has read; as long as everybody does, it is what p has read, and past the
\* copy it is under .kawn/backups, unless none could be taken.  A file that
\* does not parse is none that p is about to replace.
Held(p) ==
  LET m == proc[p]
      f == file[m.agent]
  IN since[p] # "lost"
       => /\ m.stage \in {"record", "backup", "write"}
          /\ m.stage = "record" => m.agent \notin Owned
          /\ m.stage = "backup" /\ m.agent \in Owned => m.cmd = "setup"
          /\ m.agent \notin Owned
               => /\ RestOf(f) = RestOf(m.read)
                  /\ f = Garbled => m.read = Garbled
                  /\ m.read = Garbled => m.stage = "record" /\ m.cmd = "setup"
          /\ since[p] \in {"nobody", "uncopied"} => f = m.read
          /\ /\ since[p] = "nobody"
             /\ \/ m.stage = "write" /\ (m.agent \in Owned => m.cmd = "setup")
                \/ m.stage = "record" /\ m.cmd = "disconnect"
             => Kept(f)

HeldInv == \A p \in Procs : Held(p)

\* A command is not disturbed by steps that leave its memory and its file as
\* they are and drop no copy.
LEMMA Undisturbed ==
  ASSUME NEW q \in Procs, Held(q), proc'[q] = proc[q], since'[q] = since[q],
         since[q] # "lost" => file'[proc[q].agent] = file[proc[q].agent],
         \A i \in DOMAIN backups : i \in DOMAIN backups' /\ backups'[i] = backups[i]
  PROVE  Held(q)'
BY DEF Held, Kept

\* A command that ended, or that lost hold of its file, has nothing to keep.
LEMMA Released ==
  ASSUME NEW q \in Procs, since'[q] = "lost"
  PROVE  Held(q)'
BY DEF Held

LEMMA HeldReadFile ==
  ASSUME TypeState, HeldInv, NEW p \in Procs, ReadFile(p)
  PROVE  HeldInv'
<1> DEFINE m == proc[p]
           a == m.agent
<1>1. /\ MemoryOK(m) /\ m.stage = "read" /\ a \in Agents
      /\ file' = file /\ backups' = backups
  BY ReadFileParts
<1>2. since \in [Procs -> Since]
  BY DEF TypeState, HistoryOK
<1>3. PICK f \in FileState :
        /\ Move(p, AfterFile(m, f), f = file[a])
        /\ since' = [since EXCEPT ![p] =
             IF AfterRead(m, f) # "idle" /\ f = file[a] THEN "nobody" ELSE "lost"]
  BY ReadFileParts, Zenon
<1> DEFINE next == AfterRead(m, f)
           n    == AfterFile(m, f)
<1>4. ASSUME NEW q \in Procs \ {p} PROVE Held(q)'
  <2>1. proc'[q] = proc[q]
    BY <1>3 DEF TypeState, CommandsOK, Move
  <2>2. since'[q] = since[q]
    BY <1>2, <1>3
  <2>3. QED BY <1>1, <2>1, <2>2, Undisturbed DEF HeldInv
<1>5. CASE ~(next # "idle" /\ f = file[a])
  <2>1. Held(p)'
    BY <1>2, <1>3, <1>5, Released
  <2>2. QED BY <1>4, <2>1 DEF HeldInv
<1>6. CASE next # "idle" /\ f = file[a]
  <2>1. proc'[p] = n /\ since'[p] = "nobody"
    BY <1>2, <1>3, <1>6 DEF TypeState, CommandsOK, Move
  <2>2. n.agent = a /\ n.read = f /\ n.stage = next /\ n.cmd = m.cmd
    BY <1>1, <1>6, AfterFileOK
  <2>3. /\ next \in {"record", "backup", "write"}
        /\ next = "record" => a \notin Owned /\ m.cmd = "setup"
        /\ next = "backup" /\ a \in Owned => m.cmd = "setup"
        /\ next = "backup" /\ a \notin Owned => HasOurs(f)
        /\ next = "write" => a \in Owned /\ m.cmd # "setup"
    BY <1>6 DEF AfterRead
  <2>4. HasOurs(f) => f # Garbled
    BY AgentAssumption DEF HasOurs
  <2> HIDE DEF n, next
  <2>5. file'[proc'[p].agent] = f
    BY <1>1, <1>6, <2>1, <2>2
  <2>6. Held(p)'
    BY <2>1, <2>2, <2>3, <2>4, <2>5 DEF Held
  <2>7. QED BY <1>4, <2>6 DEF HeldInv
<1>7. QED BY <1>5, <1>6

LEMMA HeldReadRecord ==
  ASSUME TypeState, HeldInv, NEW p \in Procs, ReadRecord(p)
  PROVE  HeldInv'
<1> DEFINE m == proc[p]
<1>1. /\ MemoryOK(m) /\ m.stage = "record"
      /\ file' = file /\ backups' = backups
  BY ReadRecordParts
<1>2. since \in [Procs -> Since]
  BY DEF TypeState, HistoryOK
<1>3. PICK rec \in Nat \cup {NoRecord} :
        \/ /\ Move(p, Idle, rec = records[m.agent])
           /\ since' = [since EXCEPT ![p] = "lost"]
        \/ /\ AfterRecord(m, rec) # "idle"
           /\ Move(p, AfterBook(m, rec), rec = records[m.agent])
           /\ since' = since
  BY ReadRecordParts
<1> DEFINE next == AfterRecord(m, rec)
           n    == AfterBook(m, rec)
<1>4. n.agent = m.agent /\ n.read = m.read /\ n.stage = next /\ n.cmd = m.cmd
  BY <1>1, AfterBookOK
<1>5. ASSUME NEW q \in Procs \ {p} PROVE Held(q)'
  <2>1. proc'[q] = proc[q] /\ since'[q] = since[q]
    BY <1>2, <1>3 DEF TypeState, CommandsOK, Move
  <2>2. QED BY <1>1, <2>1, Undisturbed DEF HeldInv
<1>6. Held(p)'
  <2>1. CASE since' = [since EXCEPT ![p] = "lost"]
    BY <1>2, <2>1, Released
  <2>2. CASE next # "idle" /\ Move(p, n, rec = records[m.agent]) /\ since' = since
    <3>1. CASE since[p] = "lost"
      BY <2>2, <3>1, Released
    <3>2. CASE since[p] # "lost"
      <4>1. Held(p) /\ m.agent \notin Owned
        BY <1>1, <3>2 DEF HeldInv, Held
      <4>2. /\ next \in {"backup", "write"}
            /\ next = "write" => m.cmd = "disconnect"
            /\ m.cmd = "setup" => m.read # Garbled
        BY <1>1, <2>2, <4>1 DEF AfterRecord, MemoryOK, Blocked
      <4>3. proc'[p] = n
        BY <2>2 DEF TypeState, CommandsOK, Move
      <4> HIDE DEF n, next
      <4>4. QED BY <1>1, <1>4, <2>2, <3>2, <4>1, <4>2, <4>3 DEF Held, Kept
    <3>3. QED BY <3>1, <3>2
  <2>3. QED BY <1>3, <2>1, <2>2
<1>7. QED BY <1>5, <1>6 DEF HeldInv

LEMMA HeldBackup ==
  ASSUME TypeState, HeldInv, NEW p \in Procs, Backup(p)
  PROVE  HeldInv'
<1> DEFINE m == proc[p]
           f == file[m.agent]
<1>1. /\ MemoryOK(m) /\ m.stage = "backup" /\ m.agent \in Agents /\ file' = file
  BY BackupParts
<1>2. backups \in Seq(FileState) /\ f \in FileState /\ since \in [Procs -> Since]
  BY <1>1 DEF TypeState, StoreOK, HistoryOK
<1>3. PICK saved \in Nat, ok \in BOOLEAN :
        /\ Move(p, Copied(m, saved), ok)
        /\ since' = [since EXCEPT ![p] =
             IF ~ok /\ since[p] = "nobody" THEN "uncopied" ELSE since[p]]
        /\ \/ /\ backups' = Append(backups, f)
              /\ saved = Len(backups) + 1
              /\ f # Absent
           \/ /\ backups' = backups
              /\ saved = 0
              /\ ok => f = Absent \/ (m.agent \in Owned /\ m.read = Absent)
  BY BackupParts, Zenon
<1> DEFINE n == Copied(m, saved)
<1>4. n.agent = m.agent /\ n.read = m.read /\ n.cmd = m.cmd
      /\ n.stage = IF m.cmd = "disconnect" THEN "record" ELSE "write"
  BY <1>1, CopiedOK
<1> HIDE DEF n, f
<1>5. \A i \in DOMAIN backups : i \in DOMAIN backups' /\ backups'[i] = backups[i]
  BY <1>2, <1>3
<1>6. backups' = Append(backups, f)
        => f = backups'[Len(backups) + 1] /\ Len(backups) + 1 \in DOMAIN backups'
  BY <1>2
<1>7. ASSUME NEW q \in Procs \ {p} PROVE Held(q)'
  <2>1. proc'[q] = proc[q]
    BY <1>3 DEF TypeState, CommandsOK, Move
  <2>2. since'[q] = since[q]
    BY <1>2, <1>3
  <2>3. QED BY <1>1, <1>5, <2>1, <2>2, Undisturbed DEF HeldInv
<1>8. Held(p)'
  <2>1. CASE since[p] = "lost"
    <3>1. since'[p] = "lost"
      BY <1>2, <1>3, <2>1
    <3>2. QED BY <3>1, Released
  <2>2. CASE since[p] # "lost"
    <3>1. Held(p)
      BY DEF HeldInv
    <3>2. /\ since[p] \in {"nobody", "uncopied"} => f = m.read
          /\ m.agent \notin Owned => /\ RestOf(f) = RestOf(m.read)
                                     /\ f = Garbled => m.read = Garbled
                                     /\ m.read # Garbled
          /\ m.agent \in Owned => m.cmd = "setup"
      BY <1>1, <2>2, <3>1 DEF Held, f
    <3>3. /\ since'[p] # "lost"
          /\ since'[p] \in {"nobody", "uncopied"} => since[p] \in {"nobody", "uncopied"}
          /\ since'[p] = "nobody" => since[p] = "nobody" /\ ok
      BY <1>2, <1>3, <2>2
    <3>4. since'[p] = "nobody" => f = Absent \/ \E i \in DOMAIN backups' : backups'[i] = f
      <4>1. since'[p] = "nobody" => backups' = Append(backups, f) \/ f = Absent
        BY <1>3, <3>2, <3>3
      <4>2. QED BY <1>6, <4>1
    <3>5. proc'[p] = n
      BY <1>3 DEF TypeState, CommandsOK, Move, n
    <3>6. m.cmd # "disconnect" => m.cmd = "setup"
      BY <1>1 DEF MemoryOK
    <3>7. f = file'[proc'[p].agent]
      BY <1>1, <1>4, <3>5 DEF f
    <3>8. QED
      BY <1>1, <1>4, <3>2, <3>3, <3>4, <3>5, <3>6, <3>7 DEF Held, Kept
  <2>3. QED BY <2>1, <2>2
<1>9. QED BY <1>7, <1>8 DEF HeldInv

\* What a command that merges makes of a file has the rest it has read, and
\* what disconnect makes of it has nothing of kawn's.
LEMMA OutcomeRest ==
  ASSUME NEW m, m.agent \notin Owned, m.cmd = "setup" => m.want \in Launches
  PROVE  /\ RestOf(Outcome(m)) = RestOf(m.read)
         /\ m.cmd # "setup" => ~HasOurs(Outcome(m))
         /\ Outcome(m) \in Config \cup {Absent}
<1>1. Absent \notin Config
  BY AgentAssumption
<1>2. RestOf(m.read) \in Rests
  BY AgentAssumption DEF RestOf, Config
<1>3. CASE m.cmd = "setup"
  <2>1. Merged(m.read, m.want) \in Config
    BY <1>2, <1>3 DEF Merged, Config
  <2>2. QED BY <1>3, <2>1 DEF Outcome, Merged, RestOf
<1>4. CASE m.cmd # "setup"
  <2> DEFINE s == Stripped(m.read)
  <2>1. s.rest = RestOf(m.read) /\ s.kawn \in {None, Unmanaged} /\ s.legacy = FALSE
        /\ s \in Config
    BY <1>2 DEF Stripped, Config
  <2>2. s = Empty => s.rest = Bare
    BY DEF Empty
  <2>3. \/ Outcome(m) = s
        \/ Outcome(m) = Absent /\ s = Empty
    BY <1>4 DEF Outcome
  <2>4. RestOf(s) = RestOf(m.read) /\ ~HasOurs(s)
    BY <2>1 DEF RestOf, HasOurs
  <2>5. RestOf(Absent) = Bare /\ ~HasOurs(Absent)
    BY <1>1 DEF RestOf, HasOurs
  <2>6. QED BY <2>1, <2>2, <2>3, <2>4, <2>5, Zenon
<1>5. QED BY <1>3, <1>4

LEMMA HeldWrite ==
  ASSUME TypeState, HeldInv, NEW p \in Procs, Write(p)
  PROVE  HeldInv'
<1> DEFINE m == proc[p]
           a == m.agent
<1>1. MemoryOK(m) /\ m.stage = "write" /\ a \in Agents /\ backups' = backups
  BY WriteParts, Zenon
<1>2. \A q \in Procs :
        since'[q] = IF q = p THEN "lost"
                    ELSE IF proc[q].agent # a \/ since[q] = "lost" THEN since[q]
                    ELSE IF since[p] = "lost" THEN "lost" ELSE "commands"
  BY WriteParts, Zenon
<1>3. PICK f \in FileState :
        /\ f = Outcome(m) \/ f = file[a]
        /\ file' = [file EXCEPT ![a] = f]
        /\ trip' = [trip EXCEPT ![a] = IF f = Outcome(m) THEN Trip(p) ELSE NoTrip]
        /\ Move(p, [Idle EXCEPT !.stage = "readBook", !.agent = a,
                                !.cmd = m.cmd, !.saved = m.saved], f = Outcome(m))
  BY WriteParts, Zenon
<1>4. Held(p)'
  BY <1>2, Released
<1>5. ASSUME NEW q \in Procs \ {p} PROVE Held(q)'
  <2>1. proc'[q] = proc[q] /\ Held(q)
    BY DEF TypeState, CommandsOK, Write, Move, HeldInv
  <2>2. CASE since'[q] = "lost"
    BY <2>2, Released
  <2>3. CASE since'[q] # "lost" /\ proc[q].agent # a
    <3>1. since'[q] = since[q]
      BY <1>2, <2>3
    <3>2. proc[q].agent \in Agents
      BY <2>1, <2>3, <3>1 DEF Held, TypeState, CommandsOK, MemoryOK
    <3>3. file'[proc[q].agent] = file[proc[q].agent]
      BY <1>3, <2>3, <3>2 DEF TypeState, StoreOK
    <3>4. QED BY <1>1, <2>1, <3>1, <3>3, Undisturbed
  <2>4. CASE since'[q] # "lost" /\ proc[q].agent = a
    <3>1. since'[q] = "commands" /\ since[q] # "lost" /\ since[p] # "lost"
      BY <1>2, <2>4
    <3>2. file'[a] = f
      BY <1>1, <1>3 DEF TypeState, StoreOK
    <3>3. a \notin Owned => /\ RestOf(Outcome(m)) = RestOf(m.read)
                            /\ Outcome(m) \in Config \cup {Absent}
      BY <1>1, OutcomeRest DEF MemoryOK
    <3>4. a \notin Owned => RestOf(file[a]) = RestOf(m.read)
      BY <3>1 DEF HeldInv, Held
    <3>5. a \notin Owned => /\ RestOf(file[a]) = RestOf(proc[q].read)
                            /\ file[a] = Garbled => proc[q].read = Garbled
      BY <2>1, <2>4, <3>1 DEF Held
    <3>6. a \notin Owned => /\ RestOf(f) = RestOf(proc[q].read)
                            /\ f = Garbled => proc[q].read = Garbled
      <4>1. Garbled \notin Config \cup {Absent}
        BY AgentAssumption
      <4>2. QED BY <1>3, <3>3, <3>4, <3>5, <4>1
    <3>7. QED BY <2>1, <2>4, <3>1, <3>2, <3>6 DEF Held
  <2>5. QED BY <2>2, <2>3, <2>4
<1>6. QED BY <1>4, <1>5 DEF HeldInv

LEMMA BeginParts ==
  ASSUME TypeState, NEW p \in Procs,
         NEW cmd, NEW a, NEW v, NEW force, Begin(p, cmd, a, v, force)
  PROVE  /\ file' = file /\ backups' = backups /\ since' = since
         /\ \A q \in Procs \ {p} : proc'[q] = proc[q]
         /\ proc[p].stage = "idle"
<1>1. /\ file' = file /\ backups' = backups /\ since' = since
      /\ proc[p].stage = "idle"
      /\ \E m : proc' = [proc EXCEPT ![p] = m]
  BY Zenon DEF Begin, diskVars, At
<1>2. QED BY <1>1 DEF TypeState, CommandsOK

\* The steps that read or write no file of an agent's.
LEMMA Elsewhere ==
  ASSUME TypeState, NEW p \in Procs,
         \/ \E cmd, a, v, force : Begin(p, cmd, a, v, force)
         \/ ReadBook(p)
         \/ WriteBook(p)
         \/ Crash(p)
  PROVE  /\ file' = file /\ backups' = backups
         /\ \A q \in Procs \ {p} : proc'[q] = proc[q]
         /\ \/ since' = since /\ proc[p].stage \in {"idle", "readBook", "writeBook"}
            \/ since' = [since EXCEPT ![p] = "lost"]
<1>1. ASSUME NEW cmd, NEW a, NEW v, NEW force, Begin(p, cmd, a, v, force)
      PROVE  /\ file' = file /\ backups' = backups /\ since' = since
             /\ \A q \in Procs \ {p} : proc'[q] = proc[q]
             /\ proc[p].stage = "idle"
  BY <1>1, BeginParts, Zenon
<1>2. ASSUME ReadBook(p)
      PROVE  /\ file' = file /\ backups' = backups /\ since' = since
             /\ \A q \in Procs \ {p} : proc'[q] = proc[q]
             /\ proc[p].stage = "readBook"
  BY <1>2, ReadBookParts DEF Move, TypeState, CommandsOK
<1>3. ASSUME WriteBook(p)
      PROVE  /\ file' = file /\ backups' = backups /\ since' = since
             /\ \A q \in Procs \ {p} : proc'[q] = proc[q]
             /\ proc[p].stage = "writeBook"
  BY <1>3 DEF WriteBook, Move, TypeState, CommandsOK, At
<1>4. ASSUME Crash(p)
      PROVE  /\ file' = file /\ backups' = backups
             /\ since' = [since EXCEPT ![p] = "lost"]
             /\ \A q \in Procs \ {p} : proc'[q] = proc[q]
  BY <1>4 DEF Crash, diskVars, Move, TypeState, CommandsOK
<1>5. QED BY <1>1, <1>2, <1>3, <1>4

LEMMA HeldElsewhere ==
  ASSUME TypeState, HeldInv, NEW p \in Procs,
         \/ \E cmd, a, v, force : Begin(p, cmd, a, v, force)
         \/ ReadBook(p)
         \/ WriteBook(p)
         \/ Crash(p)
  PROVE  HeldInv'
<1>1. /\ file' = file /\ backups' = backups
      /\ \A q \in Procs \ {p} : proc'[q] = proc[q]
      /\ \/ since' = since /\ proc[p].stage \in {"idle", "readBook", "writeBook"}
         \/ since' = [since EXCEPT ![p] = "lost"]
  BY Elsewhere, Zenon
<1>2. since \in [Procs -> Since]
  BY DEF TypeState, HistoryOK
<1>3. since'[p] = "lost"
  BY <1>1, <1>2 DEF HeldInv, Held
<1>4. ASSUME NEW q \in Procs \ {p} PROVE Held(q)'
  <2>1. since'[q] = since[q]
    BY <1>1, <1>2
  <2>2. QED BY <1>1, <2>1, Undisturbed DEF HeldInv
<1>5. QED BY <1>3, <1>4, Released DEF HeldInv

LEMMA HeldUser ==
  ASSUME TypeState, HeldInv, User
  PROVE  HeldInv'
<1> SUFFICES ASSUME NEW q \in Procs PROVE Held(q)'
  BY DEF HeldInv
<1>1. Held(q)
  BY DEF HeldInv
<1>2. since[q] # "lost" => proc[q].agent \in Agents
  BY <1>1 DEF Held, TypeState, CommandsOK, MemoryOK
<1>3. ASSUME NEW a \in Agents, ByHand({a}), UNCHANGED backups,
             NEW f, file' = [file EXCEPT ![a] = f]
      PROVE  Held(q)'
  <2>1. proc'[q] = proc[q]
        /\ since'[q] = IF proc[q].agent = a THEN "lost" ELSE since[q]
    BY <1>3 DEF ByHand
  <2>2. CASE proc[q].agent = a
    BY <2>1, <2>2, Released
  <2>3. CASE proc[q].agent # a
    <3>1. since[q] # "lost" => file'[proc[q].agent] = file[proc[q].agent]
      BY <1>2, <1>3, <2>3 DEF TypeState, StoreOK
    <3>2. QED BY <1>1, <1>3, <2>1, <2>3, <3>1, Undisturbed
  <2>4. QED BY <2>2, <2>3
<1>4. ASSUME ByHand(Agents) PROVE Held(q)'
  <2>1. since'[q] = IF proc[q].agent \in Agents THEN "lost" ELSE since[q]
    BY <1>4 DEF ByHand
  <2>2. since'[q] = "lost"
    BY <1>2, <2>1
  <2>3. QED BY <2>2, Released
<1>5. QED BY <1>3, <1>4 DEF User, ReplaceFile, EditRest, LoseBook, LoseStore

LEMMA HeldInit == Init => HeldInv
BY DEF Init, HeldInv, Held

LEMMA HeldStep ==
  ASSUME TypeState, HeldInv, [Next]_vars
  PROVE  HeldInv'
<1>1. ASSUME NEW p \in Procs, Command(p) PROVE HeldInv'
  <2>1. ASSUME \E cmd, a, v, force : Begin(p, cmd, a, v, force) PROVE HeldInv'
    BY <2>1, HeldElsewhere
  <2>2. QED BY <1>1, <2>1, HeldReadFile, HeldReadRecord, HeldBackup, HeldWrite,
               HeldElsewhere DEF Command, Connect, Disconnect
<1>2. ASSUME UNCHANGED vars PROVE HeldInv'
  BY <1>2, Undisturbed DEF vars, HeldInv
<1>3. QED BY <1>1, <1>2, HeldUser DEF Next

\* No other step goes from "write" to "readBook".
LEMMA OnlyWrite ==
  ASSUME TypeState, [Next]_vars, NEW p \in Procs, Writes(p)
  PROVE  Write(p)
<1>1. proc[p].stage = "write" /\ proc'[p].stage = "readBook"
  BY DEF Writes, At
<1>2. UNCHANGED vars => FALSE
  BY <1>1 DEF vars
<1>3. User => FALSE
  BY <1>1 DEF User, ReplaceFile, EditRest, LoseBook, LoseStore, ByHand
<1>4. PICK q \in Procs : Command(q)
  BY <1>2, <1>3 DEF Next
<1>5. Connect(q) \/ Disconnect(q) => FALSE
  <2> SUFFICES ASSUME NEW cmd, NEW a, NEW v, NEW force, Begin(q, cmd, a, v, force)
               PROVE  FALSE
    BY Zenon DEF Connect, Disconnect
  <2>1. q # p /\ proc'[p] = proc[p]
    BY <1>1, BeginParts
  <2>2. QED BY <1>1, <2>1
<1>6. Crash(q) => FALSE
  BY <1>1 DEF Crash, Move, TypeState, CommandsOK, Idle
<1>7. ReadFile(q) => FALSE
  <2> SUFFICES ASSUME ReadFile(q) PROVE FALSE
    OBVIOUS
  <2>1. q # p /\ \E n, ok : Move(q, n, ok)
    BY <1>1, ReadFileParts
  <2>2. QED BY <1>1, <2>1 DEF Move, TypeState, CommandsOK
<1>8. ReadRecord(q) => FALSE
  <2> SUFFICES ASSUME ReadRecord(q) PROVE FALSE
    OBVIOUS
  <2>1. q # p /\ \E n, ok : Move(q, n, ok)
    BY <1>1, ReadRecordParts
  <2>2. QED BY <1>1, <2>1 DEF Move, TypeState, CommandsOK
<1>9. Backup(q) => FALSE
  <2> SUFFICES ASSUME Backup(q) PROVE FALSE
    OBVIOUS
  <2>1. q # p /\ \E n, ok : Move(q, n, ok)
    BY <1>1, BackupParts
  <2>2. QED BY <1>1, <2>1 DEF Move, TypeState, CommandsOK
<1>10. ReadBook(q) \/ WriteBook(q) => FALSE
  <2>1. ReadBook(q) \/ WriteBook(q) => q # p /\ \A r \in Procs \ {q} : proc'[r] = proc[r]
    BY <1>1, Elsewhere, Zenon DEF ReadBook, WriteBook, At
  <2>2. QED BY <1>1, <2>1
<1>11. Write(q) => q = p
  BY <1>1 DEF Write, Move, TypeState, CommandsOK
<1>12. QED
  BY <1>4, <1>5, <1>6, <1>7, <1>8, <1>9, <1>10, <1>11 DEF Command

\* Whoever else runs setup or disconnect at the same time, what these commands
\* leave of a user's file is the rest of it, unless they could not read it, it
\* holds no object, or the user has edited it since (mergeEntry,
\* uninstallJsonMcp).
THEOREM UserPartsSurvive == Spec => UserPartsKept
<1> DEFINE Kept1 ==
      \A p \in Procs :
        LET a == proc[p].agent
        IN Writes(p) /\ a \notin Owned /\ since[p] # "lost" /\ file[a] # Alien
             => UserPart(file'[a]) = UserPart(file[a])
<1>1. Spec => [](TypeState /\ HeldInv)
  BY InitOK, StepOK, HeldInit, HeldStep, PTL DEF Spec
<1>2. ASSUME TypeState, HeldInv, [Next]_vars PROVE [Kept1]_vars
  <2> SUFFICES ASSUME NEW p \in Procs, Writes(p), proc[p].agent \notin Owned,
                      since[p] # "lost", file[proc[p].agent] # Alien
               PROVE  UserPart(file'[proc[p].agent]) = UserPart(file[proc[p].agent])
    OBVIOUS
  <2> DEFINE m == proc[p]
             a == m.agent
  <2>1. Write(p)
    BY <1>2, OnlyWrite
  <2>2. MemoryOK(m) /\ m.stage = "write" /\ a \in Agents
    BY <1>2, <2>1, WriteParts, Zenon
  <2>3. PICK f \in FileState :
          /\ f = Outcome(m) \/ f = file[a]
          /\ file' = [file EXCEPT ![a] = f]
          /\ trip' = [trip EXCEPT ![a] = IF f = Outcome(m) THEN Trip(p) ELSE NoTrip]
          /\ Move(p, [Idle EXCEPT !.stage = "readBook", !.agent = a,
                                  !.cmd = m.cmd, !.saved = m.saved], f = Outcome(m))
    BY <1>2, <2>1, WriteParts, Zenon
  <2>4. file'[a] = f
    BY <1>2, <2>2, <2>3 DEF TypeState, StoreOK
  <2>5. /\ RestOf(Outcome(m)) = RestOf(m.read)
        /\ Outcome(m) \in Config \cup {Absent}
    BY <2>2, OutcomeRest DEF MemoryOK
  <2>6. RestOf(file[a]) = RestOf(m.read) /\ file[a] # Garbled
    BY <1>2, <2>2 DEF HeldInv, Held
  <2>7. file[a] \in Config \cup {Absent}
    BY <1>2, <2>2, <2>6 DEF TypeState, StoreOK, FileState
  <2>8. \A g \in Config \cup {Absent} : UserPart(g) = RestOf(g)
    BY AgentAssumption DEF UserPart, RestOf
  <2>9. QED BY <2>3, <2>4, <2>5, <2>6, <2>7, <2>8
<1>3. QED BY <1>1, <1>2, PTL DEF Spec, UserPartsKept

\* What setup replaces, and what disconnect edits in a user's file, is among
\* the copies when it is replaced, unless somebody stepped in after it was read
\* or it could not be read for the copy (backupFile).
THEOREM ReplacedIsBackedUp == Spec => WritesReversible
<1> DEFINE Reversible1 ==
      \A p \in Procs :
        LET a == proc[p].agent
        IN /\ Writes(p) /\ since[p] = "nobody"
           /\ a \in Owned => proc[p].cmd = "setup"
           => \/ file[a] = Absent
              \/ \E i \in DOMAIN backups : backups[i] = file[a]
<1>1. Spec => [](TypeState /\ HeldInv)
  BY InitOK, StepOK, HeldInit, HeldStep, PTL DEF Spec
<1>2. HeldInv => Reversible1
  BY DEF HeldInv, Held, Kept, Writes, At
<1>3. QED BY <1>1, <1>2, PTL DEF WritesReversible

-----------------------------------------------------------------------------
(* A disconnect that has the project to itself                             *)

\* All others are idle, the book is the one that was read, and the file has
\* nothing of kawn's once disconnect has replaced it.
AloneOK(p) ==
  LET m == proc[p]
  IN alone[p]
       => /\ \A q \in Procs \ {p} : At(q, "idle")
          /\ m.stage = "writeBook" => m.book = records
          /\ m.stage \in {"readBook", "writeBook"} /\ m.cmd = "disconnect"
               /\ m.agent \notin Owned
               => ~HasOurs(file[m.agent])

AloneInv == DisconnectClean /\ \A p \in Procs : AloneOK(p)

\* The memory of a command that has not replaced the file yet, or has ended.
LEMMA EarlyMove ==
  ASSUME TypeState, NEW p \in Procs,
         ReadFile(p) \/ ReadRecord(p) \/ Backup(p) \/ Crash(p)
  PROVE  \E m, ok : /\ Move(p, m, ok) /\ MemoryOK(m)
                    /\ m.stage \notin {"readBook", "writeBook"}
<1>1. Idle.stage = "idle" /\ MemoryOK(Idle)
  BY IdleOK DEF Idle
<1>2. ASSUME ReadFile(p)
      PROVE  \E m, ok : /\ Move(p, m, ok) /\ MemoryOK(m)
                        /\ m.stage \notin {"readBook", "writeBook"}
  <2>1. PICK f \in FileState : Move(p, AfterFile(proc[p], f), f = file[proc[p].agent])
    BY <1>2, ReadFileParts
  <2>2. MemoryOK(proc[p]) /\ proc[p].stage = "read"
    BY <1>2, ReadFileParts
  <2>3. /\ MemoryOK(AfterFile(proc[p], f))
        /\ AfterFile(proc[p], f).stage \notin {"readBook", "writeBook"}
    BY <1>1, <2>2, AfterFileOK
  <2>4. QED BY <2>1, <2>3
<1>3. ASSUME ReadRecord(p)
      PROVE  \E m, ok : /\ Move(p, m, ok) /\ MemoryOK(m)
                        /\ m.stage \notin {"readBook", "writeBook"}
  <2>1. MemoryOK(proc[p]) /\ proc[p].stage = "record"
    BY <1>3, ReadRecordParts
  <2>2. PICK rec \in Nat \cup {NoRecord} :
          \/ Move(p, Idle, rec = records[proc[p].agent])
          \/ /\ AfterRecord(proc[p], rec) # "idle"
             /\ Move(p, AfterBook(proc[p], rec), rec = records[proc[p].agent])
    BY <1>3, ReadRecordParts
  <2>3. AfterRecord(proc[p], rec) # "idle"
          => /\ MemoryOK(AfterBook(proc[p], rec))
             /\ AfterBook(proc[p], rec).stage \notin {"readBook", "writeBook"}
    BY <2>1, AfterBookOK
  <2>4. QED BY <1>1, <2>2, <2>3
<1>4. ASSUME Backup(p)
      PROVE  \E m, ok : /\ Move(p, m, ok) /\ MemoryOK(m)
                        /\ m.stage \notin {"readBook", "writeBook"}
  <2>1. MemoryOK(proc[p]) /\ proc[p].stage = "backup"
    BY <1>4, BackupParts
  <2>2. PICK saved \in Nat, ok \in BOOLEAN : Move(p, Copied(proc[p], saved), ok)
    BY <1>4, BackupParts
  <2>3. /\ MemoryOK(Copied(proc[p], saved))
        /\ Copied(proc[p], saved).stage \notin {"readBook", "writeBook"}
    BY <2>1, CopiedOK
  <2>4. QED BY <2>2, <2>3
<1>5. ASSUME Crash(p)
      PROVE  \E m, ok : /\ Move(p, m, ok) /\ MemoryOK(m)
                        /\ m.stage \notin {"readBook", "writeBook"}
  <2>1. Move(p, Idle, FALSE)
    BY <1>5 DEF Crash
  <2>2. QED BY <1>1, <2>1
<1>6. QED BY <1>2, <1>3, <1>4, <1>5, Zenon

\* A disconnect that ends there has seen that there is nothing of kawn's.
LEMMA EarlyClean ==
  ASSUME TypeState, AloneInv, NEW p \in Procs,
         ReadFile(p) \/ ReadRecord(p) \/ Backup(p) \/ Crash(p)
  PROVE  /\ file' = file /\ records' = records
         /\ DisconnectClean'
<1>1. ASSUME ReadFile(p)
      PROVE  /\ file' = file /\ records' = records
             /\ DisconnectClean'
  <2> DEFINE m == proc[p]
             a == m.agent
  <2>1. a \in Agents /\ file' = file /\ records' = records /\ m.stage = "read"
    BY <1>1, ReadFileParts
  <2>2. PICK f \in {file[a], Absent} :
          gone' = [gone EXCEPT ![a] =
             IF /\ AfterRead(m, f) = "idle" /\ m.cmd = "disconnect"
                /\ alone[p] /\ f = file[a] /\ gone[a] # "removed"
             THEN "nothing" ELSE gone[a]]
    BY <1>1, ReadFileParts
  <2>3. AfterRead(m, f) = "idle" /\ m.cmd = "disconnect" /\ f = file[a] /\ a \notin Owned
          => ~HasOurs(file[a])
    BY DEF AfterRead
  <2> HIDE DEF a
  <2>4. ASSUME NEW b \in Agents
        PROVE  /\ gone'[b] # "no" /\ b \notin Owned => ~HasOurs(file[b])
               /\ gone'[b] = "removed" => gone[b] = "removed"
    <3>1. gone[b] # "no" /\ b \notin Owned => ~HasOurs(file[b])
      BY DEF AloneInv, DisconnectClean
    <3>2. gone \in [Agents -> Ends]
      BY DEF TypeState, HistoryOK
    <3>3. b # a => gone'[b] = gone[b]
      BY <2>1, <2>2, <3>2
    <3>4. b = a => \/ gone'[b] = gone[b]
                   \/ /\ gone'[b] = "nothing"
                      /\ AfterRead(m, f) = "idle" /\ m.cmd = "disconnect" /\ f = file[a]
      BY <2>1, <2>2, <3>2
    <3>5. QED BY <2>3, <3>1, <3>3, <3>4
  <2>5. QED BY <2>1, <2>4 DEF AloneInv, DisconnectClean
<1>2. ASSUME ReadRecord(p) \/ Backup(p) \/ Crash(p)
      PROVE  /\ file' = file /\ records' = records
             /\ DisconnectClean'
  <2>1. /\ file' = file /\ records' = records
        /\ \A b \in Agents : gone'[b] # "no" => gone'[b] = gone[b]
    <3>1. ReadRecord(p) => file' = file /\ records' = records /\ gone' = gone
      BY ReadRecordParts
    <3>2. Backup(p) => file' = file /\ records' = records /\ gone' = gone
      BY BackupParts
    <3>3. Crash(p) => /\ file' = file /\ records' = records
                      /\ gone' = [gone EXCEPT ![proc[p].agent] = "no"]
      BY DEF Crash, diskVars
    <3>4. gone \in [Agents -> Ends]
      BY DEF TypeState, HistoryOK
    <3>5. QED BY <1>2, <3>1, <3>2, <3>3, <3>4
  <2>2. QED BY <2>1 DEF AloneInv, DisconnectClean
<1>3. QED BY <1>1, <1>2, Zenon

\* The steps of a command before it replaces the file.
LEMMA AloneEarly ==
  ASSUME TypeState, AloneInv, NEW p \in Procs,
         ReadFile(p) \/ ReadRecord(p) \/ Backup(p) \/ Crash(p)
  PROVE  AloneInv'
<1>1. DisconnectClean'
  BY EarlyClean, Zenon
<1>2. PICK m, ok : /\ Move(p, m, ok) /\ MemoryOK(m)
                   /\ m.stage \notin {"readBook", "writeBook"}
  BY EarlyMove, Zenon
<1>3. /\ proc'[p] = m
      /\ \A q \in Procs \ {p} : proc'[q] = proc[q] /\ alone'[q] = alone[q]
      /\ alone'[p] => alone[p]
  BY <1>2, MoveOK DEF TypeState
<1>4. AloneOK(p)'
  BY <1>2, <1>3 DEF AloneInv, AloneOK, At
<1>5. ASSUME NEW q \in Procs \ {p} PROVE AloneOK(q)'
  <2>1. alone'[q] => FALSE
    <3>1. ~At(p, "idle")
      BY DEF ReadFile, ReadRecord, Backup, Crash, At
    <3>2. QED BY <1>3, <3>1 DEF AloneInv, AloneOK
  <2>2. QED BY <2>1 DEF AloneOK
<1>6. QED BY <1>1, <1>4, <1>5 DEF AloneInv

LEMMA AloneBegin ==
  ASSUME TypeState, AloneInv, NEW p \in Procs,
         NEW cmd, NEW a, NEW v, NEW force, Begin(p, cmd, a, v, force)
  PROVE  AloneInv'
<1>1. file' = file /\ records' = records /\ gone' = gone
  BY DEF Begin, diskVars
<1>2. DisconnectClean'
  BY <1>1 DEF AloneInv, DisconnectClean
<1>3. /\ proc'[p].stage \in {"record", "read"}
      /\ \A q \in Procs \ {p} : proc'[q] = proc[q]
  BY DEF Begin, TypeState, CommandsOK, Idle
<1>4. \A q \in Procs :
        alone'[q] => q = p /\ \A r \in Procs \ {p} : proc[r].stage = "idle"
  BY DEF Begin, At
<1>5. ASSUME NEW q \in Procs PROVE AloneOK(q)'
  BY <1>3, <1>4 DEF AloneOK, At
<1>6. QED BY <1>2, <1>5 DEF AloneInv

LEMMA AloneWrite ==
  ASSUME TypeState, AloneInv, NEW p \in Procs, Write(p)
  PROVE  AloneInv'
<1> DEFINE m == proc[p]
           a == m.agent
           n == [Idle EXCEPT !.stage = "readBook", !.agent = a,
                             !.cmd = m.cmd, !.saved = m.saved]
<1>1. /\ MemoryOK(m) /\ m.stage = "write" /\ a \in Agents
      /\ MemoryOK(n) /\ n.stage = "readBook" /\ n.agent = a /\ n.cmd = m.cmd
      /\ UNCHANGED <<records, backups, begun, edits>>
      /\ gone' = [gone EXCEPT ![a] = "no"]
  BY WriteParts, Zenon
<1>2. PICK f \in FileState :
        /\ f = Outcome(m) \/ f = file[a]
        /\ file' = [file EXCEPT ![a] = f]
        /\ trip' = [trip EXCEPT ![a] = IF f = Outcome(m) THEN Trip(p) ELSE NoTrip]
        /\ Move(p, n, f = Outcome(m))
  BY WriteParts, Zenon
<1> HIDE DEF n
<1>3. \A b \in Agents : gone'[b] # "no" => gone'[b] = gone[b] /\ b # a
  BY <1>1 DEF TypeState, HistoryOK
<1>4. \A b \in Agents \ {a} : file'[b] = file[b]
  BY <1>2 DEF TypeState, StoreOK
<1>5. DisconnectClean'
  <2>1. SUFFICES ASSUME NEW b \in Agents
                 PROVE  /\ gone'[b] # "no" /\ b \notin Owned => ~HasOurs(file'[b])
                        /\ gone'[b] = "removed" => records'[b] = NoRecord
    BY Zenon DEF DisconnectClean
  <2>2. gone'[b] # "no" => gone'[b] = gone[b] /\ file'[b] = file[b]
    BY <1>3, <1>4
  <2>3. records' = records
    BY <1>1
  <2>4. QED BY <2>2, <2>3 DEF AloneInv, DisconnectClean
<1>6. /\ proc'[p] = n
      /\ \A q \in Procs \ {p} : proc'[q] = proc[q] /\ alone'[q] = alone[q]
      /\ alone'[p] => alone[p] /\ f = Outcome(m)
  BY <1>1, <1>2, MoveOK DEF TypeState
<1>7. AloneOK(p)'
  <2>1. a \notin Owned /\ m.cmd = "disconnect" => ~HasOurs(Outcome(m))
    BY OutcomeRest
  <2>2. file'[a] = f
    BY <1>1, <1>2 DEF TypeState, StoreOK
  <2>3. alone'[p] /\ a \notin Owned /\ m.cmd = "disconnect" => ~HasOurs(file'[a])
    BY <1>6, <2>1, <2>2, Zenon
  <2>4. alone'[p] => \A q \in Procs \ {p} : proc'[q].stage = "idle"
    BY <1>6 DEF AloneInv, AloneOK, At
  <2>5. proc'[p].stage = "readBook" /\ proc'[p].agent = a /\ proc'[p].cmd = m.cmd
    BY <1>1, <1>6
  <2>6. QED BY <2>3, <2>4, <2>5 DEF AloneOK, At
<1>8. ASSUME NEW q \in Procs \ {p} PROVE AloneOK(q)'
  <2>1. ~alone'[q]
    BY <1>1, <1>6 DEF AloneInv, AloneOK, At
  <2>2. QED BY <2>1 DEF AloneOK
<1>9. QED BY <1>5, <1>7, <1>8 DEF AloneInv

LEMMA AloneReadBook ==
  ASSUME TypeState, AloneInv, NEW p \in Procs, ReadBook(p)
  PROVE  AloneInv'
<1>1. /\ MemoryOK(proc[p]) /\ proc[p].stage = "readBook"
      /\ UNCHANGED <<file, records, backups, begun, edits, since, trip, gone>>
  BY ReadBookParts
<1>2. PICK n : /\ MemoryOK(n) /\ n.stage = "writeBook" /\ n.agent = proc[p].agent
               /\ n.cmd = proc[p].cmd /\ n.saved = proc[p].saved
               /\ Move(p, n, n.book = records)
  BY ReadBookParts
<1>3. /\ proc'[p] = n
      /\ \A q \in Procs \ {p} : proc'[q] = proc[q] /\ alone'[q] = alone[q]
      /\ alone'[p] => alone[p] /\ n.book = records
  BY <1>2, MoveOK DEF TypeState
<1>4. AloneOK(p)'
  BY <1>1, <1>2, <1>3 DEF AloneInv, AloneOK, At
<1>5. ASSUME NEW q \in Procs \ {p} PROVE AloneOK(q)'
  <2>1. ~alone'[q]
    BY <1>1, <1>3 DEF AloneInv, AloneOK, At
  <2>2. QED BY <2>1 DEF AloneOK
<1>6. DisconnectClean'
  BY <1>1 DEF AloneInv, DisconnectClean
<1>7. QED BY <1>4, <1>5, <1>6 DEF AloneInv

LEMMA AloneWriteBook ==
  ASSUME TypeState, AloneInv, NEW p \in Procs, WriteBook(p)
  PROVE  AloneInv'
<1> DEFINE m == proc[p]
           a == m.agent
<1>1. MemoryOK(m) /\ m.stage = "writeBook" /\ a \in Agents
      /\ m.cmd \in {"setup", "disconnect"}
  BY DEF TypeState, CommandsOK, MemoryOK, WriteBook, At
<1>2. /\ file' = file
      /\ records' = [m.book EXCEPT ![a] = IF m.cmd = "setup" THEN m.saved ELSE NoRecord]
      /\ Move(p, Idle, TRUE)
      /\ gone' = IF alone[p]
                 THEN [gone EXCEPT ![a] = IF m.cmd = "setup" THEN "no" ELSE "removed"]
                 ELSE [b \in Agents |-> "no"]
  BY DEF WriteBook
<1>3. /\ \A q \in Procs \ {p} : proc'[q] = proc[q] /\ alone'[q] = alone[q]
      /\ ~alone'[p]
  BY <1>2, IdleOK, MoveOK DEF TypeState
<1>4. ASSUME NEW q \in Procs PROVE AloneOK(q)'
  <2>1. ~alone'[q]
    BY <1>1, <1>3 DEF AloneInv, AloneOK, At
  <2>2. QED BY <2>1 DEF AloneOK
<1>5. DisconnectClean'
  <2>1. SUFFICES ASSUME NEW b \in Agents, gone'[b] # "no"
                 PROVE  /\ b \notin Owned => ~HasOurs(file'[b])
                        /\ gone'[b] = "removed" => records'[b] = NoRecord
    BY Zenon DEF DisconnectClean
  <2>2. alone[p]
    BY <1>2, <2>1
  <2>3. records \in Book /\ m.book = records /\ gone \in [Agents -> Ends]
    BY <1>1, <2>2 DEF AloneInv, AloneOK, TypeState, StoreOK, HistoryOK
  <2>4. /\ b = a => m.cmd = "disconnect"
        /\ b # a => gone'[b] = gone[b]
    BY <1>1, <1>2, <2>1, <2>2, <2>3
  <2>5. CASE b = a
    <3>1. records'[a] = NoRecord
      BY <1>1, <1>2, <2>3, <2>4, <2>5 DEF Book
    <3>2. b \notin Owned => ~HasOurs(file[b])
      BY <1>1, <2>2, <2>4, <2>5 DEF AloneInv, AloneOK
    <3>3. QED BY <1>2, <2>5, <3>1, <3>2
  <2>6. CASE b # a
    <3>1. records'[b] = records[b]
      BY <1>2, <2>3, <2>6 DEF Book
    <3>2. QED BY <1>2, <2>1, <2>4, <2>6, <3>1 DEF AloneInv, DisconnectClean
  <2>7. QED BY <2>5, <2>6
<1>6. QED BY <1>4, <1>5 DEF AloneInv

LEMMA AloneUser ==
  ASSUME TypeState, AloneInv, User
  PROVE  AloneInv'
<1>1. PICK S : ByHand(S)
  BY DEF User, ReplaceFile, EditRest, LoseBook, LoseStore
<1>2. \A q \in Procs : ~alone'[q]
  BY <1>1 DEF ByHand
<1>3. \A q \in Procs : AloneOK(q)'
  BY <1>2 DEF AloneOK
<1>4. ASSUME NEW a \in Agents, ByHand({a}), UNCHANGED records,
             NEW f, file' = [file EXCEPT ![a] = f]
      PROVE  DisconnectClean'
  <2>1. \A b \in Agents : gone'[b] # "no" => gone'[b] = gone[b] /\ b # a
    BY <1>4 DEF ByHand
  <2>2. \A b \in Agents \ {a} : file'[b] = file[b]
    BY <1>4 DEF TypeState, StoreOK
  <2>3. QED BY <1>4, <2>1, <2>2 DEF AloneInv, DisconnectClean
<1>5. ASSUME ByHand(Agents) PROVE DisconnectClean'
  BY <1>5 DEF ByHand, DisconnectClean
<1>6. DisconnectClean'
  BY <1>4, <1>5 DEF User, ReplaceFile, EditRest, LoseBook, LoseStore
<1>7. QED BY <1>3, <1>6 DEF AloneInv

LEMMA AloneInit == Init => AloneInv
BY DEF Init, AloneInv, AloneOK, DisconnectClean

LEMMA AloneStep ==
  ASSUME TypeState, AloneInv, [Next]_vars
  PROVE  AloneInv'
<1>1. ASSUME NEW p \in Procs, Command(p) PROVE AloneInv'
  <2>1. ASSUME \E cmd, a, v, force : Begin(p, cmd, a, v, force) PROVE AloneInv'
    BY <2>1, AloneBegin
  <2>2. QED BY <1>1, <2>1, AloneEarly, AloneWrite, AloneReadBook,
               AloneWriteBook DEF Command, Connect, Disconnect
<1>2. ASSUME UNCHANGED vars PROVE AloneInv'
  BY <1>2 DEF vars, AloneInv, AloneOK, DisconnectClean, At
<1>3. QED BY <1>1, <1>2, AloneUser DEF Next

\* A disconnect that ran alone, without a failing read or removal, leaves no
\* entry of kawn's, and no record if it found something to remove, in whatever
\* state earlier crashes, losses and overlapping commands had left them
\* (uninstallJsonMcp, removeIntegrationRecord).
THEOREM DisconnectCleans == Spec => []DisconnectClean
<1>1. AloneInv => DisconnectClean
  BY DEF AloneInv
<1>2. QED BY <1>1, AloneInit, AloneStep, InitOK, StepOK, PTL DEF Spec
-----------------------------------------------------------------------------
(* A round trip                                                            *)

\* Among these copies, the one a record names is f; none if there was no file.
CopyOf(f, rec, copies) ==
  IF f = Absent THEN rec = 0
  ELSE rec \in DOMAIN copies /\ copies[rec] = f

\* A file that setup may merge into.
Editable(f) == f # Garbled /\ (f \in Config => f.kawn # Unmanaged)

\* What a command with the project to itself remembers, in m, of its agent's
\* file g and record r.
Tracks(m, g, r, copies) ==
  LET restores == m.cmd = "disconnect" /\ m.agent \in Owned
  IN /\ m.stage \in {"record", "backup", "write"} /\ ~(m.stage = "record" /\ restores)
          => m.read = g
     /\ (m.stage = "write" /\ m.cmd = "disconnect") \/ (m.stage = "read" /\ restores)
          => m.rec = r
     /\ m.stage = "write" /\ m.cmd = "setup" => CopyOf(m.read, m.saved, copies)
     /\ m.stage \in {"backup", "write"} /\ m.cmd = "setup" /\ m.agent \notin Owned
          => Editable(m.read)

\* The file g of a is what setup made of f, and rec names the copy of f.
Restorable(a, g, f, rec, copies) ==
  /\ CopyOf(f, rec, copies)
  /\ a \notin Owned => /\ Editable(f)
                       /\ \E v \in Launches : g = Merged(f, v)

\* The file g of a is what f is to be after disconnect.
Restored(a, g, f) == (a \notin Owned => f # Alien) => g = Before(a, f)

\* p has replaced the file of a and is about to put it on record.
Books(p, a) == proc[p].agent = a /\ proc[p].stage \in {"readBook", "writeBook"}

\* One installation after the user's file, or that and one disconnect.
OnTrip(a) ==
  trip[a] # NoTrip /\ trip[a].installs = 1
    => /\ \A p \in Procs :
            alone[p] /\ Books(p, a)
              => IF proc[p].cmd = "setup"
                   THEN Restorable(a, file[a], trip[a].from, proc[p].saved, backups)
                   ELSE Restored(a, file[a], trip[a].from)
       /\ gone[a] # "removed" /\ (\A p \in Procs : ~Books(p, a))
            => Restorable(a, file[a], trip[a].from, records[a], backups)
       /\ gone[a] = "removed" => Restored(a, file[a], trip[a].from)

LoneTracks(p) ==
  alone[p] => Tracks(proc[p], file[proc[p].agent], records[proc[p].agent], backups)

TripInv == (\A p \in Procs : LoneTracks(p)) /\ (\A a \in Agents : OnTrip(a))

\* Copies are added, and none is replaced.
Grow(copies, more) == \A i \in DOMAIN copies : i \in DOMAIN more /\ more[i] = copies[i]

LEMMA StaysRestorable ==
  ASSUME NEW a, NEW g, NEW f, NEW rec, NEW copies, NEW more,
         Restorable(a, g, f, rec, copies), Grow(copies, more)
  PROVE  Restorable(a, g, f, rec, more)
BY DEF Restorable, CopyOf, Grow

LEMMA StaysTracked ==
  ASSUME NEW m, NEW g, NEW r, NEW copies, NEW more,
         Tracks(m, g, r, copies), Grow(copies, more)
  PROVE  Tracks(m, g, r, more)
BY DEF Tracks, CopyOf, Grow

\* What is so of a's file is still so after a step that leaves it, its record
\* and its trip alone.
LEMMA TripFrame ==
  ASSUME NEW a \in Agents, OnTrip(a), Grow(backups, backups'),
         file'[a] = file[a], records'[a] = records[a],
         trip'[a] = trip[a], gone'[a] = "removed" <=> gone[a] = "removed",
         \A q \in Procs : Books(q, a) => Books(q, a)',
         \A q \in Procs : alone'[q] /\ Books(q, a)'
           => /\ alone[q] /\ Books(q, a)
              /\ proc'[q].cmd = proc[q].cmd /\ proc'[q].saved = proc[q].saved
  PROVE  OnTrip(a)'
<1> DEFINE t == trip[a]
           g == file[a]
<1>1. SUFFICES ASSUME t # NoTrip, t.installs = 1
               PROVE  OnTrip(a)'
  BY DEF OnTrip
<1>2. ASSUME NEW q \in Procs, alone'[q], Books(q, a)'
      PROVE  IF proc'[q].cmd = "setup"
               THEN Restorable(a, file'[a], trip'[a].from, proc'[q].saved, backups')
               ELSE Restored(a, file'[a], trip'[a].from)
  <2>1. /\ alone[q] /\ Books(q, a)
        /\ proc'[q].cmd = proc[q].cmd /\ proc'[q].saved = proc[q].saved
    BY <1>2
  <2>2. IF proc[q].cmd = "setup" THEN Restorable(a, g, t.from, proc[q].saved, backups)
        ELSE Restored(a, g, t.from)
    BY <1>1, <2>1 DEF OnTrip
  <2>3. QED BY <2>1, <2>2, StaysRestorable
<1>3. ASSUME gone'[a] # "removed", \A q \in Procs : ~Books(q, a)'
      PROVE  Restorable(a, file'[a], trip'[a].from, records'[a], backups')
  <2>1. gone[a] # "removed" /\ \A q \in Procs : ~Books(q, a)
    BY <1>3
  <2>2. Restorable(a, g, t.from, records[a], backups)
    BY <1>1, <2>1 DEF OnTrip
  <2>3. QED BY <2>2, StaysRestorable
<1>4. gone'[a] = "removed" => Restored(a, file'[a], trip'[a].from)
  BY <1>1 DEF OnTrip
<1>5. QED BY <1>2, <1>3, <1>4 DEF OnTrip

\* A step of a command that replaces neither the file nor the book.
LEMMA TripMove ==
  ASSUME TypeState, AloneInv, TripInv, NEW p \in Procs, ~At(p, "idle"),
         NEW n, NEW ok, MemoryOK(n), Move(p, n, ok), Grow(backups, backups'),
         file' = file, records' = records, trip' = trip,
         \A a \in Agents : gone'[a] = "removed" <=> gone[a] = "removed",
         n.stage \in {"readBook", "writeBook"}
           <=> proc[p].stage \in {"readBook", "writeBook"},
         n.stage \in {"readBook", "writeBook"}
           => /\ n.agent = proc[p].agent /\ n.cmd = proc[p].cmd
              /\ n.saved = proc[p].saved,
         alone[p] /\ n # Idle /\ ok
           => Tracks(n, file[n.agent], records[n.agent], backups')
  PROVE  TripInv'
<1>1. /\ proc'[p] = n
      /\ alone'[p] => alone[p] /\ n # Idle /\ ok
      /\ \A q \in Procs \ {p} : proc'[q] = proc[q] /\ alone'[q] = alone[q]
  BY MoveOK DEF TypeState
<1>2. \A q \in Procs \ {p} : ~alone[q]
  BY DEF AloneInv, AloneOK
<1>3. \A q \in Procs : LoneTracks(q)'
  BY <1>1, <1>2 DEF LoneTracks
<1>4. ASSUME NEW a \in Agents PROVE OnTrip(a)'
  <2>1. OnTrip(a)
    BY DEF TripInv
  <2>2. \A q \in Procs : Books(q, a) => Books(q, a)'
    BY <1>1 DEF Books
  <2>3. \A q \in Procs : alone'[q] /\ Books(q, a)'
           => /\ alone[q] /\ Books(q, a)
              /\ proc'[q].cmd = proc[q].cmd /\ proc'[q].saved = proc[q].saved
    BY <1>1, <1>2 DEF Books
  <2>4. QED BY <2>1, <2>2, <2>3, TripFrame
<1>5. QED BY <1>3, <1>4 DEF TripInv

LEMMA TripReadFile ==
  ASSUME TypeState, AloneInv, TripInv, NEW p \in Procs, ReadFile(p)
  PROVE  TripInv'
<1> DEFINE m == proc[p]
<1>1. /\ MemoryOK(m) /\ m.stage = "read" /\ m.agent \in Agents
      /\ UNCHANGED <<file, records, backups, begun, edits, trip>>
  BY ReadFileParts
<1>2. PICK f \in FileState :
        /\ Move(p, AfterFile(m, f), f = file[m.agent])
        /\ gone' = [gone EXCEPT ![m.agent] =
             IF /\ AfterRead(m, f) = "idle" /\ m.cmd = "disconnect"
                /\ alone[p] /\ f = file[m.agent] /\ gone[m.agent] # "removed"
             THEN "nothing" ELSE gone[m.agent]]
  BY ReadFileParts
<1> DEFINE next == AfterRead(m, f)
           n    == AfterFile(m, f)
<1>3. /\ next = "record" => m.cmd = "setup" /\ m.agent \notin Owned
      /\ next = "write" => m.cmd = "disconnect" /\ m.agent \in Owned
      /\ next = "backup" /\ m.cmd = "setup" => m.agent \in Owned
  BY <1>1 DEF AfterRead, MemoryOK
<1>4. \A b \in Agents : gone'[b] = "removed" <=> gone[b] = "removed"
  BY <1>1, <1>2 DEF TypeState, HistoryOK, Ends
<1>5. Grow(backups, backups')
  BY <1>1 DEF Grow
<1>6. /\ MemoryOK(n)
      /\ next = "idle" => n = Idle
      /\ next # "idle" => /\ n.stage = next /\ n.read = f /\ n.agent = m.agent
                          /\ n.cmd = m.cmd /\ n.rec = m.rec
                          /\ next \in {"record", "backup", "write"}
  BY <1>1, AfterFileOK
<1>7. Move(p, n, f = file[m.agent])
  BY <1>2
<1> HIDE DEF n, next
<1>8. n.stage \notin {"readBook", "writeBook"}
  BY <1>6 DEF Idle
<1>9. ASSUME alone[p], n # Idle, f = file[m.agent]
      PROVE  Tracks(n, file[n.agent], records[n.agent], backups')
  <2>1. Tracks(m, file[m.agent], records[m.agent], backups)
    BY <1>9 DEF TripInv, LoneTracks
  <2>2. next = "write" => m.rec = records[m.agent]
    BY <1>1, <1>3, <2>1 DEF Tracks
  <2>3. QED BY <1>3, <1>6, <1>9, <2>2 DEF Tracks
<1>10. file' = file /\ records' = records /\ trip' = trip
  BY <1>1
<1>11. QED
  BY <1>1, <1>4, <1>5, <1>6, <1>7, <1>8, <1>9, <1>10, TripMove DEF At

LEMMA TripReadRecord ==
  ASSUME TypeState, AloneInv, TripInv, NEW p \in Procs, ReadRecord(p)
  PROVE  TripInv'
<1> DEFINE m == proc[p]
           a == m.agent
<1>1. /\ MemoryOK(m) /\ m.stage = "record" /\ a \in Agents
      /\ UNCHANGED <<file, records, backups, begun, edits, trip, gone>>
  BY ReadRecordParts
<1>2. PICK rec \in Nat \cup {NoRecord} :
        \/ Move(p, Idle, rec = records[a])
        \/ /\ AfterRecord(m, rec) # "idle"
           /\ Move(p, AfterBook(m, rec), rec = records[a])
  BY ReadRecordParts
<1> DEFINE next == AfterRecord(m, rec)
           n    == AfterBook(m, rec)
<1>3. next \in {"idle", "read", "backup", "write"}
  BY DEF AfterRecord
<1>4. /\ next = "read" => m.cmd = "disconnect" /\ a \in Owned
      /\ next = "write" => m.cmd = "disconnect" /\ a \notin Owned
      /\ next = "backup" => m.cmd = "setup" /\ Editable(m.read)
  BY <1>1 DEF AfterRecord, Blocked, Editable, MemoryOK
<1>5. /\ next # "idle" => MemoryOK(n)
      /\ n.stage = next /\ n.read = m.read /\ n.agent = a /\ n.cmd = m.cmd
      /\ m.cmd # "setup" => n.rec = rec
  BY <1>1, AfterBookOK
<1>6. Grow(backups, backups')
  BY <1>1 DEF Grow
<1>7. /\ file' = file /\ records' = records /\ trip' = trip
      /\ \A b \in Agents : gone'[b] = "removed" <=> gone[b] = "removed"
  BY <1>1
<1>8. Move(p, Idle, rec = records[a]) \/ (next # "idle" /\ Move(p, n, rec = records[a]))
  BY <1>2
<1> HIDE DEF next, n
<1>9. CASE Move(p, Idle, rec = records[a])
  <2>1. Idle.stage = "idle"
    BY DEF Idle
  <2>2. QED BY <1>1, <1>6, <1>7, <1>9, <2>1, IdleOK, TripMove DEF At
<1>10. CASE next # "idle" /\ Move(p, n, rec = records[a])
  <2>1. ASSUME alone[p], rec = records[a]
        PROVE  Tracks(n, file[n.agent], records[n.agent], backups')
    <3>1. Tracks(m, file[m.agent], records[m.agent], backups)
      BY <2>1 DEF TripInv, LoneTracks
    <3>2. next # "read" => m.read = file[a]
      BY <1>1, <1>3, <1>4, <1>10, <3>1 DEF Tracks
    <3>3. QED BY <1>3, <1>4, <1>5, <1>10, <2>1, <3>2 DEF Tracks, Editable
  <2>2. MemoryOK(n) /\ n.stage \notin {"readBook", "writeBook"}
    BY <1>3, <1>5, <1>10
  <2>3. QED BY <1>1, <1>6, <1>7, <1>10, <2>1, <2>2, TripMove DEF At
<1>11. QED BY <1>8, <1>9, <1>10

LEMMA TripBackup ==
  ASSUME TypeState, AloneInv, TripInv, NEW p \in Procs, Backup(p)
  PROVE  TripInv'
<1> DEFINE m == proc[p]
           a == m.agent
<1>1. /\ MemoryOK(m) /\ m.stage = "backup" /\ a \in Agents
      /\ UNCHANGED <<file, records, begun, edits, trip, gone>>
  BY BackupParts
<1>2. file[a] \in FileState /\ backups \in Seq(FileState)
  BY <1>1 DEF TypeState, StoreOK
<1>3. PICK saved \in Nat, ok \in BOOLEAN :
        /\ Move(p, Copied(m, saved), ok)
        /\ since' = [since EXCEPT ![p] =
             IF ~ok /\ since[p] = "nobody" THEN "uncopied" ELSE since[p]]
        /\ \/ /\ backups' = Append(backups, file[a])
              /\ saved = Len(backups) + 1
              /\ file[a] # Absent
           \/ /\ backups' = backups
              /\ saved = 0
              /\ ok => file[a] = Absent \/ (a \in Owned /\ m.read = Absent)
  BY BackupParts, Zenon
<1> DEFINE n == Copied(m, saved)
<1>4. Grow(backups, backups')
  BY <1>2, <1>3 DEF Grow
<1>5. /\ MemoryOK(n)
      /\ n.stage = IF m.cmd = "disconnect" THEN "record" ELSE "write"
      /\ n.read = m.read /\ n.agent = a /\ n.cmd = m.cmd
      /\ m.cmd # "disconnect" => n.saved = saved
  BY <1>1, CopiedOK
<1>6. m.cmd \in {"setup", "disconnect"}
  BY <1>1 DEF MemoryOK
<1>7. Move(p, n, ok)
  BY <1>3
<1> HIDE DEF n
<1>8. ASSUME alone[p], ok
      PROVE  Tracks(n, file[n.agent], records[n.agent], backups')
  <2>1. /\ m.read = file[a]
        /\ m.cmd = "setup" /\ a \notin Owned => Editable(m.read)
    BY <1>1, <1>8 DEF TripInv, LoneTracks, Tracks
  <2>2. CopyOf(m.read, saved, backups')
    <3>1. CASE /\ backups' = Append(backups, file[a]) /\ saved = Len(backups) + 1
               /\ file[a] # Absent
      <4>1. saved \in DOMAIN backups' /\ backups'[saved] = file[a]
        BY <1>2, <3>1
      <4>2. QED BY <2>1, <3>1, <4>1 DEF CopyOf
    <3>2. CASE saved = 0 /\ m.read = Absent
      BY <3>2 DEF CopyOf
    <3>3. QED BY <1>3, <1>8, <2>1, <3>1, <3>2
  <2>3. CASE m.cmd = "setup"
    BY <1>5, <2>1, <2>2, <2>3 DEF Tracks, CopyOf, Editable
  <2>4. CASE m.cmd = "disconnect"
    BY <1>5, <2>1, <2>4 DEF Tracks
  <2>5. QED BY <1>6, <2>3, <2>4
<1>9. n.stage \notin {"readBook", "writeBook"}
  BY <1>5
<1>10. /\ file' = file /\ records' = records /\ trip' = trip
       /\ \A b \in Agents : gone'[b] = "removed" <=> gone[b] = "removed"
  BY <1>1
<1>11. QED BY <1>1, <1>4, <1>5, <1>7, <1>8, <1>9, <1>10, TripMove DEF At

LEMMA TripReadBook ==
  ASSUME TypeState, AloneInv, TripInv, NEW p \in Procs, ReadBook(p)
  PROVE  TripInv'
<1>1. /\ MemoryOK(proc[p]) /\ proc[p].stage = "readBook"
      /\ UNCHANGED <<file, records, backups, begun, edits, since, trip, gone>>
  BY ReadBookParts
<1>2. PICK n : /\ MemoryOK(n) /\ n.stage = "writeBook" /\ n.agent = proc[p].agent
               /\ n.cmd = proc[p].cmd /\ n.saved = proc[p].saved
               /\ Move(p, n, n.book = records)
  BY ReadBookParts
<1>3. Grow(backups, backups')
  BY <1>1 DEF Grow
<1>4. Tracks(n, file[n.agent], records[n.agent], backups')
  BY <1>2 DEF Tracks
<1>5. /\ file' = file /\ records' = records /\ trip' = trip
      /\ \A b \in Agents : gone'[b] = "removed" <=> gone[b] = "removed"
  BY <1>1
<1>6. QED BY <1>1, <1>2, <1>3, <1>4, <1>5, TripMove DEF At

LEMMA TripBegin ==
  ASSUME TypeState, AloneInv, TripInv, NEW p \in Procs,
         NEW cmd, NEW a, NEW v, NEW force, Begin(p, cmd, a, v, force)
  PROVE  TripInv'
<1>1. /\ file' = file /\ records' = records /\ backups' = backups
      /\ trip' = trip /\ gone' = gone
      /\ proc[p].stage = "idle"
  BY DEF Begin, diskVars, At
<1>2. /\ proc'[p].stage = IF cmd = "disconnect" /\ a \in Owned THEN "record" ELSE "read"
      /\ proc'[p].agent = a /\ proc'[p].cmd = cmd
      /\ \A q \in Procs \ {p} : proc'[q] = proc[q]
  BY DEF Begin, TypeState, CommandsOK, Idle
<1>3. \A q \in Procs :
        alone'[q] => q = p /\ \A r \in Procs \ {p} : proc[r].stage = "idle"
  BY DEF Begin, At
<1>4. \A q \in Procs : LoneTracks(q)'
  BY <1>2, <1>3 DEF LoneTracks, Tracks
<1>5. ASSUME NEW b \in Agents PROVE OnTrip(b)'
  <2>1. OnTrip(b) /\ Grow(backups, backups')
    BY <1>1 DEF TripInv, Grow
  <2>2. \A q \in Procs : Books(q, b) => Books(q, b)'
    BY <1>1, <1>2 DEF Books
  <2>3. \A q \in Procs : ~(alone'[q] /\ Books(q, b)')
    BY <1>2, <1>3 DEF Books
  <2>4. QED BY <1>1, <2>1, <2>2, <2>3, TripFrame
<1>6. QED BY <1>4, <1>5 DEF TripInv

LEMMA TripCrash ==
  ASSUME TypeState, AloneInv, TripInv, NEW p \in Procs, Crash(p)
  PROVE  TripInv'
<1> DEFINE a == proc[p].agent
<1>1. MemoryOK(proc[p]) /\ a \in Agents /\ proc[p].stage # "idle"
  BY DEF TypeState, CommandsOK, MemoryOK, Crash, At
<1>2. /\ file' = file /\ records' = records /\ backups' = backups
      /\ trip' = [trip EXCEPT ![a] = NoTrip]
      /\ gone' = [gone EXCEPT ![a] = "no"]
      /\ Move(p, Idle, FALSE)
  BY DEF Crash, diskVars
<1>3. /\ proc'[p] = Idle /\ ~alone'[p]
      /\ \A q \in Procs \ {p} : proc'[q] = proc[q] /\ alone'[q] = alone[q]
  BY <1>2, IdleOK, MoveOK DEF TypeState
<1>4. \A q \in Procs : ~alone'[q]
  BY <1>1, <1>3 DEF AloneInv, AloneOK, At
<1>5. \A q \in Procs : LoneTracks(q)'
  BY <1>4 DEF LoneTracks
<1>6. trip'[a] = NoTrip
  BY <1>1, <1>2 DEF TypeState, HistoryOK
<1>7. ASSUME NEW b \in Agents \ {a} PROVE OnTrip(b)'
  <2>1. OnTrip(b) /\ Grow(backups, backups')
    BY <1>2 DEF TripInv, Grow
  <2>2. trip'[b] = trip[b] /\ gone'[b] = gone[b]
    BY <1>2 DEF TypeState, HistoryOK
  <2>3. \A q \in Procs : Books(q, b) => Books(q, b)'
    BY <1>3 DEF Books
  <2>4. QED BY <1>2, <1>4, <2>1, <2>2, <2>3, TripFrame
<1>8. QED BY <1>5, <1>6, <1>7 DEF TripInv, OnTrip

LEMMA TripUser ==
  ASSUME TypeState, AloneInv, TripInv, User
  PROVE  TripInv'
<1>1. PICK S : ByHand(S)
  BY DEF User, ReplaceFile, EditRest, LoseBook, LoseStore
<1>2. \A q \in Procs : ~alone'[q]
  BY <1>1 DEF ByHand
<1>3. \A q \in Procs : LoneTracks(q)'
  BY <1>2 DEF LoneTracks
<1>4. ASSUME NEW a \in Agents, ByHand({a}), records' = records, backups' = backups,
             NEW f, file' = [file EXCEPT ![a] = f],
             NEW b \in Agents
      PROVE  OnTrip(b)'
  <2>1. CASE b = a
    <3>1. trip'[b] = NoTrip
      BY <1>4, <2>1 DEF ByHand
    <3>2. QED BY <3>1 DEF OnTrip
  <2>2. CASE b # a
    <3>1. trip'[b] = trip[b] /\ proc' = proc
      BY <1>4, <2>2 DEF ByHand
    <3>2. gone'[b] = gone[b]
      BY <1>4, <2>2 DEF ByHand
    <3>4. file'[b] = file[b]
      BY <1>4, <2>2 DEF TypeState, StoreOK
    <3>5. OnTrip(b) /\ Grow(backups, backups')
      BY <1>4 DEF TripInv, Grow
    <3>6. \A q \in Procs : Books(q, b) => Books(q, b)'
      BY <3>1 DEF Books
    <3>7. QED BY <1>2, <1>4, <3>1, <3>2, <3>4, <3>5, <3>6, TripFrame
  <2>3. QED BY <2>1, <2>2
<1>5. ASSUME ByHand(Agents), NEW b \in Agents PROVE OnTrip(b)'
  BY <1>5 DEF ByHand, OnTrip
<1>6. \A b \in Agents : OnTrip(b)'
  <2>1. ASSUME NEW a \in Agents, NEW f, ReplaceFile(a, f)
        PROVE  \A b \in Agents : OnTrip(b)'
    BY <1>4, <2>1 DEF ReplaceFile
  <2>2. ASSUME NEW a \in Agents, NEW r, EditRest(a, r)
        PROVE  \A b \in Agents : OnTrip(b)'
    BY <1>4, <2>2 DEF EditRest
  <2>3. LoseBook \/ LoseStore => \A b \in Agents : OnTrip(b)'
    BY <1>5 DEF LoseBook, LoseStore
  <2>4. QED BY <2>1, <2>2, <2>3 DEF User
<1>7. QED BY <1>3, <1>6 DEF TripInv

\* What a setup and what a disconnect after it make of a file.
LEMMA SetupOutcome ==
  ASSUME NEW a, NEW m, NEW copies, m.agent = a, m.cmd = "setup", m.want \in Launches,
         CopyOf(m.read, m.saved, copies), a \notin Owned => Editable(m.read)
  PROVE  Restorable(a, Outcome(m), m.read, m.saved, copies)
BY DEF Restorable, Outcome

LEMMA DisconnectOutcome ==
  ASSUME NEW m, NEW f \in FileState, m.agent \in Agents, m.cmd = "disconnect",
         Restorable(m.agent, m.read, f, m.rec, backups), backups \in Seq(FileState)
  PROVE  Restored(m.agent, Outcome(m), f)
<1> DEFINE a == m.agent
<1>1. CopyOf(f, m.rec, backups)
  BY DEF Restorable
<1>2. 0 \notin DOMAIN backups
  OBVIOUS
<1>3. CASE a \in Owned
  <2>1. Saved(m.rec) = f
    BY <1>1, <1>2 DEF CopyOf, Saved
  <2>2. QED BY <1>3, <2>1 DEF Outcome, Restored, Before
<1>4. CASE a \notin Owned
  <2>1. PICK v \in Launches : m.read = Merged(f, v)
    BY <1>4 DEF Restorable
  <2>2. /\ m.read \in Config /\ m.read.kawn = v /\ m.read.legacy = FALSE
        /\ m.read.rest = RestOf(f)
    BY <2>1, AgentAssumption DEF Merged, RestOf, Config
  <2>3. v # Unmanaged
    BY AgentAssumption
  <2>4. Stripped(m.read) = [kawn |-> None, legacy |-> FALSE, rest |-> RestOf(f)]
    BY <2>2, <2>3 DEF Stripped, RestOf
  <2>5. CASE f = Absent
    <3>1. RestOf(f) = Bare
      BY <2>5, AgentAssumption DEF RestOf
    <3>2. m.rec = 0
      BY <1>1, <2>5 DEF CopyOf
    <3>3. Stripped(m.read) = Empty
      BY <2>4, <3>1 DEF Empty
    <3>4. QED BY <1>4, <2>5, <3>2, <3>3 DEF Outcome, Restored, Before
  <2>6. CASE f \in Config
    <3>1. m.rec # 0 /\ f # Absent
      BY <1>1, <1>2, <2>6, AgentAssumption DEF CopyOf
    <3>2. f.kawn # Unmanaged
      BY <1>4, <2>6 DEF Restorable, Editable
    <3>3. Stripped(f) = Stripped(m.read)
      BY <2>4, <2>6, <3>2 DEF Stripped
    <3>4. QED BY <1>4, <3>1, <3>3 DEF Outcome, Restored, Before
  <2>7. CASE f \in {Garbled, Alien}
    BY <1>4, <2>7 DEF Restorable, Editable, Restored
  <2>8. QED BY <2>5, <2>6, <2>7 DEF FileState
<1>5. QED BY <1>3, <1>4

\* After p has replaced the file of a with the project to itself.
LEMMA TripLone ==
  ASSUME NEW a \in Agents, NEW p \in Procs, Books(p, a)', gone'[a] = "no",
         \A q \in Procs \ {p} : ~alone'[q],
         trip'[a] # NoTrip /\ trip'[a].installs = 1
           => IF proc'[p].cmd = "setup"
                THEN Restorable(a, file'[a], trip'[a].from, proc'[p].saved, backups')
                ELSE Restored(a, file'[a], trip'[a].from)
  PROVE  OnTrip(a)'
BY DEF OnTrip

LEMMA TripWrite ==
  ASSUME TypeState, AloneInv, TripInv, NEW p \in Procs, Write(p)
  PROVE  TripInv'
<1> DEFINE m == proc[p]
           a == m.agent
           t == trip[a]
           n == [Idle EXCEPT !.stage = "readBook", !.agent = a,
                             !.cmd = m.cmd, !.saved = m.saved]
<1>1. /\ MemoryOK(m) /\ m.stage = "write" /\ a \in Agents
      /\ MemoryOK(n) /\ n.stage = "readBook" /\ n.agent = a
      /\ n.cmd = m.cmd /\ n.saved = m.saved
      /\ UNCHANGED <<records, backups, begun, edits>>
      /\ gone' = [gone EXCEPT ![a] = "no"]
  BY WriteParts, Zenon
<1>2. PICK f \in FileState :
        /\ f = Outcome(m) \/ f = file[a]
        /\ file' = [file EXCEPT ![a] = f]
        /\ trip' = [trip EXCEPT ![a] = IF f = Outcome(m) THEN Trip(p) ELSE NoTrip]
        /\ Move(p, n, f = Outcome(m))
  BY WriteParts, Zenon
<1> HIDE DEF n
<1>3. m.cmd \in {"setup", "disconnect"} /\ (m.cmd = "setup" => m.want \in Launches)
  BY <1>1 DEF MemoryOK
<1>4. gone'[a] = "no"
  BY <1>1 DEF TypeState, HistoryOK
<1>5. /\ proc'[p] = n
      /\ \A q \in Procs \ {p} : proc'[q] = proc[q] /\ alone'[q] = alone[q]
      /\ alone'[p] => alone[p]
  BY <1>1, <1>2, MoveOK DEF TypeState
<1>6. \A q \in Procs \ {p} : ~alone[q]
  BY <1>1 DEF AloneInv, AloneOK, At
<1>7. \A q \in Procs : LoneTracks(q)'
  BY <1>1, <1>5, <1>6 DEF LoneTracks, Tracks
<1>8. ASSUME NEW b \in Agents \ {a} PROVE OnTrip(b)'
  <2>1. OnTrip(b) /\ Grow(backups, backups')
    BY <1>1 DEF TripInv, Grow
  <2>2. /\ file'[b] = file[b] /\ records'[b] = records[b]
        /\ trip'[b] = trip[b] /\ gone'[b] = gone[b]
    BY <1>1, <1>2 DEF TypeState, StoreOK, HistoryOK
  <2>3. \A q \in Procs : Books(q, b) => Books(q, b)'
    BY <1>1, <1>5 DEF Books
  <2>4. \A q \in Procs : ~(alone'[q] /\ Books(q, b)')
    BY <1>1, <1>5, <1>6 DEF Books
  <2>5. QED BY <2>1, <2>2, <2>3, <2>4, TripFrame
<1>9. ASSUME NEW b \in Agents, b = a PROVE OnTrip(b)'
  <2>1. /\ file'[a] = f
        /\ trip'[a] = IF f = Outcome(m) THEN Trip(p) ELSE NoTrip
        /\ t \in Trips
    BY <1>1, <1>2 DEF TypeState, StoreOK, HistoryOK
  <2>2. Books(p, b)'
    BY <1>1, <1>5, <1>9 DEF Books
  <2>3. CASE ~alone[p] \/ f # Outcome(m)
    <3>1. trip'[a] = NoTrip
      BY <2>1, <2>3 DEF Trip
    <3>2. QED BY <1>9, <3>1 DEF OnTrip
  <2>4. CASE alone[p] /\ f = Outcome(m)
    <3>1. /\ m.read = file[a]
          /\ m.cmd = "disconnect" => m.rec = records[a]
          /\ m.cmd = "setup" => /\ CopyOf(m.read, m.saved, backups)
                                /\ a \notin Owned => Editable(m.read)
      BY <1>1, <2>4 DEF TripInv, LoneTracks, Tracks
    <3>2. SUFFICES ASSUME Trip(p) # NoTrip, Trip(p).installs = 1
                   PROVE  IF m.cmd = "setup"
                            THEN Restorable(a, Outcome(m), Trip(p).from, m.saved, backups)
                            ELSE Restored(a, Outcome(m), Trip(p).from)
      <4>1. gone'[b] = "no" /\ \A q \in Procs \ {p} : ~alone'[q]
        BY <1>4, <1>5, <1>6, <1>9
      <4>2. /\ file'[b] = Outcome(m) /\ trip'[b] = Trip(p) /\ backups' = backups
            /\ proc'[p].cmd = m.cmd /\ proc'[p].saved = m.saved
        BY <1>1, <1>5, <1>9, <2>1, <2>4
      <4>3. QED BY <1>9, <2>2, <4>1, <4>2, TripLone
    <3>3. CASE m.cmd = "setup"
      <4>1. CASE t = NoTrip \/ gone[a] = "removed"
        <5>1. Trip(p).from = m.read
          BY <2>4, <3>3, <4>1 DEF Trip
        <5>2. QED BY <1>3, <3>1, <3>3, <5>1, SetupOutcome
      <4>2. CASE ~(t = NoTrip \/ gone[a] = "removed")
        <5>1. Trip(p) = [t EXCEPT !.installs = 2]
          BY <2>4, <3>3, <4>2 DEF Trip
        <5>2. Trip(p).installs = 2
          BY <2>1, <4>2, <5>1 DEF Trips
        <5>3. QED BY <3>2, <5>2
      <4>3. QED BY <4>1, <4>2
    <3>4. CASE m.cmd = "disconnect"
      <4>1. gone[a] # "removed" /\ Trip(p) = t
        BY <2>4, <3>2, <3>4 DEF Trip
      <4>2. \A q \in Procs : ~Books(q, a)
        BY <1>1, <2>4 DEF AloneInv, AloneOK, At, Books
      <4>3. Restorable(a, file[a], t.from, records[a], backups)
        BY <1>1, <3>2, <4>1, <4>2 DEF TripInv, OnTrip
      <4>4. t.from \in FileState /\ backups \in Seq(FileState)
        BY <2>1, <3>2, <4>1 DEF Trips, TypeState, StoreOK
      <4>5. QED BY <1>1, <3>1, <3>4, <4>1, <4>3, <4>4, DisconnectOutcome
    <3>5. QED BY <1>3, <3>3, <3>4
  <2>5. QED BY <2>3, <2>4
<1>10. QED BY <1>7, <1>8, <1>9 DEF TripInv

LEMMA TripWriteBook ==
  ASSUME TypeState, AloneInv, TripInv, NEW p \in Procs, WriteBook(p)
  PROVE  TripInv'
<1> DEFINE m == proc[p]
           a == m.agent
<1>1. MemoryOK(m) /\ m.stage = "writeBook" /\ a \in Agents
      /\ m.cmd \in {"setup", "disconnect"}
  BY DEF TypeState, CommandsOK, MemoryOK, WriteBook, At
<1>2. /\ file' = file /\ backups' = backups
      /\ records' = [m.book EXCEPT ![a] = IF m.cmd = "setup" THEN m.saved ELSE NoRecord]
      /\ Move(p, Idle, TRUE)
      /\ gone' = IF alone[p]
                 THEN [gone EXCEPT ![a] = IF m.cmd = "setup" THEN "no" ELSE "removed"]
                 ELSE [b \in Agents |-> "no"]
      /\ trip' = IF alone[p] THEN trip ELSE [b \in Agents |-> NoTrip]
  BY DEF WriteBook
<1>3. /\ \A q \in Procs \ {p} : proc'[q] = proc[q] /\ alone'[q] = alone[q]
      /\ proc'[p] = Idle /\ ~alone'[p]
  BY <1>2, IdleOK, MoveOK DEF TypeState
<1>4. \A q \in Procs : ~alone'[q]
  BY <1>1, <1>3 DEF AloneInv, AloneOK, At
<1>5. \A q \in Procs : LoneTracks(q)'
  BY <1>4 DEF LoneTracks
<1>6. CASE ~alone[p]
  <2>1. \A b \in Agents : trip'[b] = NoTrip
    BY <1>2, <1>6
  <2>2. QED BY <1>5, <2>1 DEF TripInv, OnTrip
<1>7. CASE alone[p]
  <2>1. /\ records \in Book /\ m.book = records /\ trip' = trip
        /\ gone' = [gone EXCEPT ![a] = IF m.cmd = "setup" THEN "no" ELSE "removed"]
        /\ gone \in [Agents -> Ends]
    BY <1>1, <1>2, <1>7 DEF AloneInv, AloneOK, TypeState, StoreOK, HistoryOK
  <2>2. ASSUME NEW b \in Agents \ {a} PROVE OnTrip(b)'
    <3>1. OnTrip(b) /\ Grow(backups, backups')
      BY <1>2 DEF TripInv, Grow
    <3>2. records'[b] = records[b]
      BY <1>2, <2>1 DEF Book
    <3>3. gone'[b] = gone[b]
      BY <2>1
    <3>4. \A q \in Procs : Books(q, b) => Books(q, b)'
      BY <1>3 DEF Books
    <3>5. QED BY <1>2, <1>4, <2>1, <3>1, <3>2, <3>3, <3>4, TripFrame
  <2>3. ASSUME NEW b \in Agents, b = a PROVE OnTrip(b)'
    <3>1. records'[a] = IF m.cmd = "setup" THEN m.saved ELSE NoRecord
      BY <1>1, <1>2, <2>1 DEF Book
    <3>2. gone'[a] = IF m.cmd = "setup" THEN "no" ELSE "removed"
      BY <1>1, <2>1
    <3>3. Books(p, a)
      BY <1>1 DEF Books
    <3>4. SUFFICES ASSUME trip[a] # NoTrip, trip[a].installs = 1
                   PROVE  IF m.cmd = "setup"
                            THEN Restorable(a, file[a], trip[a].from, m.saved, backups)
                            ELSE Restored(a, file[a], trip[a].from)
      <4>1. /\ file'[b] = file[a] /\ trip'[b] = trip[a] /\ backups' = backups
            /\ records'[b] = IF m.cmd = "setup" THEN m.saved ELSE NoRecord
        BY <1>2, <2>1, <2>3, <3>1
      <4>2. gone'[b] = "removed" <=> m.cmd # "setup"
        BY <2>3, <3>2
      <4>3. QED BY <1>1, <1>4, <2>3, <4>1, <4>2 DEF OnTrip
    <3>5. QED BY <1>1, <1>7, <3>3, <3>4 DEF TripInv, OnTrip
  <2>4. QED BY <1>5, <2>2, <2>3 DEF TripInv
<1>8. QED BY <1>6, <1>7

LEMMA TripInit == Init => TripInv
<1> SUFFICES ASSUME Init PROVE TripInv
  OBVIOUS
<1>1. (\A p \in Procs : ~alone[p]) /\ \A a \in Agents : trip[a] = NoTrip
  BY DEF Init
<1>2. QED BY <1>1 DEF TripInv, LoneTracks, OnTrip

LEMMA TripStep ==
  ASSUME TypeState, AloneInv, TripInv, [Next]_vars
  PROVE  TripInv'
<1>1. ASSUME NEW p \in Procs, Command(p) PROVE TripInv'
  <2>1. ASSUME \E cmd, a, v, force : Begin(p, cmd, a, v, force) PROVE TripInv'
    BY <2>1, TripBegin
  <2>2. QED BY <1>1, <2>1, TripReadFile, TripReadRecord, TripBackup, TripWrite,
               TripReadBook, TripWriteBook, TripCrash
               DEF Command, Connect, Disconnect
<1>2. ASSUME UNCHANGED vars PROVE TripInv'
  BY <1>2 DEF vars, diskVars, TripInv, LoneTracks, OnTrip, Books
<1>3. QED BY <1>1, <1>2, TripUser DEF Next

\* Setup and then disconnect give the user back what was there, if setup
\* changed the file once, nobody touched the project in between and no read,
\* copy or removal of theirs failed, whatever went on before and beside them
\* with other agents' files (planJsonMcp's createdByUs, the backup of the
\* record, makeOwnedFileAdapter's restore).
THEOREM RoundTrips == Spec => []RoundTrip
<1>1. Spec => [](TypeState /\ AloneInv)
  BY InitOK, StepOK, AloneInit, AloneStep, PTL DEF Spec
<1>2. ASSUME AloneInv, TripInv PROVE RoundTrip
  <2> SUFFICES ASSUME NEW a \in Agents, gone[a] = "removed", trip[a] # NoTrip,
                      trip[a].installs = 1, a \notin Owned => trip[a].from # Alien
               PROVE  file[a] = Before(a, trip[a].from)
    BY DEF RoundTrip
  <2>1. QED BY <1>2 DEF TripInv, OnTrip, Restored
<1>3. QED BY <1>1, <1>2, TripInit, TripStep, PTL DEF Spec

-----------------------------------------------------------------------------
(* The text of config.toml: lines and the tables they stand in             *)

IsText(t) == t \in Seq(Lines) /\ t # <<>>
KawnTables == {TABLE, LEGACY_TABLE}
OwnLine == "command = ours"

\* Nothing below depends on how a line is spelt.
LEMMA Spelling ==
  /\ TABLE # LEGACY_TABLE /\ KawnTables \subseteq Headers /\ Nothing \in Blank
  /\ Headers \cap Blank = {} /\ OwnLine \notin Headers /\ OwnLine \notin Blank
  /\ Headers \subseteq Lines /\ Blank \subseteq Lines /\ OwnLine \in Lines
<1>1. TABLE # LEGACY_TABLE /\ KawnTables \subseteq Headers
  BY DEF TABLE, LEGACY_TABLE, KawnTables, Headers
<1>2. Headers \cap Blank = {}
  BY Zenon DEF TABLE, LEGACY_TABLE, Headers, Blank, Nothing
<1>3. OwnLine \notin Headers
  BY DEF TABLE, LEGACY_TABLE, Headers, OwnLine
<1>4. OwnLine \notin Blank
  BY Zenon DEF OwnLine, Blank, Nothing
<1>5. OwnLine \in Lines
  BY DEF OwnLine, Lines
<1>6. QED BY <1>1, <1>2, <1>3, <1>4, <1>5 DEF Lines, Blank

LEMMA TextLines ==
  ASSUME NEW t, IsText(t)
  PROVE  /\ Len(t) \in Nat \ {0} /\ DOMAIN t = 1..Len(t)
         /\ \A i \in 1..Len(t) : t[i] \in Lines
<1>1. t \in [1..Len(t) -> Lines] /\ Len(t) \in Nat
  BY DEF IsText
<1>2. Len(t) # 0
  BY DEF IsText
<1>3. QED BY <1>1, <1>2

\* The table a line stands in is its own, or that of the line before.
LEMMA OpenStep ==
  ASSUME NEW t, NEW i \in Nat \ {0}, NEW h \in Headers
  PROVE  Open(t, i, h) <=> t[i] = h \/ (t[i] \notin Headers /\ Open(t, i - 1, h))
<1>1. ASSUME Open(t, i, h) PROVE t[i] = h \/ (t[i] \notin Headers /\ Open(t, i - 1, h))
  <2>1. PICK j \in 1..i : t[j] = h /\ \A k \in j+1..i : t[k] \notin Headers
    BY <1>1 DEF Open
  <2>2. CASE j = i
    BY <2>1, <2>2
  <2>3. CASE j # i
    <3>1. j \in 1..(i - 1) /\ i \in j+1..i /\ (j + 1)..(i - 1) \subseteq j+1..i
      BY <2>3
    <3>2. QED BY <2>1, <3>1 DEF Open
  <2>4. QED BY <2>2, <2>3
<1>2. ASSUME t[i] = h PROVE Open(t, i, h)
  <2>1. i \in 1..i /\ i+1..i = {}
    OBVIOUS
  <2>2. QED BY <1>2, <2>1 DEF Open
<1>3. ASSUME t[i] \notin Headers, Open(t, i - 1, h) PROVE Open(t, i, h)
  <2>1. PICK j \in 1..(i - 1) : t[j] = h /\ \A k \in j+1..(i - 1) : t[k] \notin Headers
    BY <1>3 DEF Open
  <2>2. j \in 1..i /\ \A k \in j+1..i : k = i \/ k \in j+1..(i - 1)
    OBVIOUS
  <2>3. QED BY <1>3, <2>1, <2>2 DEF Open
<1>4. QED BY <1>1, <1>2, <1>3

LEMMA NoneOpen ==
  ASSUME NEW t, NEW h PROVE ~Open(t, 0, h)
BY DEF Open

\* A line stands in one table.
LEMMA OneOpen ==
  ASSUME NEW t, NEW i \in Nat, NEW g \in Headers, NEW h \in Headers, Open(t, i, g), Open(t, i, h)
  PROVE  g = h
<1>1. PICK j \in 1..i : t[j] = g /\ \A k \in j+1..i : t[k] \notin Headers
  BY DEF Open
<1>2. PICK l \in 1..i : t[l] = h /\ \A k \in l+1..i : t[k] \notin Headers
  BY DEF Open
<1>3. j \notin l+1..i /\ l \notin j+1..i
  BY <1>1, <1>2
<1>4. j = l
  BY <1>3
<1>5. QED BY <1>1, <1>2, <1>4

\* From one header to the line before the next one, all stand in the table.
LEMMA TableOpen ==
  ASSUME NEW t, NEW start \in Nat \ {0}, NEW h, t[start] = h, NEW i \in Nat, start <= i,
         \A k \in (start + 1)..i : t[k] \notin Headers
  PROVE  Open(t, i, h)
<1>1. start \in 1..i
  OBVIOUS
<1>2. QED BY <1>1 DEF Open

-----------------------------------------------------------------------------
(* Picking lines                                                           *)

\* What has been picked after so many lines.
Picks(f, t, keep) ==
  /\ f \in [0..Len(t) -> Seq(Lines)] /\ f[0] = <<>> /\ Pick(t, keep) = f[Len(t)]
  /\ \A i \in 1..Len(t) : f[i] = IF i \in keep THEN Append(f[i - 1], t[i]) ELSE f[i - 1]

LEMMA PickIs ==
  ASSUME NEW t, t \in Seq(Lines), NEW keep
  PROVE  \E f : Picks(f, t, keep)
<1> DEFINE n == Len(t)
           next(g, i) == IF i = 0 THEN <<>>
                         ELSE IF i \in keep THEN Append(g[i - 1], t[i]) ELSE g[i - 1]
           Is(g) == g = [i \in 0..n |-> next(g, i)]
           step == [i \in 1..n |-> [s \in Seq(Lines) |-> IF i \in keep THEN Append(s, t[i]) ELSE s]]
<1>1. Pick(t, keep) = (CHOOSE g : Is(g))[n]
  BY DEF Pick
<1>2. n \in Nat /\ \A i \in 1..n : t[i] \in Lines
  OBVIOUS
<1>3. step \in [1..n -> [Seq(Lines) -> Seq(Lines)]]
  <2>1. \A i \in 1..n : \A s \in Seq(Lines) : (IF i \in keep THEN Append(s, t[i]) ELSE s) \in Seq(Lines)
    BY <1>2
  <2>2. QED BY <2>1
<1>4. <<>> \in Seq(Lines)
  OBVIOUS
<1> HIDE DEF step, n
<1>5. PICK f : History(f, n, Seq(Lines), <<>>, step)
  BY <1>2, <1>3, <1>4, LoopExists, Zenon
<1>6. f \in [0..n -> Seq(Lines)] /\ f[0] = <<>> /\ \A i \in 1..n : f[i] = step[i][f[i - 1]]
  BY <1>5 DEF History
<1>7. \A i \in 1..n : /\ i - 1 \in 0..n
                      /\ f[i] = IF i \in keep THEN Append(f[i - 1], t[i]) ELSE f[i - 1]
  <2>1. TAKE i \in 1..n
  <2>2. i - 1 \in 0..n
    BY <1>2
  <2>3. f[i - 1] \in Seq(Lines)
    BY <1>6, <2>2
  <2>4. QED BY <1>6, <2>2, <2>3 DEF step
<1>8. Is(f)
  <2>1. \A i \in 0..n : f[i] = next(f, i)
    <3>1. TAKE i \in 0..n
    <3>2. CASE i = 0
      BY <1>6, <3>2
    <3>3. CASE i # 0
      <4>1. i \in 1..n
        BY <1>2, <3>3
      <4>2. QED BY <1>7, <3>3, <4>1
    <3>4. QED BY <3>2, <3>3
  <2>2. f = [i \in 0..n |-> f[i]]
    BY <1>6
  <2>3. QED BY <2>1, <2>2
<1> DEFINE g == CHOOSE x : Is(x)
<1>9. Is(g)
  BY <1>8
<1> HIDE DEF g
<1>10. \A i \in 0..n : g[i] = next(g, i)
  BY <1>9
<1> DEFINE S == {i \in 0..n : g[i] = f[i]}
<1>11. 0 \in S
  BY <1>2, <1>6, <1>10
<1>12. ASSUME NEW i \in 0..(n - 1), i \in S PROVE i + 1 \in S
  <2>1. i + 1 \in 1..n /\ i + 1 \in 0..n /\ (i + 1) - 1 = i /\ i + 1 # 0
    BY <1>2
  <2>2. g[i + 1] = next(g, i + 1)
    BY <2>1, <1>10
  <2>3. QED BY <1>7, <1>12, <2>1, <2>2
<1> HIDE DEF S
<1>13. \A i \in 0..n : i \in S
  BY <1>2, <1>11, <1>12, Induction
<1>14. g[n] = f[n]
  BY <1>2, <1>13 DEF S
<1>15. Pick(t, keep) = f[n]
  BY <1>1, <1>14 DEF g
<1>16. QED BY <1>6, <1>7, <1>15 DEF Picks, n

-----------------------------------------------------------------------------
(* Leaving lines out                                                       *)

\* u is t without the lines whose places are not in keep: after i lines of t stand
\* place[i] lines of u.
Thinned(t, u, keep, place) ==
  /\ place \in [0..Len(t) -> 0..Len(u)] /\ place[0] = 0 /\ place[Len(t)] = Len(u)
  /\ \A i \in 1..Len(t) :
       IF i \in keep THEN place[i] = place[i - 1] + 1 /\ u[place[i]] = t[i]
                     ELSE place[i] = place[i - 1]

LEMMA AppendIs ==
  ASSUME NEW s \in Seq(Lines), NEW e \in Lines
  PROVE  /\ Append(s, e) \in Seq(Lines) /\ Len(s) \in Nat /\ Len(Append(s, e)) = Len(s) + 1
         /\ \A j \in 1..Len(s) : Append(s, e)[j] = s[j]
         /\ Append(s, e)[Len(s) + 1] = e
  OBVIOUS

\* What is picked stands at the end of what has been picked before, unchanged.
LEMMA PicksGrow ==
  ASSUME NEW t, t \in Seq(Lines), NEW keep, NEW f, Picks(f, t, keep), NEW i \in 0..Len(t)
  PROVE  \A k \in 0..Len(t) : i <= k =>
           /\ Len(f[i]) <= Len(f[k]) /\ \A j \in 1..Len(f[i]) : f[k][j] = f[i][j]
<1> DEFINE n == Len(t)
           S == {k \in 0..n : i <= k => /\ Len(f[i]) <= Len(f[k])
                                        /\ \A j \in 1..Len(f[i]) : f[k][j] = f[i][j]}
<1>0. n \in Nat /\ \A k \in 1..n : t[k] \in Lines
  OBVIOUS
<1>1. /\ n \in Nat /\ f \in [0..n -> Seq(Lines)]
      /\ \A k \in 1..n : f[k] = IF k \in keep THEN Append(f[k - 1], t[k]) ELSE f[k - 1]
  BY <1>0, Zenon DEF Picks
<1> HIDE DEF n
<1>2. 0 \in S
  <2>1. i <= 0 => i = 0
    BY <1>1
  <2>2. f[0] \in Seq(Lines)
    BY <1>1
  <2>3. QED BY <1>1, <2>1, <2>2
<1>3. ASSUME NEW k \in 0..(n - 1), k \in S PROVE k + 1 \in S
  <2>1. k + 1 \in 1..n /\ k + 1 \in 0..n /\ (k + 1) - 1 = k /\ k \in 0..n
    BY <1>1
  <2>2. f[k] \in Seq(Lines) /\ f[k + 1] \in Seq(Lines) /\ t[k + 1] \in Lines /\ f[i] \in Seq(Lines)
    <3>1. t[k + 1] \in Lines
      BY <1>0, <2>1
    <3>2. f[k] \in Seq(Lines) /\ f[k + 1] \in Seq(Lines)
      BY <1>1, <2>1
    <3>3. f[i] \in Seq(Lines)
      BY <1>1 DEF n
    <3>4. QED BY <3>1, <3>2, <3>3
  <2>3. f[k + 1] = IF k + 1 \in keep THEN Append(f[k], t[k + 1]) ELSE f[k]
    BY <1>1, <2>1
  <2>4. /\ Len(f[k]) <= Len(f[k + 1])
        /\ \A j \in 1..Len(f[k]) : f[k + 1][j] = f[k][j]
    <3>1. CASE k + 1 \in keep
      <4>1. f[k + 1] = Append(f[k], t[k + 1])
        BY <2>3, <3>1
      <4>2. QED BY <2>2, <4>1, AppendIs
    <3>2. CASE k + 1 \notin keep
      <4>1. f[k + 1] = f[k] /\ Len(f[k]) \in Nat
        BY <2>2, <2>3, <3>2
      <4>2. QED BY <4>1
    <3>3. QED BY <3>1, <3>2
  <2>5. CASE i <= k
    <3>1. /\ Len(f[i]) <= Len(f[k]) /\ \A j \in 1..Len(f[i]) : f[k][j] = f[i][j]
      BY <1>3, <2>5
    <3>2. \A j \in 1..Len(f[i]) : j \in 1..Len(f[k])
      BY <2>2, <3>1
    <3>3. Len(f[i]) <= Len(f[k + 1])
      BY <2>2, <2>4, <3>1
    <3>4. \A j \in 1..Len(f[i]) : f[k + 1][j] = f[i][j]
      BY <2>4, <3>1, <3>2
    <3>5. QED BY <2>1, <3>3, <3>4
  <2>6. CASE ~(i <= k)
    <3>1. i <= k + 1 => i = k + 1
      BY <1>1, <2>1, <2>6
    <3>2. QED BY <2>1, <2>2, <3>1
  <2>7. QED BY <2>5, <2>6
<1> HIDE DEF S
<1>4. \A k \in 0..n : k \in S
  BY <1>1, <1>2, <1>3, Induction
<1>5. QED BY <1>4 DEF S, n

LEMMA PickThins ==
  ASSUME NEW t, t \in Seq(Lines), NEW keep
  PROVE  /\ Pick(t, keep) \in Seq(Lines)
         /\ \E place : Thinned(t, Pick(t, keep), keep, place)
<1> DEFINE n == Len(t)
           u == Pick(t, keep)
<1>1. PICK f : Picks(f, t, keep)
  BY PickIs
<1>0. n \in Nat /\ \A i \in 1..n : t[i] \in Lines
  OBVIOUS
<1>2. /\ n \in Nat /\ f \in [0..n -> Seq(Lines)] /\ f[0] = <<>> /\ u = f[n]
      /\ \A i \in 1..n : f[i] = IF i \in keep THEN Append(f[i - 1], t[i]) ELSE f[i - 1]
  BY <1>0, <1>1, Zenon DEF Picks
<1>3. \A i \in 0..n : /\ Len(f[i]) \in 0..Len(u)
                      /\ \A j \in 1..Len(f[i]) : u[j] = f[i][j]
  <2>1. TAKE i \in 0..n
  <2>2. n \in 0..n /\ i <= n
    BY <1>2
  <2>3. Len(f[i]) <= Len(f[n]) /\ \A j \in 1..Len(f[i]) : f[n][j] = f[i][j]
    BY <1>1, <2>2, PicksGrow
  <2>4. Len(f[i]) \in Nat /\ Len(f[n]) \in Nat
    BY <1>2, <2>2
  <2>5. QED BY <1>2, <2>3, <2>4
<1> DEFINE place == [i \in 0..n |-> Len(f[i])]
<1> HIDE DEF u, n
<1>4. place \in [0..n -> 0..Len(u)] /\ place[0] = 0 /\ place[n] = Len(u)
  BY <1>2, <1>3
<1>5. ASSUME NEW i \in 1..n
      PROVE  IF i \in keep THEN place[i] = place[i - 1] + 1 /\ u[place[i]] = t[i]
                           ELSE place[i] = place[i - 1]
  <2>1. i - 1 \in 0..n /\ i \in 0..n
    BY <1>2
  <2>2. f[i - 1] \in Seq(Lines) /\ f[i] \in Seq(Lines) /\ place[i] = Len(f[i]) /\ place[i - 1] = Len(f[i - 1])
    BY <1>2, <2>1
  <2>3. CASE i \in keep
    <3>1. f[i] = Append(f[i - 1], t[i]) /\ t[i] \in Lines
      BY <1>0, <1>2, <2>3
    <3>0. Len(f[i - 1]) \in Nat /\ Len(f[i]) = Len(f[i - 1]) + 1 /\ f[i][Len(f[i - 1]) + 1] = t[i]
      BY <2>2, <3>1, AppendIs
    <3>2. Len(f[i]) = Len(f[i - 1]) + 1 /\ f[i][Len(f[i])] = t[i] /\ Len(f[i]) \in 1..Len(f[i])
      BY <3>0
    <3>3. u[Len(f[i])] = t[i]
      BY <1>3, <2>1, <3>2
    <3>4. QED BY <2>2, <2>3, <3>2, <3>3
  <2>4. CASE i \notin keep
    BY <1>2, <2>2, <2>4
  <2>5. QED BY <2>3, <2>4
<1>6. u \in Seq(Lines)
  <2>1. n \in 0..n
    BY <1>2
  <2>2. QED BY <1>2, <2>1
<1>7. Thinned(t, u, keep, place)
  BY <1>4, <1>5 DEF Thinned, n
<1>8. QED BY <1>6, <1>7 DEF u

\* Every line of u is a line of t that was kept, and places go up.
LEMMA ThinnedFrom ==
  ASSUME NEW t, IsText(t), NEW u, u \in Seq(Lines), NEW keep, NEW place, Thinned(t, u, keep, place)
  PROVE  /\ \A i, k \in 0..Len(t) : i <= k => place[i] <= place[k]
         /\ \A j \in 1..Len(u) : \E i \in 1..Len(t) : i \in keep /\ place[i] = j
         /\ \A i, k \in 1..Len(t) : i \in keep /\ k \in keep /\ place[i] = place[k] => i = k
<1> DEFINE n == Len(t)
<1>1. /\ n \in Nat /\ Len(u) \in Nat /\ place \in [0..n -> 0..Len(u)] /\ place[0] = 0 /\ place[n] = Len(u)
      /\ \A i \in 1..n : IF i \in keep THEN place[i] = place[i - 1] + 1 ELSE place[i] = place[i - 1]
  BY TextLines DEF Thinned
<1> HIDE DEF n
<1>2. \A i, k \in 0..n : i <= k => place[i] <= place[k]
  <2> TAKE i \in 0..n
  <2> DEFINE S == {k \in 0..n : i <= k => place[i] <= place[k]}
  <2>1. 0 \in S
    BY <1>1
  <2>2. ASSUME NEW k \in 0..(n - 1), k \in S PROVE k + 1 \in S
    <3>1. k + 1 \in 1..n /\ k + 1 \in 0..n /\ (k + 1) - 1 = k /\ k \in 0..n
      BY <1>1
    <3>2. place[k + 1] >= place[k] /\ place[k + 1] \in Nat /\ place[k] \in Nat /\ place[i] \in Nat
      BY <1>1, <3>1
    <3>3. i <= k + 1 => i <= k \/ i = k + 1
      BY <1>1, <3>1
    <3>4. QED BY <2>2, <3>1, <3>2, <3>3
  <2> HIDE DEF S
  <2>3. \A k \in 0..n : k \in S
    BY <1>1, <2>1, <2>2, Induction
  <2>4. QED BY <2>3 DEF S
<1>3. \A j \in 1..Len(u) : \E i \in 1..n : i \in keep /\ place[i] = j
  <2> TAKE j \in 1..Len(u)
  <2>1. PICK i \in 0..n : j <= place[i] /\ \A k \in 0..n : j <= place[k] => i <= k
    <3> DEFINE S == {k \in 0..n : j <= place[k]}
    <3>1. S \subseteq Nat /\ n \in S
      BY <1>1
    <3> HIDE DEF S
    <3>2. PICK i \in S : \A k \in S : i <= k
      BY <3>1, Least
    <3>3. QED BY <3>2 DEF S
  <2>2. i \in 1..n /\ i - 1 \in 0..n
    BY <1>1, <2>1
  <2>3. ~(j <= place[i - 1]) /\ place[i - 1] \in Nat /\ place[i] \in Nat
    BY <1>1, <2>1, <2>2
  <2>4. i \in keep /\ place[i] = j
    BY <1>1, <2>1, <2>2, <2>3
  <2>5. QED BY <2>2, <2>4
<1>4. ASSUME NEW i \in 1..n, NEW k \in 1..n, k \in keep, i < k PROVE place[i] < place[k]
  <2>1. k - 1 \in 0..n /\ i \in 0..n /\ i <= k - 1
    BY <1>1, <1>4
  <2>2. place[i] <= place[k - 1] /\ place[k] = place[k - 1] + 1 /\ place[i] \in Nat /\ place[k - 1] \in Nat
    BY <1>1, <1>2, <1>4, <2>1
  <2>3. QED BY <2>2
<1>5. ASSUME NEW i \in 1..n, NEW k \in 1..n, i \in keep, k \in keep, place[i] = place[k] PROVE i = k
  <2>1. ~(i < k) /\ ~(k < i)
    <3>1. place[i] \in Nat /\ place[k] \in Nat
      BY <1>1
    <3>2. QED BY <1>4, <1>5, <3>1
  <2>2. QED BY <1>1, <2>1
<1>6. QED BY <1>2, <1>3, <1>5 DEF n

Once(t, h) == \A i, j \in 1..Len(t) : t[i] = h /\ t[j] = h => i = j

\* In kawn's table stand the lines kawn renders, and blank ones after them.
Whole(t) ==
  \A i \in 1..Len(t) :
    /\ t[i] = TABLE => i < Len(t) /\ t[i + 1] = OwnLine
    /\ Open(t, i, TABLE) => \/ t[i] \in Blank \cup {TABLE}
                            \/ t[i] = OwnLine /\ i > 1 /\ t[i - 1] = TABLE

\* What is left out: blank lines, or a table up to the next header.
BlankOut(t, keep) == \A i \in 1..Len(t) : i \notin keep => t[i] \in Blank
TableOut(t, keep, h) ==
  \A i \in 1..Len(t) :
    i \notin keep => /\ Open(t, i, h)
                     /\ i = Len(t) \/ i + 1 \notin keep \/ t[i + 1] \in Headers

\* A line that is kept stands in the table it stood in.
LEMMA ThinOpen ==
  ASSUME NEW t, IsText(t), NEW u, u \in Seq(Lines), NEW keep, NEW place, Thinned(t, u, keep, place),
         NEW h \in KawnTables, BlankOut(t, keep) \/ TableOut(t, keep, h)
  PROVE  \A i \in 1..Len(t) : i \in keep =>
           \A g \in Headers : Open(u, place[i], g) <=> Open(t, i, g)
<1> DEFINE n == Len(t)
           Same(i) == \A g \in Headers : Open(u, place[i], g) <=> Open(t, i, g)
           S == {i \in 0..n : i \in keep \/ i = 0 \/ BlankOut(t, keep) => Same(i)}
<1>1. /\ n \in Nat /\ place \in [0..n -> 0..Len(u)] /\ place[0] = 0
      /\ \A i \in 1..n : IF i \in keep THEN place[i] = place[i - 1] + 1 /\ u[place[i]] = t[i]
                                       ELSE place[i] = place[i - 1]
  BY TextLines, Zenon DEF Thinned
<1>2. Len(u) \in Nat
  OBVIOUS
<1> HIDE DEF n
<1>3. 0 \in S
  <2>1. Same(0)
    BY <1>1, NoneOpen
  <2>2. QED BY <1>1, <2>1
<1>4. ASSUME NEW i \in 0..(n - 1), i \in S PROVE i + 1 \in S
  <2>1. i + 1 \in 1..n /\ i + 1 \in 0..n /\ (i + 1) - 1 = i /\ i \in 0..n /\ i + 1 \in Nat \ {0} /\ i + 1 # 0
    BY <1>1
  <2>2. place[i] \in Nat /\ place[i + 1] \in Nat
    BY <1>1, <1>2, <2>1
  <2> HIDE DEF Same
  <2>3. CASE i + 1 \in keep
    <3>1. place[i + 1] = place[i] + 1 /\ u[place[i + 1]] = t[i + 1]
      BY <1>1, <2>1, <2>3
    <3>2. place[i + 1] \in Nat \ {0} /\ place[i + 1] - 1 = place[i]
      BY <2>2, <3>1
    <3>3. t[i + 1] \in Headers \/ Same(i)
      <4>1. CASE i \in keep \/ i = 0 \/ BlankOut(t, keep)
        BY <1>4, <4>1 DEF S
      <4>2. CASE ~(i \in keep \/ i = 0 \/ BlankOut(t, keep))
        <5>1. TableOut(t, keep, h) /\ i \in 1..n /\ i # n
          BY <1>1, <2>1, <4>2
        <5>2. QED BY <2>3, <4>2, <5>1 DEF TableOut, n
      <4>3. QED BY <4>1, <4>2
    <3>4. Same(i + 1)
      <4>1. SUFFICES ASSUME NEW g \in Headers PROVE Open(u, place[i + 1], g) <=> Open(t, i + 1, g)
        BY DEF Same
      <4>2. Open(t, i + 1, g) <=> t[i + 1] = g \/ (t[i + 1] \notin Headers /\ Open(t, i, g))
        BY <2>1, OpenStep
      <4>3. Open(u, place[i + 1], g)
              <=> u[place[i + 1]] = g \/ (u[place[i + 1]] \notin Headers /\ Open(u, place[i], g))
        BY <3>2, OpenStep
      <4>4. QED BY <3>1, <3>3, <4>2, <4>3 DEF Same
    <3>5. QED BY <2>1, <3>4
  <2>4. CASE i + 1 \notin keep
    <3>1. SUFFICES ASSUME BlankOut(t, keep) PROVE Same(i + 1)
      BY <2>1, <2>4
    <3>2. t[i + 1] \notin Headers
      BY <2>1, <2>4, <3>1, Spelling DEF BlankOut, n
    <3>3. Same(i) /\ place[i + 1] = place[i]
      BY <1>1, <1>4, <2>1, <2>4, <3>1 DEF S
    <3>4. SUFFICES ASSUME NEW g \in Headers PROVE Open(u, place[i + 1], g) <=> Open(t, i + 1, g)
      BY DEF Same
    <3>5. Open(t, i + 1, g) <=> t[i + 1] = g \/ (t[i + 1] \notin Headers /\ Open(t, i, g))
      BY <2>1, OpenStep
    <3>6. QED BY <3>2, <3>3, <3>5 DEF Same
  <2>5. QED BY <2>3, <2>4
<1> HIDE DEF S
<1>5. \A i \in 0..n : i \in S
  BY <1>1, <1>3, <1>4, Induction
<1>6. QED
  <2> TAKE i \in 1..Len(t)
  <2>1. i \in S
    BY <1>1, <1>5 DEF n
  <2>2. QED BY <2>1 DEF S

\* And the lines of other tables are those they were.
LEMMA ThinRest ==
  ASSUME NEW t, IsText(t), NEW u, u \in Seq(Lines), NEW keep, NEW place, Thinned(t, u, keep, place),
         NEW h \in KawnTables, BlankOut(t, keep) \/ TableOut(t, keep, h)
  PROVE  RestOfText(u) = RestOfText(t)
<1> DEFINE n == Len(t)
           Rest(x) == {i \in DOMAIN x : /\ x[i] \notin Blank /\ ~Open(x, i, TABLE)
                                        /\ ~Open(x, i, LEGACY_TABLE)}
<1>1. RestOfText(u) = Pick(u, Rest(u)) /\ RestOfText(t) = Pick(t, Rest(t))
  BY Zenon DEF RestOfText
<1>2. PICK f : Picks(f, t, Rest(t))
  <2> HIDE DEF Rest
  <2>1. QED BY PickIs DEF IsText
<1>3. PICK g : Picks(g, u, Rest(u))
  <2> HIDE DEF Rest
  <2>1. QED BY PickIs
<1>4. /\ n \in Nat /\ place \in [0..n -> 0..Len(u)] /\ place[0] = 0 /\ place[n] = Len(u)
      /\ \A i \in 1..n : IF i \in keep THEN place[i] = place[i - 1] + 1 /\ u[place[i]] = t[i]
                                       ELSE place[i] = place[i - 1]
  BY TextLines, Zenon DEF Thinned
<1>5. Len(u) \in Nat /\ DOMAIN u = 1..Len(u) /\ DOMAIN t = 1..n
  BY TextLines
<1>6. \A i \in 1..n : i \in keep => /\ place[i] \in 1..Len(u)
                                    /\ place[i] \in Rest(u) <=> i \in Rest(t)
  <2> TAKE i \in 1..n
  <2> HAVE i \in keep
  <2>1. place[i] \in 1..Len(u) /\ u[place[i]] = t[i]
    <3> HIDE DEF n
    <3>1. i - 1 \in 0..n /\ i \in 0..n
      BY <1>4
    <3>2. place[i - 1] \in Nat /\ place[i] = place[i - 1] + 1 /\ place[i] \in 0..Len(u) /\ u[place[i]] = t[i]
      BY <1>4, <1>5, <3>1
    <3>3. QED BY <1>5, <3>2
  <2>2. \A g2 \in Headers : Open(u, place[i], g2) <=> Open(t, i, g2)
    BY ThinOpen
  <2>3. TABLE \in Headers /\ LEGACY_TABLE \in Headers
    BY Spelling DEF KawnTables
  <2>4. QED BY <1>5, <2>1, <2>2, <2>3
<1>7. \A i \in 1..n : i \notin keep => i \notin Rest(t)
  <2> TAKE i \in 1..n
  <2> HAVE i \notin keep
  <2>1. t[i] \in Blank \/ Open(t, i, h)
    BY DEF BlankOut, TableOut
  <2>2. h = TABLE \/ h = LEGACY_TABLE
    BY DEF KawnTables
  <2>3. QED BY <2>1, <2>2
<1> HIDE DEF Rest
<1>8. /\ f[0] = <<>> /\ Pick(t, Rest(t)) = f[n]
      /\ \A i \in 1..n : f[i] = IF i \in Rest(t) THEN Append(f[i - 1], t[i]) ELSE f[i - 1]
  BY <1>2, Zenon DEF Picks
<1>9. /\ g[0] = <<>> /\ Pick(u, Rest(u)) = g[Len(u)]
      /\ \A i \in 1..Len(u) : g[i] = IF i \in Rest(u) THEN Append(g[i - 1], u[i]) ELSE g[i - 1]
  BY <1>3, Zenon DEF Picks
<1> DEFINE S == {i \in 0..n : f[i] = g[place[i]]}
<1> HIDE DEF n
<1>10. 0 \in S
  BY <1>4, <1>8, <1>9
<1>11. ASSUME NEW i \in 0..(n - 1), i \in S PROVE i + 1 \in S
  <2>1. i + 1 \in 1..n /\ i + 1 \in 0..n /\ (i + 1) - 1 = i /\ i \in 0..n
    BY <1>4
  <2>2. f[i + 1] = IF i + 1 \in Rest(t) THEN Append(f[i], t[i + 1]) ELSE f[i]
    BY <1>8, <2>1
  <2>3. CASE i + 1 \in keep
    <3>1. place[i + 1] = place[i] + 1 /\ u[place[i + 1]] = t[i + 1] /\ place[i] \in Nat
      BY <1>4, <1>5, <2>1, <2>3
    <3>2. place[i + 1] \in 1..Len(u) /\ place[i + 1] - 1 = place[i]
      BY <1>6, <2>1, <2>3, <3>1
    <3>3. place[i + 1] \in Rest(u) <=> i + 1 \in Rest(t)
      BY <1>6, <2>1, <2>3
    <3>4. g[place[i + 1]] = IF i + 1 \in Rest(t) THEN Append(g[place[i]], t[i + 1]) ELSE g[place[i]]
      BY <1>9, <3>1, <3>2, <3>3
    <3>5. QED BY <1>11, <2>1, <2>2, <3>4
  <2>4. CASE i + 1 \notin keep
    <3>1. place[i + 1] = place[i] /\ i + 1 \notin Rest(t)
      BY <1>4, <1>7, <2>1, <2>4
    <3>2. QED BY <1>11, <2>1, <2>2, <3>1
  <2>5. QED BY <2>3, <2>4
<1> HIDE DEF S
<1>12. \A i \in 0..n : i \in S
  BY <1>4, <1>10, <1>11, Induction
<1>13. f[n] = g[place[n]]
  BY <1>4, <1>12 DEF S
<1>14. QED BY <1>1, <1>4, <1>8, <1>9, <1>13

\* Headers are left out with their table only.
LEMMA ThinTables ==
  ASSUME NEW t, IsText(t), NEW u, u \in Seq(Lines), NEW keep, NEW place, Thinned(t, u, keep, place),
         NEW h \in KawnTables, BlankOut(t, keep) \/ TableOut(t, keep, h), NEW g \in Headers
  PROVE  /\ Once(t, g) => Once(u, g)
         /\ hasTomlTable(u, g) => \E i \in 1..Len(t) : i \in keep /\ t[i] = g
         /\ hasTomlTable(t, g) /\ (BlankOut(t, keep) \/ g # h) => hasTomlTable(u, g)
<1> DEFINE n == Len(t)
<1>0. /\ n \in Nat /\ DOMAIN t = 1..n /\ DOMAIN u = 1..Len(u) /\ Len(u) \in Nat
      /\ place \in [0..n -> 0..Len(u)]
      /\ \A i \in 1..n : IF i \in keep THEN place[i] = place[i - 1] + 1 /\ u[place[i]] = t[i]
                                       ELSE place[i] = place[i - 1]
  <2>1. n \in Nat /\ DOMAIN t = 1..n
    BY TextLines
  <2>2. DOMAIN u = 1..Len(u) /\ Len(u) \in Nat
    OBVIOUS
  <2>3. QED BY <2>1, <2>2, Zenon DEF Thinned
<1>1. /\ n \in Nat /\ DOMAIN t = 1..n /\ DOMAIN u = 1..Len(u) /\ Len(u) \in Nat
      /\ place \in [0..n -> 0..Len(u)]
      /\ \A i \in 1..n : i \in keep => place[i] = place[i - 1] + 1 /\ u[place[i]] = t[i]
  BY <1>0, Zenon
<1>2. /\ \A j \in 1..Len(u) : \E i \in 1..n : i \in keep /\ place[i] = j
      /\ \A i, k \in 1..n : i \in keep /\ k \in keep /\ place[i] = place[k] => i = k
  BY ThinnedFrom
<1> HIDE DEF n
<1>3. \A j \in 1..Len(u) : \E i \in 1..n : i \in keep /\ place[i] = j /\ u[j] = t[i]
  BY <1>1, <1>2
<1>4. ASSUME Once(t, g) PROVE Once(u, g)
  <2>1. SUFFICES ASSUME NEW j \in 1..Len(u), NEW l \in 1..Len(u), u[j] = g, u[l] = g PROVE j = l
    BY DEF Once
  <2>2. PICK i \in 1..n : i \in keep /\ place[i] = j /\ u[j] = t[i]
    BY <1>3
  <2>3. PICK k \in 1..n : k \in keep /\ place[k] = l /\ u[l] = t[k]
    BY <1>3
  <2>4. QED BY <1>4, <2>1, <2>2, <2>3 DEF Once, n
<1>5. ASSUME hasTomlTable(u, g) PROVE \E i \in 1..n : i \in keep /\ t[i] = g
  BY <1>1, <1>3, <1>5 DEF hasTomlTable
<1>6. ASSUME hasTomlTable(t, g), BlankOut(t, keep) \/ g # h PROVE hasTomlTable(u, g)
  <2>1. PICK i \in 1..n : t[i] = g
    BY <1>1, <1>6 DEF hasTomlTable
  <2>2. i \in keep
    <3>1. SUFFICES ASSUME i \notin keep PROVE FALSE
      OBVIOUS
    <3>2. t[i] \notin Blank
      BY <2>1, Spelling
    <3>3. g # h /\ Open(t, i, h)
      BY <1>6, <3>1, <3>2 DEF BlankOut, TableOut, n
    <3>4. i \in Nat \ {0} /\ Open(t, i, g) /\ h \in Headers
      BY <1>1, <2>1, OpenStep, Spelling
    <3>5. QED BY <3>3, <3>4, OneOpen
  <2>3. i - 1 \in 0..n /\ i \in 0..n
    BY <1>1
  <2>4. place[i] \in 1..Len(u) /\ u[place[i]] = g
    <3>1. place[i - 1] \in Nat /\ place[i] \in 0..Len(u) /\ place[i] = place[i - 1] + 1 /\ u[place[i]] = t[i]
      BY <1>1, <2>2, <2>3
    <3>2. QED BY <1>1, <2>1, <3>1
  <2>5. QED BY <1>1, <2>4 DEF hasTomlTable
<1>7. QED BY <1>4, <1>5, <1>6 DEF n

\* kawn's table stays whole when blank lines or the former table are left out.
LEMMA ThinWhole ==
  ASSUME NEW t, IsText(t), NEW u, u \in Seq(Lines), NEW keep, NEW place, Thinned(t, u, keep, place),
         BlankOut(t, keep) \/ TableOut(t, keep, LEGACY_TABLE), Whole(t)
  PROVE  Whole(u)
<1> DEFINE n == Len(t)
<1>0. LEGACY_TABLE \in KawnTables /\ LEGACY_TABLE \in Headers /\ TABLE \in Headers /\ TABLE # LEGACY_TABLE
  BY Spelling DEF KawnTables
<1>1. /\ n \in Nat /\ Len(u) \in Nat /\ place \in [0..n -> 0..Len(u)]
      /\ \A i \in 1..n : i \in keep => place[i] = place[i - 1] + 1 /\ u[place[i]] = t[i]
  <2>1. n \in Nat /\ Len(u) \in Nat
    BY TextLines
  <2>2. place \in [0..n -> 0..Len(u)]
    BY DEF Thinned
  <2>3. \A i \in 1..n : i \in keep => place[i] = place[i - 1] + 1 /\ u[place[i]] = t[i]
    BY Zenon DEF Thinned
  <2>4. QED BY <2>1, <2>2, <2>3
<1>2. \A j \in 1..Len(u) : \E i \in 1..n : i \in keep /\ place[i] = j
  BY ThinnedFrom
<1>3. \A i \in 1..n : i \in keep => (Open(u, place[i], TABLE) <=> Open(t, i, TABLE))
  BY <1>0, ThinOpen
\* What stands in kawn's table and is not blank is kept.
<1>4. ASSUME NEW i \in 1..n, Open(t, i, TABLE), t[i] \notin Blank PROVE i \in keep
  <2>1. SUFFICES ASSUME i \notin keep PROVE FALSE
    OBVIOUS
  <2>2. Open(t, i, LEGACY_TABLE)
    BY <1>4, <2>1 DEF BlankOut, TableOut
  <2>3. i \in Nat
    BY <1>1
  <2>4. QED BY <1>0, <1>4, <2>2, <2>3, OneOpen
<1> HIDE DEF n
<1>5. SUFFICES ASSUME NEW j \in 1..Len(u)
      PROVE  /\ u[j] = TABLE => j < Len(u) /\ u[j + 1] = OwnLine
             /\ Open(u, j, TABLE) => \/ u[j] \in Blank \cup {TABLE}
                                     \/ u[j] = OwnLine /\ j > 1 /\ u[j - 1] = TABLE
  BY DEF Whole
<1>6. PICK i \in 1..n : i \in keep /\ place[i] = j
  BY <1>2
<1>7. u[j] = t[i] /\ (Open(u, j, TABLE) <=> Open(t, i, TABLE))
  BY <1>1, <1>3, <1>6
<1>8. /\ t[i] = TABLE => i < n /\ t[i + 1] = OwnLine
      /\ Open(t, i, TABLE) => \/ t[i] \in Blank \cup {TABLE}
                              \/ t[i] = OwnLine /\ i > 1 /\ t[i - 1] = TABLE
  BY DEF Whole, n
<1>9. ASSUME u[j] = TABLE PROVE j < Len(u) /\ u[j + 1] = OwnLine
  <2>1. t[i] = TABLE /\ i < n /\ t[i + 1] = OwnLine
    BY <1>7, <1>8, <1>9
  <2>2. i + 1 \in 1..n /\ i \in Nat \ {0} /\ i + 1 \in Nat \ {0} /\ (i + 1) - 1 = i /\ i \in 0..n /\ i + 1 \in 0..n
    BY <1>1, <2>1
  <2>3. Open(t, i, TABLE)
    BY <1>0, <2>1, <2>2, OpenStep
  <2>4. Open(t, i + 1, TABLE)
          <=> t[i + 1] = TABLE \/ (t[i + 1] \notin Headers /\ Open(t, i, TABLE))
    BY <1>0, <2>2, OpenStep
  <2>5. i + 1 \in keep
    BY <1>4, <2>1, <2>2, <2>3, <2>4, Spelling
  <2>6. place[i + 1] = j + 1 /\ u[j + 1] = t[i + 1] /\ place[i + 1] \in 0..Len(u)
    BY <1>1, <1>6, <2>2, <2>5
  <2>7. QED BY <1>1, <2>1, <2>6
<1>10. ASSUME Open(u, j, TABLE), u[j] \notin Blank \cup {TABLE}
       PROVE  u[j] = OwnLine /\ j > 1 /\ u[j - 1] = TABLE
  <2>1. t[i] = OwnLine /\ i > 1 /\ t[i - 1] = TABLE
    BY <1>7, <1>8, <1>10
  <2>2. i - 1 \in 1..n /\ i - 1 \in Nat \ {0} /\ i - 1 \in 0..n /\ (i - 1) - 1 \in 0..n
    BY <1>1, <2>1
  <2>3. Open(t, i - 1, TABLE)
    BY <1>0, <2>1, <2>2, OpenStep
  <2>4. i - 1 \in keep
    BY <1>0, <1>4, <2>1, <2>2, <2>3, Spelling
  <2>5. /\ place[i] = place[i - 1] + 1 /\ place[i - 1] = place[(i - 1) - 1] + 1
        /\ u[place[i - 1]] = TABLE /\ place[(i - 1) - 1] \in Nat
    BY <1>1, <1>6, <2>1, <2>2, <2>4
  <2>6. j - 1 = place[i - 1] /\ j > 1
    BY <1>6, <2>5
  <2>7. QED BY <1>7, <2>1, <2>5, <2>6
<1>11. QED BY <1>9, <1>10

-----------------------------------------------------------------------------
(* Taking a table out                                                      *)

LEMMA SqueezeThins ==
  ASSUME NEW t, IsText(t)
  PROVE  /\ IsText(Squeezed(t))
         /\ \E keep, place : Thinned(t, Squeezed(t), keep, place) /\ BlankOut(t, keep)
<1> DEFINE n == Len(t)
           empty == {i \in DOMAIN t : t[i] = Nothing}
           ending == {i \in empty : i..Len(t) \subseteq empty}
           keep == {i \in DOMAIN t :
                      i \in empty => \/ i > 1 /\ i - 1 \notin empty
                                     \/ i > 2 /\ i \in ending /\ i - 2 \notin empty}
<1>1. n \in Nat \ {0} /\ DOMAIN t = 1..n /\ \A i \in 1..n : t[i] \in Lines
  BY TextLines
<1>2. Squeezed(t) = IF DOMAIN t = empty THEN <<Nothing>> ELSE Pick(t, keep)
  BY Zenon DEF Squeezed
<1>3. Nothing \in Lines /\ Nothing \in Blank
  BY Spelling
<1>4. BlankOut(t, keep)
  <2>1. \A i \in 1..n : i \notin keep => i \in empty
    BY <1>1
  <2>2. QED BY <1>3, <2>1 DEF BlankOut
<1>5. CASE DOMAIN t = empty
  <2> DEFINE u == <<Nothing>>
             place == [i \in 0..n |-> IF i = 0 THEN 0 ELSE 1]
  <2>1. Squeezed(t) = u
    BY <1>2, <1>5
  <2>2. u \in Seq(Lines) /\ u # <<>> /\ Len(u) = 1 /\ u[1] = Nothing
    BY <1>3
  <2> HIDE DEF u
  <2>3. \A i \in 1..n : t[i] = Nothing
    BY <1>1, <1>5
  <2> HIDE DEF n
  <2>4. Thinned(t, u, {1}, place)
    <3>1. place \in [0..n -> 0..1] /\ place[0] = 0 /\ place[n] = 1
      BY <1>1
    <3>2. ASSUME NEW i \in 1..n
          PROVE  IF i \in {1} THEN place[i] = place[i - 1] + 1 /\ u[place[i]] = t[i]
                              ELSE place[i] = place[i - 1]
      <4>1. i - 1 \in 0..n /\ i \in 0..n /\ i # 0
        BY <1>1
      <4>2. QED BY <2>2, <2>3, <4>1
    <3>3. QED BY <2>2, <3>1, <3>2 DEF Thinned, n
  <2>5. BlankOut(t, {1})
    BY <1>3, <2>3 DEF BlankOut, n
  <2>6. QED BY <2>1, <2>2, <2>4, <2>5 DEF IsText
<1>6. CASE DOMAIN t # empty
  <2> DEFINE u == Pick(t, keep)
  <2>1. Squeezed(t) = u
    BY <1>2, <1>6
  <2>2. PICK k \in 1..n : t[k] # Nothing
    BY <1>1, <1>6
  <2>3. k \in keep
    BY <1>1, <2>2
  <2> HIDE DEF keep
  <2>4. u \in Seq(Lines) /\ \E place : Thinned(t, u, keep, place)
    BY PickThins DEF IsText
  <2> HIDE DEF u
  <2>5. PICK place : Thinned(t, u, keep, place)
    BY <2>4
  <2>6. place[k] = place[k - 1] + 1 /\ place[k - 1] \in Nat /\ place[k] \in 0..Len(u)
    <3>1. k - 1 \in 0..n /\ k \in 0..n
      BY <1>1
    <3>2. QED BY <2>3, <2>4, <2>5, <3>1 DEF Thinned
  <2>7. u # <<>>
    <3>1. Len(u) # 0
      BY <2>6
    <3>2. QED BY <3>1
  <2>8. QED BY <1>4, <2>1, <2>4, <2>5, <2>7 DEF IsText
<1>7. QED BY <1>5, <1>6

\* A text without other tables' lines.
LEMMA NoRest ==
  ASSUME NEW t, t \in Seq(Lines), \A i \in 1..Len(t) : t[i] \in Blank
  PROVE  RestOfText(t) = <<>>
<1> DEFINE rest == {i \in DOMAIN t : /\ t[i] \notin Blank /\ ~Open(t, i, TABLE)
                                     /\ ~Open(t, i, LEGACY_TABLE)}
<1>1. RestOfText(t) = Pick(t, rest)
  BY Zenon DEF RestOfText
<1>2. DOMAIN t = 1..Len(t) /\ Len(t) \in Nat
  OBVIOUS
<1>3. \A i \in 1..Len(t) : i \notin rest
  BY <1>2
<1> HIDE DEF rest
<1>4. PICK f : Picks(f, t, rest)
  BY PickIs
<1>5. f[0] = <<>> /\ Pick(t, rest) = f[Len(t)] /\ \A i \in 1..Len(t) : f[i] = f[i - 1]
  BY <1>3, <1>4, Zenon DEF Picks
<1> DEFINE n == Len(t)
           S == {i \in 0..n : f[i] = <<>>}
<1>6. 0 \in S
  BY <1>2, <1>5
<1>7. ASSUME NEW i \in 0..(n - 1), i \in S PROVE i + 1 \in S
  <2>1. i + 1 \in 1..n /\ i + 1 \in 0..n /\ (i + 1) - 1 = i
    BY <1>2
  <2>2. QED BY <1>5, <1>7, <2>1
<1> HIDE DEF S, n
<1>8. \A i \in 0..n : i \in S
  BY <1>2, <1>6, <1>7, Induction DEF n
<1>9. f[n] = <<>>
  BY <1>2, <1>8 DEF S, n
<1>10. QED BY <1>1, <1>5, <1>9 DEF n

LEMMA GreatestIs ==
  ASSUME NEW n \in Nat, NEW S, S \subseteq 0..n, S # {}
  PROVE  Max(S) \in S /\ \A m \in S : m <= Max(S)
<1> DEFINE T == {n - i : i \in S}
<1>1. T \subseteq Nat /\ T # {}
  <2>1. \A i \in S : i \in Nat /\ i <= n
    OBVIOUS
  <2>2. \A i \in S : n - i \in Nat
    BY <2>1
  <2>3. T \subseteq Nat
    BY <2>2
  <2>4. PICK i : i \in S
    OBVIOUS
  <2>5. n - i \in T
    BY <2>4
  <2>6. QED BY <2>3, <2>5
<1> HIDE DEF T
<1>2. PICK k \in T : \A l \in T : k <= l
  BY <1>1, Least
<1>3. PICK i \in S : k = n - i
  BY <1>2 DEF T
<1>4. \A m \in S : m <= i
  <2> TAKE m \in S
  <2>1. n - m \in T /\ m \in 0..n /\ i \in 0..n
    BY DEF T
  <2>2. QED BY <1>2, <1>3, <2>1
<1>5. QED BY <1>4 DEF Max

LEMMA LeastIs ==
  ASSUME NEW S, S \subseteq Nat, S # {}
  PROVE  Min(S) \in S /\ \A m \in S : Min(S) <= m
<1>1. \E m \in S : \A k \in S : m <= k
  BY Least
<1>2. QED BY <1>1 DEF Min

LEMMA StartIs ==
  ASSUME NEW t, IsText(t), NEW h, hasTomlTable(t, h)
  PROVE  Start(t, h) \in 1..Len(t) /\ t[Start(t, h)] = h
<1> DEFINE S == {i \in DOMAIN t : t[i] = h}
<1>1. S \subseteq Nat /\ S # {} /\ S \subseteq 1..Len(t)
  BY TextLines DEF hasTomlTable
<1>2. Start(t, h) = Min(S)
  BY DEF Start
<1>3. Start(t, h) \in S
  <2> HIDE DEF S
  <2>1. QED BY <1>1, <1>2, LeastIs
<1>4. QED BY <1>1, <1>3

\* The next header, or the end.
LEMMA EndIs ==
  ASSUME NEW t, IsText(t), NEW i \in 1..Len(t)
  PROVE  /\ End(t, i) \in (i + 1)..(Len(t) + 1)
         /\ End(t, i) <= Len(t) => t[End(t, i)] \in Headers
         /\ \A k \in (i + 1)..(End(t, i) - 1) : t[k] \notin Headers
<1> DEFINE n == Len(t)
           S == {j \in i+1..Len(t) : t[j] \in Headers} \cup {Len(t) + 1}
<1>1. n \in Nat \ {0}
  BY TextLines
<1>2. S \subseteq Nat /\ S # {} /\ S \subseteq (i + 1)..(n + 1)
  BY <1>1
<1>3. End(t, i) = Min(S)
  BY Zenon DEF End
<1>4. End(t, i) \in S /\ \A m \in S : End(t, i) <= m
  <2> HIDE DEF S
  <2>1. QED BY <1>2, <1>3, LeastIs
<1>5. \A k \in (i + 1)..(End(t, i) - 1) : t[k] \notin Headers
  BY <1>1, <1>2, <1>4
<1>6. QED BY <1>1, <1>2, <1>4, <1>5

\* Two sequences, one after the other.
LEMMA JoinIs ==
  ASSUME NEW s \in Seq(Lines), NEW r \in Seq(Lines)
  PROVE  /\ s \o r \in Seq(Lines) /\ Len(s) \in Nat /\ Len(r) \in Nat
         /\ Len(s \o r) = Len(s) + Len(r)
         /\ \A j \in 1..Len(s) : (s \o r)[j] = s[j]
         /\ \A j \in 1..Len(r) : (s \o r)[Len(s) + j] = r[j]
  OBVIOUS

\* What stands before a and what stands from b on.
LEMMA PartsAre ==
  ASSUME NEW t, IsText(t), NEW a \in 1..(Len(t) + 1), NEW b \in 1..(Len(t) + 1)
  PROVE  /\ SubSeq(t, 1, a - 1) \in Seq(Lines) /\ Len(SubSeq(t, 1, a - 1)) = a - 1
         /\ \A j \in 1..(a - 1) : SubSeq(t, 1, a - 1)[j] = t[j]
         /\ SubSeq(t, b, Len(t)) \in Seq(Lines) /\ Len(SubSeq(t, b, Len(t))) = Len(t) + 1 - b
         /\ \A j \in 1..(Len(t) + 1 - b) : SubSeq(t, b, Len(t))[j] = t[b - 1 + j]
<1>1. t \in Seq(Lines) /\ Len(t) \in Nat
  BY TextLines DEF IsText
<1>2. QED BY <1>1

\* r is t without its lines from a to b - 1.
CutAt(t, r, a, b) ==
  /\ r \in Seq(Lines) /\ Len(r) = Len(t) - (b - a)
  /\ \A j \in 1..(a - 1) : r[j] = t[j]
  /\ \A j \in 1..(Len(t) + 1 - b) : r[a - 1 + j] = t[b - 1 + j]

LEMMA CutIs ==
  ASSUME NEW t, IsText(t), NEW a \in 1..(Len(t) + 1), NEW b \in a..(Len(t) + 1)
  PROVE  CutAt(t, SubSeq(t, 1, a - 1) \o SubSeq(t, b, Len(t)), a, b)
<1> DEFINE n == Len(t)
           s == SubSeq(t, 1, a - 1)
           e == SubSeq(t, b, n)
           r == s \o e
<1>1. n \in Nat \ {0} /\ a \in 1..(n + 1) /\ b \in a..(n + 1) /\ b \in 1..(n + 1)
  BY TextLines
<1>2. /\ s \in Seq(Lines) /\ Len(s) = a - 1 /\ \A j \in 1..(a - 1) : s[j] = t[j]
      /\ e \in Seq(Lines) /\ Len(e) = n + 1 - b /\ \A j \in 1..(n + 1 - b) : e[j] = t[b - 1 + j]
  BY <1>1, PartsAre
<1> HIDE DEF s, e, n
<1>3. /\ r \in Seq(Lines) /\ Len(r) = Len(s) + Len(e)
      /\ \A j \in 1..Len(s) : r[j] = s[j]
      /\ \A j \in 1..Len(e) : r[Len(s) + j] = e[j]
  BY <1>2, JoinIs
<1> HIDE DEF r
<1>4. \A j \in 1..(a - 1) : r[j] = t[j]
  BY <1>1, <1>2, <1>3
<1>5. \A j \in 1..(n + 1 - b) : r[a - 1 + j] = t[b - 1 + j]
  BY <1>1, <1>2, <1>3
<1>6. Len(r) = n - (b - a)
  BY <1>1, <1>2, <1>3
<1>7. CutAt(t, r, a, b)
  BY <1>3, <1>4, <1>5, <1>6 DEF CutAt, n
<1>8. QED BY <1>7 DEF r, s, e, n

LEMMA CutThins ==
  ASSUME NEW t, IsText(t), NEW a \in 1..(Len(t) + 1), NEW b \in a..(Len(t) + 1),
         NEW r, CutAt(t, r, a, b)
  PROVE  r \in Seq(Lines) /\ \E place : Thinned(t, r, (1..Len(t)) \ (a..(b - 1)), place)
<1> DEFINE n == Len(t)
           keep == (1..n) \ (a..(b - 1))
           place == [i \in 0..n |-> IF i < a THEN i ELSE IF i < b THEN a - 1 ELSE i - (b - a)]
<1>1. n \in Nat \ {0} /\ a \in 1..(n + 1) /\ b \in a..(n + 1)
  BY TextLines
<1>2. /\ r \in Seq(Lines) /\ Len(r) = n - (b - a)
      /\ \A j \in 1..(a - 1) : r[j] = t[j]
      /\ \A j \in 1..(n + 1 - b) : r[a - 1 + j] = t[b - 1 + j]
  BY DEF CutAt
<1> HIDE DEF n
<1>3. place \in [0..n -> 0..Len(r)] /\ place[0] = 0 /\ place[n] = Len(r)
  BY <1>1, <1>2
<1>4. ASSUME NEW i \in 1..n
      PROVE  IF i \in keep THEN place[i] = place[i - 1] + 1 /\ r[place[i]] = t[i]
                           ELSE place[i] = place[i - 1]
  <2>1. i - 1 \in 0..n /\ i \in 0..n
    BY <1>1
  <2>2. CASE i < a
    <3>1. i \in 1..(a - 1) /\ place[i] = i /\ place[i - 1] = i - 1 /\ i \in keep
      BY <1>1, <2>1, <2>2
    <3>2. QED BY <1>2, <3>1
  <2>3. CASE i \in a..(b - 1)
    BY <1>1, <2>1, <2>3
  <2>4. CASE i >= b
    <3>1. place[i] = i - (b - a) /\ place[i - 1] = i - 1 - (b - a) /\ i \in keep
      BY <1>1, <2>1, <2>4
    <3>2. i - b + 1 \in 1..(n + 1 - b) /\ a - 1 + (i - b + 1) = i - (b - a) /\ b - 1 + (i - b + 1) = i
      BY <1>1, <2>4
    <3>3. r[i - (b - a)] = t[i]
      BY <1>2, <3>2
    <3>4. QED BY <1>1, <3>1, <3>3
  <2>5. QED BY <1>1, <2>2, <2>3, <2>4
<1>5. Thinned(t, r, keep, place)
  BY <1>3, <1>4 DEF Thinned, n
<1>6. QED BY <1>2, <1>5 DEF n

\* The lines of a table, up to the next header, are a table that is taken out.
LEMMA CutTable ==
  ASSUME NEW t, IsText(t), NEW h \in KawnTables, hasTomlTable(t, h)
  PROVE  LET a == Start(t, h)
             b == End(t, a)
             keep == (1..Len(t)) \ (a..(b - 1))
         IN /\ a \in 1..Len(t) /\ b \in (a + 1)..(Len(t) + 1) /\ t[a] = h /\ a \notin keep
            /\ TableOut(t, keep, h)
<1> DEFINE a == Start(t, h)
           b == End(t, a)
           n == Len(t)
           keep == (1..n) \ (a..(b - 1))
<1>1. a \in 1..n /\ t[a] = h
  BY StartIs
<1>2. n \in Nat \ {0}
  BY TextLines
<1>3. /\ b \in (a + 1)..(n + 1) /\ (b <= n => t[b] \in Headers)
      /\ \A k \in (a + 1)..(b - 1) : t[k] \notin Headers
  BY <1>1, EndIs
<1> HIDE DEF a, b, n
<1>4. ASSUME NEW i \in 1..n, i \notin keep
      PROVE  Open(t, i, h) /\ (i = n \/ i + 1 \notin keep \/ t[i + 1] \in Headers)
  <2>1. i \in a..(b - 1)
    BY <1>4
  <2>2. Open(t, i, h)
    <3>1. /\ a \in Nat \ {0} /\ i \in Nat /\ a <= i
          /\ \A k \in (a + 1)..i : k \in (a + 1)..(b - 1)
      BY <1>1, <1>2, <1>3, <2>1
    <3>2. QED BY <1>1, <1>3, <3>1, TableOpen
  <2>3. i = n \/ i + 1 \in a..(b - 1) \/ (i + 1 = b /\ b <= n)
    BY <1>1, <1>2, <1>3, <2>1
  <2>4. QED BY <1>3, <2>2, <2>3
<1>5. TableOut(t, keep, h)
  BY <1>4 DEF TableOut, n
<1>6. a \notin keep
  BY <1>1, <1>2, <1>3
<1>7. QED BY <1>1, <1>3, <1>5, <1>6 DEF a, b, n

LEMMA EmptyLine ==
  /\ IsText(<<Nothing>>) /\ RestOfText(<<Nothing>>) = <<>>
  /\ \A g \in Headers : ~hasTomlTable(<<Nothing>>, g) /\ Once(<<Nothing>>, g)
  /\ Whole(<<Nothing>>) /\ Whole(<<>>)
<1> DEFINE u == <<Nothing>>
<1>1. u \in Seq(Lines) /\ u # <<>> /\ Len(u) = 1 /\ u[1] = Nothing /\ DOMAIN u = 1..1
  BY Spelling
<1> HIDE DEF u
<1>2. Nothing \in Blank /\ Nothing \notin Headers /\ TABLE \in Headers
  BY Spelling DEF KawnTables
<1>3. RestOfText(u) = <<>>
  BY <1>1, <1>2, NoRest
<1>4. \A g \in Headers : ~hasTomlTable(u, g) /\ Once(u, g)
  BY <1>1, <1>2 DEF hasTomlTable, Once
<1>5. Whole(u)
  BY <1>1, <1>2 DEF Whole
<1>6. Whole(<<>>)
  BY DEF Whole
<1>7. QED BY <1>1, <1>3, <1>4, <1>5, <1>6 DEF u, IsText

\* removeTomlTable takes out the table it is asked for, once and for all, and nothing else
\* that counts: the other tables are there as before, and so are their lines.
LEMMA RemoveGives ==
  ASSUME NEW t, IsText(t), NEW h \in KawnTables, Once(t, h)
  PROVE  LET u == removeTomlTable(t, h)
         IN /\ IsText(u) /\ ~hasTomlTable(u, h) /\ RestOfText(u) = RestOfText(t)
            /\ \A g \in KawnTables : Once(t, g) => Once(u, g)
            /\ \A g \in KawnTables \ {h} : hasTomlTable(u, g) <=> hasTomlTable(t, g)
            /\ h = LEGACY_TABLE /\ Whole(t) => Whole(u)
<1> DEFINE u == removeTomlTable(t, h)
<1>0. KawnTables \subseteq Headers /\ h \in Headers
  BY Spelling
<1>1. CASE ~hasTomlTable(t, h)
  <2>1. u = t
    BY <1>1 DEF removeTomlTable
  <2> HIDE DEF u
  <2>2. QED BY <1>1, <2>1 DEF u
<1>2. CASE hasTomlTable(t, h)
  <2> DEFINE n == Len(t)
             a == Start(t, h)
             b == End(t, a)
             r == SubSeq(t, 1, a - 1) \o SubSeq(t, b, n)
             keep == (1..n) \ (a..(b - 1))
             m == IF r = <<>> THEN <<Nothing>> ELSE r
  <2>1. u = Squeezed(m)
    BY <1>2, Zenon DEF removeTomlTable
  <2>2. a \in 1..n /\ b \in (a + 1)..(n + 1) /\ t[a] = h /\ a \notin keep /\ TableOut(t, keep, h)
    BY <1>2, CutTable, Zenon
  <2>3. r \in Seq(Lines) /\ \E place : Thinned(t, r, keep, place)
    <3> HIDE DEF a, b, r, keep
    <3>1. /\ n \in Nat /\ a \in 1..(n + 1) /\ b \in a..(n + 1)
      BY <2>2, TextLines
    <3>2. CutAt(t, r, a, b)
      BY <3>1, CutIs DEF r
    <3>3. QED BY <3>1, <3>2, CutThins DEF keep
  <2> HIDE DEF u, r, keep, a, b
  <2>4. PICK place : Thinned(t, r, keep, place)
    BY <2>3
  <2>5. RestOfText(r) = RestOfText(t)
    BY <2>2, <2>3, <2>4, ThinRest
  <2>6. ASSUME NEW g \in Headers
        PROVE  /\ Once(t, g) => Once(r, g)
               /\ hasTomlTable(r, g) => \E i \in 1..n : i \in keep /\ t[i] = g
               /\ hasTomlTable(t, g) /\ g # h => hasTomlTable(r, g)
    BY <2>2, <2>3, <2>4, ThinTables
  <2>7. ~hasTomlTable(r, h)
    <3>1. SUFFICES ASSUME NEW i \in 1..n, i \in keep, t[i] = h PROVE FALSE
      BY <1>0, <2>6
    <3>2. i = a
      BY <2>2, <3>1 DEF Once
    <3>3. QED BY <2>2, <3>1, <3>2
  <2>8. \A g \in Headers : hasTomlTable(r, g) => hasTomlTable(t, g)
    <3>1. DOMAIN t = 1..n
      BY TextLines
    <3>2. QED BY <2>6, <3>1 DEF hasTomlTable
  <2>9. h = LEGACY_TABLE /\ Whole(t) => Whole(r)
    BY <2>2, <2>3, <2>4, ThinWhole
  <2>10. /\ IsText(m) /\ RestOfText(m) = RestOfText(r)
         /\ \A g \in Headers : /\ Once(r, g) => Once(m, g)
                               /\ hasTomlTable(m, g) <=> hasTomlTable(r, g)
         /\ Whole(r) => Whole(m)
    <3>1. CASE r = <<>>
      <4>1. m = <<Nothing>>
        BY <3>1
      <4>2. RestOfText(r) = <<>>
        <5>1. Len(r) = 0
          BY <3>1
        <5>2. \A i \in 1..Len(r) : r[i] \in Blank
          BY <5>1
        <5>3. QED BY <2>3, <5>2, NoRest
      <4>3. \A g \in Headers : ~hasTomlTable(r, g)
        BY <3>1 DEF hasTomlTable
      <4> HIDE DEF m
      <4>4. QED BY <4>1, <4>2, <4>3, EmptyLine
    <3>2. CASE r # <<>>
      <4>1. m = r
        BY <3>2
      <4> HIDE DEF m
      <4>2. QED BY <2>3, <3>2, <4>1 DEF IsText
    <3>3. QED BY <3>1, <3>2
  <2> HIDE DEF m
  <2>11. IsText(u) /\ \E kept, at : Thinned(m, u, kept, at) /\ BlankOut(m, kept)
    BY <2>1, <2>10, SqueezeThins
  <2>12. PICK kept, at : Thinned(m, u, kept, at) /\ BlankOut(m, kept)
    BY <2>11
  <2>13. u \in Seq(Lines)
    BY <2>11 DEF IsText
  <2>14. RestOfText(u) = RestOfText(m)
    BY <2>10, <2>12, <2>13, ThinRest
  <2>15. ASSUME NEW g \in Headers
         PROVE  /\ Once(m, g) => Once(u, g)
                /\ hasTomlTable(u, g) <=> hasTomlTable(m, g)
    <3>1. /\ Once(m, g) => Once(u, g)
          /\ hasTomlTable(u, g) => \E i \in 1..Len(m) : i \in kept /\ m[i] = g
          /\ hasTomlTable(m, g) => hasTomlTable(u, g)
      BY <2>10, <2>12, <2>13, ThinTables
    <3>2. DOMAIN m = 1..Len(m)
      BY <2>10, TextLines
    <3>3. QED BY <3>1, <3>2 DEF hasTomlTable
  <2>16. Whole(m) => Whole(u)
    BY <2>10, <2>12, <2>13, ThinWhole
  <2>17. \A g \in KawnTables : Once(t, g) => Once(u, g)
    BY <1>0, <2>6, <2>10, <2>15
  <2>18. \A g \in KawnTables \ {h} : hasTomlTable(u, g) <=> hasTomlTable(t, g)
    BY <1>0, <2>6, <2>8, <2>10, <2>15
  <2>19. ~hasTomlTable(u, h)
    BY <1>0, <2>7, <2>10, <2>15
  <2>20. QED BY <2>5, <2>9, <2>10, <2>11, <2>14, <2>16, <2>17, <2>18, <2>19 DEF u
<1>3. QED BY <1>1, <1>2

-----------------------------------------------------------------------------
(* Putting kawn's table in                                                 *)

\* kawn's block with what stands before and after it.
Around(u, s, e) ==
  /\ u \in Seq(Lines) /\ Len(u) = Len(s) + 2 + Len(e)
  /\ \A j \in 1..Len(s) : u[j] = s[j]
  /\ u[Len(s) + 1] = TABLE /\ u[Len(s) + 2] = OwnLine
  /\ \A j \in 1..Len(e) : u[Len(s) + 2 + j] = e[j]

LEMMA PairIs ==
  ASSUME NEW p \in Lines, NEW q \in Lines
  PROVE  <<p, q>> \in Seq(Lines) /\ Len(<<p, q>>) = 2 /\ <<p, q>>[1] = p /\ <<p, q>>[2] = q
  OBVIOUS

LEMMA BlockIs ==
  ASSUME NEW s \in Seq(Lines), NEW e \in Seq(Lines)
  PROVE  Around(s \o Block \o e, s, e)
<1> DEFINE b == Block
           u == s \o b \o e
<1>1. b \in Seq(Lines) /\ Len(b) = 2 /\ b[1] = TABLE /\ b[2] = OwnLine
  <2>1. TABLE \in Lines /\ OwnLine \in Lines
    BY Spelling DEF KawnTables
  <2>2. b = <<TABLE, OwnLine>>
    BY DEF Block, OwnLine
  <2>3. QED BY <2>1, <2>2, PairIs
<1> HIDE DEF b
<1>2. /\ s \o b \in Seq(Lines) /\ Len(s) \in Nat /\ Len(s \o b) = Len(s) + 2
      /\ \A j \in 1..Len(s) : (s \o b)[j] = s[j]
      /\ \A j \in 1..2 : (s \o b)[Len(s) + j] = b[j]
  <2>1. /\ s \o b \in Seq(Lines) /\ Len(s) \in Nat /\ Len(s \o b) = Len(s) + Len(b)
        /\ \A j \in 1..Len(s) : (s \o b)[j] = s[j]
        /\ \A j \in 1..Len(b) : (s \o b)[Len(s) + j] = b[j]
    BY <1>1, JoinIs
  <2>2. QED BY <1>1, <2>1
<1>3. /\ u \in Seq(Lines) /\ Len(e) \in Nat /\ Len(u) = Len(s \o b) + Len(e)
      /\ \A j \in 1..Len(s \o b) : u[j] = (s \o b)[j]
      /\ \A j \in 1..Len(e) : u[Len(s \o b) + j] = e[j]
  BY <1>2, JoinIs
<1> DEFINE c == s \o b
<1> HIDE DEF u, c
<1>4. Len(u) = Len(s) + 2 + Len(e)
  BY <1>2, <1>3
<1>5. \A j \in 1..Len(s) : u[j] = s[j]
  BY <1>2, <1>3
<1>6. u[Len(s) + 1] = TABLE /\ u[Len(s) + 2] = OwnLine
  BY <1>1, <1>2, <1>3
<1>7. \A j \in 1..Len(e) : u[Len(s) + 2 + j] = e[j]
  BY <1>2, <1>3
<1>8. Around(u, s, e)
  BY <1>3, <1>4, <1>5, <1>6, <1>7 DEF Around
<1>9. QED BY <1>8 DEF u, b

\* Such a text has kawn's table, once and whole, if there is no other and no line of
\* another kind between it and the next header.
LEMMA AroundWhole ==
  ASSUME NEW u, NEW s \in Seq(Lines), NEW e \in Seq(Lines), Around(u, s, e),
         \A j \in 1..Len(s) : s[j] # TABLE, \A j \in 1..Len(e) : e[j] # TABLE,
         \A j \in 1..Len(e) : (\A k \in 1..j : e[k] \notin Headers) => e[j] \in Blank
  PROVE  IsText(u) /\ hasTomlTable(u, TABLE) /\ Once(u, TABLE) /\ Whole(u)
<1> DEFINE x == Len(s)
           y == Len(e)
<1>1. /\ x \in Nat /\ y \in Nat /\ u \in Seq(Lines) /\ Len(u) = x + 2 + y /\ DOMAIN u = 1..Len(u)
      /\ u[x + 1] = TABLE /\ u[x + 2] = OwnLine
      /\ \A j \in 1..x : u[j] = s[j]
      /\ \A j \in 1..y : u[x + 2 + j] = e[j]
  <2>1. x \in Nat /\ y \in Nat
    OBVIOUS
  <2>2. /\ u \in Seq(Lines) /\ Len(u) = x + 2 + y
        /\ u[x + 1] = TABLE /\ u[x + 2] = OwnLine
        /\ \A j \in 1..x : u[j] = s[j]
        /\ \A j \in 1..y : u[x + 2 + j] = e[j]
    BY Zenon DEF Around
  <2>3. DOMAIN u = 1..Len(u)
    BY <2>2
  <2>4. QED BY <2>1, <2>2, <2>3
<1>2. \A j \in 1..x : s[j] # TABLE
  OBVIOUS
<1>3. \A j \in 1..y : e[j] # TABLE /\ ((\A k \in 1..j : e[k] \notin Headers) => e[j] \in Blank)
  OBVIOUS
<1>4. IsText(u)
  <2>1. Len(u) # 0
    BY <1>1
  <2>2. QED BY <1>1, <2>1 DEF IsText
<1> HIDE DEF x, y
<1>5. hasTomlTable(u, TABLE)
  BY <1>1 DEF hasTomlTable
<1>6. OwnLine # TABLE
  BY Spelling DEF KawnTables
<1>7. \A i \in 1..Len(u) : i \in 1..x \/ i = x + 1 \/ i = x + 2 \/ (i - x - 2 \in 1..y /\ i = x + 2 + (i - x - 2))
  BY <1>1
<1>8. \A i \in 1..Len(u) : u[i] = TABLE => i = x + 1
  <2> SUFFICES ASSUME NEW i \in 1..Len(u), u[i] = TABLE, i # x + 1 PROVE FALSE
    OBVIOUS
  <2>1. CASE i \in 1..x
    BY <1>1, <1>2, <2>1
  <2>2. CASE i = x + 2
    BY <1>1, <1>6, <2>2
  <2>3. CASE i - x - 2 \in 1..y /\ i = x + 2 + (i - x - 2)
    <3>1. u[x + 2 + (i - x - 2)] = e[i - x - 2]
      BY <1>1, <2>3
    <3>2. QED BY <1>3, <2>3, <3>1
  <2>4. QED BY <1>7, <2>1, <2>2, <2>3
<1>9. Once(u, TABLE)
  BY <1>8 DEF Once
<1>10. ASSUME NEW i \in 1..Len(u), Open(u, i, TABLE), u[i] \notin Blank \cup {TABLE} PROVE i = x + 2
  <2>1. PICK j \in 1..i : u[j] = TABLE /\ \A k \in j+1..i : u[k] \notin Headers
    BY <1>10 DEF Open
  <2>2. j = x + 1
    <3>1. j \in 1..Len(u)
      BY <1>1
    <3>2. QED BY <1>8, <2>1, <3>1
  <2>3. SUFFICES ASSUME i # x + 2 PROVE FALSE
    OBVIOUS
  <2>4. i - x - 2 \in 1..y /\ u[i] = e[i - x - 2]
    BY <1>1, <1>7, <1>10, <2>2, <2>3
  <2>5. \A k \in 1..(i - x - 2) : e[k] \notin Headers
    <3>1. TAKE k \in 1..(i - x - 2)
    <3>2. k \in 1..y /\ x + 2 + k \in j+1..i
      BY <1>1, <2>2, <2>4
    <3>3. u[x + 2 + k] = e[k]
      BY <1>1, <3>2
    <3>4. QED BY <2>1, <3>2, <3>3
  <2>6. e[i - x - 2] \in Blank
    BY <1>3, <2>4, <2>5
  <2>7. QED BY <1>10, <2>4, <2>6
<1>11. Whole(u)
  <2> SUFFICES ASSUME NEW i \in 1..Len(u)
               PROVE  /\ u[i] = TABLE => i < Len(u) /\ u[i + 1] = OwnLine
                      /\ Open(u, i, TABLE) => \/ u[i] \in Blank \cup {TABLE}
                                              \/ u[i] = OwnLine /\ i > 1 /\ u[i - 1] = TABLE
    BY DEF Whole
  <2>1. u[i] = TABLE => i < Len(u) /\ u[i + 1] = OwnLine
    <3> HAVE u[i] = TABLE
    <3>1. i = x + 1 /\ i + 1 = x + 2
      BY <1>1, <1>8
    <3>2. i < Len(u)
      BY <1>1, <3>1
    <3>3. QED BY <1>1, <3>1, <3>2
  <2>2. ASSUME Open(u, i, TABLE), u[i] \notin Blank \cup {TABLE}
        PROVE  u[i] = OwnLine /\ i > 1 /\ u[i - 1] = TABLE
    <3>1. i = x + 2
      BY <1>10, <2>2
    <3>2. i - 1 = x + 1 /\ i > 1
      BY <1>1, <3>1
    <3>3. QED BY <1>1, <3>1, <3>2
  <2>3. QED BY <2>1, <2>2
<1>12. QED BY <1>4, <1>5, <1>9, <1>11

\* A header that stands once in what is left stood once before, if no table of it was
\* left out.
LEMMA ThinBack ==
  ASSUME NEW t, IsText(t), NEW u, u \in Seq(Lines), NEW keep, NEW place, Thinned(t, u, keep, place),
         NEW h \in KawnTables, BlankOut(t, keep) \/ TableOut(t, keep, h), NEW g \in KawnTables, g # h, Once(u, g)
  PROVE  Once(t, g)
<1>1. \A i, k \in 1..Len(t) : i \in keep /\ k \in keep /\ place[i] = place[k] => i = k
  BY ThinnedFrom
<1>2. KawnTables \subseteq Headers
  BY Spelling
<1>3. ASSUME NEW i \in 1..Len(t), t[i] = g PROVE i \in keep
  <2>1. SUFFICES ASSUME i \notin keep PROVE FALSE
    OBVIOUS
  <2>2. t[i] \notin Blank
    BY <1>2, <1>3, Spelling
  <2>3. Open(t, i, h)
    BY <2>1, <2>2 DEF BlankOut, TableOut
  <2>4. i \in Nat \ {0}
    BY TextLines
  <2>5. Open(t, i, g)
    BY <1>2, <1>3, <2>4, OpenStep
  <2>6. QED BY <1>2, <2>3, <2>4, <2>5, OneOpen
<1>4. \A i \in 1..Len(t) : i \in keep => place[i] \in 1..Len(u) /\ u[place[i]] = t[i]
  <2> TAKE i \in 1..Len(t)
  <2> HAVE i \in keep
  <2>1. Len(t) \in Nat /\ Len(u) \in Nat /\ i - 1 \in 0..Len(t) /\ i \in 0..Len(t)
    BY TextLines
  <2>2. /\ place[i] = place[i - 1] + 1 /\ u[place[i]] = t[i]
        /\ place[i] \in 0..Len(u) /\ place[i - 1] \in 0..Len(u)
    BY <2>1 DEF Thinned
  <2>3. QED BY <2>1, <2>2
<1>5. QED
  <2>1. SUFFICES ASSUME NEW i \in 1..Len(t), NEW k \in 1..Len(t), t[i] = g, t[k] = g PROVE i = k
    BY DEF Once
  <2>2. i \in keep /\ k \in keep
    BY <1>3, <2>1
  <2>3. place[i] = place[k]
    BY <1>4, <2>1, <2>2 DEF Once
  <2>4. QED BY <1>1, <2>2, <2>3

\* What an upsert promises: kawn's table, whole, and all the rest as it was.
Upserted(t, u) ==
  /\ IsText(u) /\ hasTomlTable(u, TABLE) /\ Once(u, TABLE) /\ Whole(u)
  /\ RestOfText(u) = RestOfText(t)
  /\ Once(t, LEGACY_TABLE) => Once(u, LEGACY_TABLE)

\* Two texts that differ by what may be left out.
LEMMA CutSame ==
  ASSUME NEW t, IsText(t), NEW a \in 1..(Len(t) + 1), NEW b \in a..(Len(t) + 1),
         NEW r, CutAt(t, r, a, b),
         BlankOut(t, (1..Len(t)) \ (a..(b - 1))) \/ TableOut(t, (1..Len(t)) \ (a..(b - 1)), TABLE)
  PROVE  RestOfText(r) = RestOfText(t) /\ (Once(r, LEGACY_TABLE) <=> Once(t, LEGACY_TABLE))
<1> DEFINE keep == (1..Len(t)) \ (a..(b - 1))
<1>1. r \in Seq(Lines) /\ \E place : Thinned(t, r, keep, place)
  BY CutThins
<1>2. /\ LEGACY_TABLE \in KawnTables /\ LEGACY_TABLE \in Headers
      /\ TABLE \in KawnTables /\ TABLE # LEGACY_TABLE
  BY Spelling DEF KawnTables
<1>3. BlankOut(t, keep) \/ TableOut(t, keep, TABLE)
  OBVIOUS
<1> HIDE DEF keep
<1>4. PICK place : Thinned(t, r, keep, place)
  BY <1>1
<1>5. RestOfText(r) = RestOfText(t)
  BY <1>1, <1>2, <1>3, <1>4, ThinRest
<1>6. Once(t, LEGACY_TABLE) => Once(r, LEGACY_TABLE)
  BY <1>1, <1>2, <1>3, <1>4, ThinTables
<1>7. Once(r, LEGACY_TABLE) => Once(t, LEGACY_TABLE)
  BY <1>1, <1>2, <1>3, <1>4, ThinBack
<1>8. QED BY <1>5, <1>6, <1>7

\* kawn's table where there was one.
LEMMA ReplaceGives ==
  ASSUME NEW t, IsText(t), Once(t, TABLE), hasTomlTable(t, TABLE)
  PROVE  Upserted(t, upsertTomlTable(t, TABLE, Block))
<1> DEFINE n == Len(t)
           a == Start(t, TABLE)
           b == End(t, a)
           last == Max({i \in a..b - 1 : t[i] \notin Blank})
           s == SubSeq(t, 1, a - 1)
           e == SubSeq(t, last + 1, n)
           u == s \o Block \o e
<1>1. upsertTomlTable(t, TABLE, Block) = u
  BY Zenon DEF upsertTomlTable
<1>2. n \in Nat \ {0} /\ a \in 1..n /\ t[a] = TABLE
  BY TextLines, StartIs
<1>3. /\ b \in (a + 1)..(n + 1) /\ (b <= n => t[b] \in Headers)
      /\ \A k \in (a + 1)..(b - 1) : t[k] \notin Headers
  BY <1>2, EndIs
<1>4. \A i \in 1..n : t[i] = TABLE => i = a
  BY <1>2 DEF Once
<1>5. TABLE \in Headers /\ TABLE \notin Blank /\ OwnLine \notin Headers /\ TABLE \in KawnTables
  BY Spelling DEF KawnTables
<1> HIDE DEF n, a, b
<1>6. last \in a..(b - 1) /\ \A k \in (last + 1)..(b - 1) : t[k] \in Blank
  <2> DEFINE S == {i \in a..b - 1 : t[i] \notin Blank}
  <2>1. b - 1 \in Nat /\ S \subseteq 0..(b - 1) /\ a \in S
    BY <1>2, <1>3, <1>5
  <2>2. last = Max(S)
    OBVIOUS
  <2>3. last \in S /\ \A m \in S : m <= last
    <3> HIDE DEF S, last
    <3>1. QED BY <2>1, <2>2, GreatestIs
  <2> HIDE DEF last
  <2>4. QED BY <1>2, <1>3, <2>3
<1> HIDE DEF last
<1>7. /\ s \in Seq(Lines) /\ Len(s) = a - 1 /\ \A j \in 1..(a - 1) : s[j] = t[j]
      /\ e \in Seq(Lines) /\ Len(e) = n - last /\ \A j \in 1..(n - last) : e[j] = t[last + j]
  <2>1. a \in 1..(n + 1) /\ last + 1 \in 1..(n + 1)
    BY <1>2, <1>3, <1>6
  <2>2. /\ s \in Seq(Lines) /\ Len(s) = a - 1 /\ \A j \in 1..(a - 1) : s[j] = t[j]
        /\ e \in Seq(Lines) /\ Len(e) = n + 1 - (last + 1)
        /\ \A j \in 1..(n + 1 - (last + 1)) : e[j] = t[(last + 1) - 1 + j]
    BY <2>1, PartsAre DEF n
  <2>3. last \in Nat /\ n + 1 - (last + 1) = n - last /\ (last + 1) - 1 = last
    BY <1>2, <1>3, <1>6
  <2> HIDE DEF s, e
  <2>4. QED BY <2>2, <2>3
<1>8. Around(u, s, e)
  BY <1>7, BlockIs
<1> HIDE DEF s, e, u
<1>9. /\ u \in Seq(Lines) /\ Len(u) = a + 1 + (n - last)
      /\ \A j \in 1..(a - 1) : u[j] = t[j]
      /\ u[a] = TABLE /\ u[a + 1] = OwnLine
      /\ \A j \in 1..(n - last) : u[a + 1 + j] = t[last + j]
  <2>1. a - 1 \in Nat /\ (a - 1) + 1 = a /\ (a - 1) + 2 = a + 1
    BY <1>2
  <2>2. /\ u \in Seq(Lines) /\ Len(u) = (a - 1) + 2 + (n - last)
        /\ \A j \in 1..(a - 1) : u[j] = s[j]
        /\ u[(a - 1) + 1] = TABLE /\ u[(a - 1) + 2] = OwnLine
        /\ \A j \in 1..(n - last) : u[(a - 1) + 2 + j] = e[j]
    BY <1>7, <1>8 DEF Around
  <2>3. QED BY <1>7, <2>1, <2>2
<1>10. IsText(u) /\ hasTomlTable(u, TABLE) /\ Once(u, TABLE) /\ Whole(u)
  <2>1. \A j \in 1..Len(s) : s[j] # TABLE
    BY <1>2, <1>4, <1>7
  <2>2. \A j \in 1..Len(e) : e[j] # TABLE
    <3> TAKE j \in 1..Len(e)
    <3>1. j \in 1..(n - last) /\ e[j] = t[last + j]
      BY <1>7
    <3>2. last + j \in 1..n /\ last + j # a
      BY <1>2, <1>3, <1>6, <3>1
    <3>3. QED BY <1>4, <3>1, <3>2
  <2>3. ASSUME NEW j \in 1..Len(e), \A k \in 1..j : e[k] \notin Headers PROVE e[j] \in Blank
    <3>1. last + j < b
      <4>1. SUFFICES ASSUME last + j >= b PROVE FALSE
        BY <1>2, <1>3, <1>6, <1>7
      <4>2. b - last \in 1..j /\ b - last \in 1..(n - last) /\ last + (b - last) = b /\ b <= n
        BY <1>2, <1>3, <1>6, <1>7, <4>1
      <4>3. e[b - last] = t[b]
        BY <1>7, <4>2
      <4>4. QED BY <1>3, <2>3, <4>2, <4>3
    <3>2. last + j \in (last + 1)..(b - 1) /\ j \in 1..(n - last)
      BY <1>2, <1>3, <1>6, <1>7, <3>1
    <3>3. QED BY <1>6, <1>7, <3>2
  <2>4. QED BY <1>7, <1>8, <2>1, <2>2, <2>3, AroundWhole
<1> DEFINE r == SubSeq(t, 1, a - 1) \o SubSeq(t, b, n)
           d == a + 2 + (b - 1 - last)
<1>11. CutAt(t, r, a, b)
  <2>1. a \in 1..(n + 1) /\ b \in a..(n + 1)
    BY <1>2, <1>3
  <2>2. QED BY <2>1, CutIs DEF n
<1> HIDE DEF r
<1>12. /\ r \in Seq(Lines) /\ Len(r) = n - (b - a)
       /\ \A j \in 1..(a - 1) : r[j] = t[j]
       /\ \A j \in 1..(n + 1 - b) : r[a - 1 + j] = t[b - 1 + j]
  BY <1>11 DEF CutAt, n
<1>13. TableOut(t, (1..n) \ (a..(b - 1)), TABLE)
  BY <1>5, CutTable DEF n, a, b
<1>14. RestOfText(r) = RestOfText(t) /\ (Once(r, LEGACY_TABLE) <=> Once(t, LEGACY_TABLE))
  <2>1. a \in 1..(n + 1) /\ b \in a..(n + 1)
    BY <1>2, <1>3
  <2>2. QED BY <1>11, <1>13, <2>1, CutSame DEF n
<1>15. d \in (a + 2)..(Len(u) + 1) /\ d - 1 = a + 1 + (b - 1 - last) /\ Len(u) + 1 - d = n + 1 - b
  BY <1>2, <1>3, <1>6, <1>9
<1>16. CutAt(u, r, a, d)
  <2>1. Len(r) = Len(u) - (d - a)
    BY <1>2, <1>3, <1>6, <1>9, <1>12
  <2>2. \A j \in 1..(a - 1) : r[j] = u[j]
    BY <1>9, <1>12
  <2>3. ASSUME NEW j \in 1..(Len(u) + 1 - d) PROVE r[a - 1 + j] = u[d - 1 + j]
    <3>1. j \in 1..(n + 1 - b)
      BY <1>15
    <3>2. /\ (b - 1 - last) + j \in 1..(n - last) /\ last + ((b - 1 - last) + j) = b - 1 + j
          /\ a + 1 + ((b - 1 - last) + j) = d - 1 + j
      BY <1>2, <1>3, <1>6, <3>1
    <3>3. u[d - 1 + j] = t[b - 1 + j]
      BY <1>9, <3>2
    <3>4. QED BY <1>12, <3>1, <3>3
  <2> HIDE DEF d
  <2>4. QED BY <1>12, <2>1, <2>2, <2>3 DEF CutAt
<1>17. \A k \in (a + 1)..(d - 1) : u[k] \notin Headers
  <2> TAKE k \in (a + 1)..(d - 1)
  <2>1. CASE k = a + 1
    BY <1>5, <1>9, <2>1
  <2>2. CASE k # a + 1
    <3>1. /\ k - a - 1 \in 1..(n - last) /\ k = a + 1 + (k - a - 1)
          /\ last + (k - a - 1) \in (a + 1)..(b - 1)
      BY <1>2, <1>3, <1>6, <2>2
    <3>2. u[k] = t[last + (k - a - 1)]
      BY <1>9, <3>1
    <3>3. QED BY <1>3, <3>1, <3>2
  <2>3. QED BY <2>1, <2>2
<1>18. d <= Len(u) => u[d] \in Headers
  <2> HAVE d <= Len(u)
  <2>1. b <= n
    BY <1>2, <1>3, <1>6, <1>9
  <2>2. b - last \in 1..(n - last) /\ a + 1 + (b - last) = d /\ last + (b - last) = b
    BY <1>2, <1>3, <1>6, <2>1
  <2>3. u[d] = t[b]
    BY <1>9, <2>2
  <2>4. QED BY <1>3, <2>1, <2>3
<1> HIDE DEF d
<1>19. TableOut(u, (1..Len(u)) \ (a..(d - 1)), TABLE)
  <2>1. Len(u) \in Nat
    BY <1>9
  <2>2. SUFFICES ASSUME NEW i \in 1..Len(u), i \in a..(d - 1)
                 PROVE  /\ Open(u, i, TABLE)
                        /\ i = Len(u) \/ i + 1 \notin (1..Len(u)) \ (a..(d - 1)) \/ u[i + 1] \in Headers
    BY DEF TableOut
  <2>3. Open(u, i, TABLE)
    <3>1. a \in Nat \ {0} /\ i \in Nat /\ a <= i /\ \A k \in (a + 1)..i : k \in (a + 1)..(d - 1)
      BY <1>2, <1>15, <2>1, <2>2
    <3>2. QED BY <1>9, <1>17, <3>1, TableOpen
  <2>4. i = Len(u) \/ i + 1 \in a..(d - 1) \/ (i + 1 = d /\ d <= Len(u))
    BY <1>2, <1>15, <2>1, <2>2
  <2>5. QED BY <1>18, <2>3, <2>4
<1>20. RestOfText(r) = RestOfText(u) /\ (Once(r, LEGACY_TABLE) <=> Once(u, LEGACY_TABLE))
  <2>1. a \in 1..(Len(u) + 1) /\ d \in a..(Len(u) + 1)
    BY <1>2, <1>9, <1>15
  <2>2. QED BY <1>10, <1>16, <1>19, <2>1, CutSame
<1>21. Upserted(t, u)
  BY <1>10, <1>14, <1>20 DEF Upserted
<1>22. QED BY <1>1, <1>21 DEF u

\* kawn's table at the end of what there was.
LEMMA AppendedGives ==
  ASSUME NEW s \in Seq(Lines), \A j \in 1..Len(s) : s[j] # TABLE,
         NEW u, Around(u, s, <<Nothing>>)
  PROVE  /\ IsText(u) /\ hasTomlTable(u, TABLE) /\ Once(u, TABLE) /\ Whole(u)
         /\ RestOfText(u) = RestOfText(s)
         /\ Once(s, LEGACY_TABLE) => Once(u, LEGACY_TABLE)
<1> DEFINE e == <<Nothing>>
           x == Len(s)
<1>1. Nothing \in Blank /\ Nothing \in Lines /\ Nothing \notin Headers
  BY Spelling
<1>2. TABLE \in Headers /\ OwnLine \notin Headers /\ TABLE \in KawnTables
  BY Spelling DEF KawnTables
<1>3. e \in Seq(Lines) /\ Len(e) = 1 /\ e[1] = Nothing
  BY <1>1
<1> HIDE DEF e
<1>4. \A j \in 1..Len(e) : j = 1
  BY <1>3
<1>5. IsText(u) /\ hasTomlTable(u, TABLE) /\ Once(u, TABLE) /\ Whole(u)
  <2>1. Around(u, s, e)
    BY DEF e
  <2>2. \A j \in 1..Len(e) : e[j] # TABLE /\ e[j] \in Blank
    BY <1>1, <1>2, <1>3, <1>4
  <2>3. QED BY <1>3, <2>1, <2>2, AroundWhole
<1>6. /\ x \in Nat /\ u \in Seq(Lines) /\ Len(u) = x + 3
      /\ \A j \in 1..x : u[j] = s[j]
      /\ u[x + 1] = TABLE /\ u[x + 2] = OwnLine /\ u[x + 3] = Nothing
  <2>1. x \in Nat
    OBVIOUS
  <2>2. /\ u \in Seq(Lines) /\ Len(u) = x + 2 + Len(e)
        /\ \A j \in 1..x : u[j] = s[j]
        /\ u[x + 1] = TABLE /\ u[x + 2] = OwnLine
        /\ \A j \in 1..Len(e) : u[x + 2 + j] = e[j]
    BY Zenon DEF Around, e
  <2> HIDE DEF x
  <2>3. u[x + 2 + 1] = Nothing /\ x + 2 + 1 = x + 3
    BY <1>3, <2>1, <2>2
  <2>4. QED BY <1>3, <2>1, <2>2, <2>3
<1> DEFINE b == Len(u) + 1
           keep == (1..Len(u)) \ ((x + 1)..(b - 1))
<1>7. CutAt(u, s, x + 1, b)
  <2>1. Len(s) = Len(u) - (b - (x + 1))
    BY <1>6
  <2>2. \A j \in 1..((x + 1) - 1) : s[j] = u[j]
    BY <1>6
  <2>3. Len(u) + 1 - b = 0
    BY <1>6
  <2>4. \A j \in 1..(Len(u) + 1 - b) : s[(x + 1) - 1 + j] = u[b - 1 + j]
    BY <2>3
  <2> HIDE DEF b, x
  <2>5. QED BY <2>1, <2>2, <2>4 DEF CutAt
<1>8. TableOut(u, keep, TABLE)
  <2> HIDE DEF x
  <2>1. SUFFICES ASSUME NEW i \in 1..Len(u), i \notin keep
                 PROVE  Open(u, i, TABLE) /\ (i = Len(u) \/ i + 1 \notin keep)
    BY DEF TableOut
  <2>2. i \in {x + 1, x + 2, x + 3}
    BY <1>6, <2>1
  <2>3. \A k \in ((x + 1) + 1)..i : k = x + 2 \/ k = x + 3
    BY <1>6, <2>2
  <2>4. x + 1 \in Nat \ {0} /\ i \in Nat /\ x + 1 <= i
    BY <1>6, <2>2
  <2>5. Open(u, i, TABLE)
    BY <1>1, <1>2, <1>6, <2>3, <2>4, TableOpen
  <2>6. i = Len(u) \/ i + 1 \in (x + 1)..(b - 1)
    BY <1>6, <2>2
  <2>7. QED BY <2>5, <2>6
<1>9. RestOfText(s) = RestOfText(u) /\ (Once(s, LEGACY_TABLE) <=> Once(u, LEGACY_TABLE))
  <2>1. x + 1 \in 1..(Len(u) + 1) /\ b \in (x + 1)..(Len(u) + 1)
    BY <1>6
  <2> HIDE DEF x, b
  <2>2. QED BY <1>5, <1>7, <1>8, <2>1, CutSame DEF keep
<1>10. QED BY <1>5, <1>9

\* The newlines at the end do not count.
LEMMA TrimGives ==
  ASSUME NEW t, IsText(t)
  PROVE  LET r == Trimmed(t)
         IN /\ IsText(r) /\ RestOfText(r) = RestOfText(t)
            /\ Once(r, LEGACY_TABLE) <=> Once(t, LEGACY_TABLE)
            /\ \A j \in 1..Len(r) : j \in 1..Len(t) /\ r[j] = t[j]
<1> DEFINE n == Len(t)
           S == {i \in DOMAIN t : t[i] # Nothing} \cup {1}
           m == Max(S)
           r == SubSeq(t, 1, m)
<1>1. Trimmed(t) = r
  BY Zenon DEF Trimmed
<1>2. n \in Nat \ {0} /\ DOMAIN t = 1..n /\ t \in Seq(Lines)
  BY TextLines DEF IsText
<1>3. m \in 1..n /\ \A k \in (m + 1)..n : t[k] = Nothing
  <2>1. S \subseteq 0..n /\ S # {} /\ S \subseteq 1..n
    BY <1>2
  <2>2. m \in S /\ \A k \in S : k <= m
    <3> HIDE DEF S
    <3>1. QED BY <1>2, <2>1, GreatestIs
  <2> HIDE DEF m
  <2>3. QED BY <1>2, <2>1, <2>2
<1> HIDE DEF m, n
<1>4. r \in Seq(Lines) /\ Len(r) = m /\ \A j \in 1..m : r[j] = t[j]
  <2>1. m + 1 \in 1..(n + 1) /\ (m + 1) - 1 = m
    BY <1>2, <1>3
  <2>2. /\ SubSeq(t, 1, (m + 1) - 1) \in Seq(Lines) /\ Len(SubSeq(t, 1, (m + 1) - 1)) = (m + 1) - 1
        /\ \A j \in 1..((m + 1) - 1) : SubSeq(t, 1, (m + 1) - 1)[j] = t[j]
    BY <2>1, PartsAre DEF n
  <2>3. QED BY <2>1, <2>2
<1> HIDE DEF r
<1>5. IsText(r)
  <2>1. Len(r) # 0
    BY <1>3, <1>4
  <2>2. QED BY <1>4, <2>1 DEF IsText
<1>6. CutAt(t, r, m + 1, n + 1)
  <2>1. Len(r) = n - ((n + 1) - (m + 1)) /\ \A j \in 1..((m + 1) - 1) : r[j] = t[j]
    BY <1>2, <1>3, <1>4
  <2>2. n + 1 - (n + 1) = 0
    BY <1>2
  <2>3. \A j \in 1..(n + 1 - (n + 1)) : r[(m + 1) - 1 + j] = t[(n + 1) - 1 + j]
    BY <2>2
  <2>4. QED BY <1>4, <2>1, <2>3 DEF CutAt, n
<1>7. BlankOut(t, (1..n) \ ((m + 1)..((n + 1) - 1)))
  <2>1. Nothing \in Blank
    BY Spelling
  <2>2. QED BY <1>2, <1>3, <2>1 DEF BlankOut, n
<1>8. RestOfText(r) = RestOfText(t) /\ (Once(r, LEGACY_TABLE) <=> Once(t, LEGACY_TABLE))
  <2>1. m + 1 \in 1..(n + 1) /\ n + 1 \in (m + 1)..(n + 1)
    BY <1>2, <1>3
  <2>2. QED BY <1>6, <1>7, <2>1, CutSame DEF n
<1>9. \A j \in 1..Len(r) : j \in 1..n /\ r[j] = t[j]
  BY <1>2, <1>3, <1>4
<1>10. QED BY <1>1, <1>5, <1>8, <1>9 DEF n

\* kawn's table where there was none.
LEMMA InsertGives ==
  ASSUME NEW t, IsText(t), ~hasTomlTable(t, TABLE)
  PROVE  Upserted(t, upsertTomlTable(t, TABLE, Block))
<1> DEFINE r == Trimmed(t)
           u == upsertTomlTable(t, TABLE, Block)
<1>0. Nothing \in Lines /\ Nothing \in Blank /\ Nothing # TABLE
  BY Spelling DEF KawnTables
<1>1. /\ IsText(r) /\ RestOfText(r) = RestOfText(t)
      /\ Once(r, LEGACY_TABLE) <=> Once(t, LEGACY_TABLE)
      /\ \A j \in 1..Len(r) : j \in 1..Len(t) /\ r[j] = t[j]
  BY TrimGives
<1>2. \A j \in 1..Len(r) : r[j] # TABLE
  BY <1>1, TextLines DEF hasTomlTable
<1>3. CASE r = <<Nothing>>
  <2>1. u = Block \o <<Nothing>>
    BY <1>3, Zenon DEF upsertTomlTable
  <2> DEFINE s == <<>>
  <2>2. s \in Seq(Lines) /\ Len(s) = 0
    OBVIOUS
  <2>3. <<Nothing>> \in Seq(Lines) /\ s \o Block = Block
    <3>1. <<TABLE, OwnLine>> \in Seq(Lines)
      BY Spelling, PairIs DEF KawnTables
    <3>2. Block \in Seq(Lines)
      BY <3>1 DEF Block, OwnLine
    <3>3. s \o Block = Block
      BY <3>2
    <3>4. QED BY <1>0, <3>3
  <2>4. Around(s \o Block \o <<Nothing>>, s, <<Nothing>>)
    <3> HIDE DEF s
    <3>1. QED BY <2>2, <2>3, BlockIs
  <2>5. Around(u, s, <<Nothing>>)
    <3> HIDE DEF s, u
    <3>1. QED BY <2>1, <2>3, <2>4
  <2>6. \A j \in 1..Len(s) : s[j] # TABLE /\ s[j] \in Blank
    BY <2>2
  <2> HIDE DEF s, u, r
  <2>7. RestOfText(s) = <<>>
    BY <2>2, <2>6, NoRest
  <2>8. RestOfText(r) = <<>>
    BY <1>3, EmptyLine
  <2>9. Once(s, LEGACY_TABLE)
    BY <2>2 DEF Once
  <2>10. /\ IsText(u) /\ hasTomlTable(u, TABLE) /\ Once(u, TABLE) /\ Whole(u)
         /\ RestOfText(u) = RestOfText(s)
         /\ Once(s, LEGACY_TABLE) => Once(u, LEGACY_TABLE)
    BY <2>2, <2>5, <2>6, AppendedGives
  <2>11. QED BY <1>1, <2>7, <2>8, <2>9, <2>10 DEF Upserted, u
<1>4. CASE r # <<Nothing>>
  <2> DEFINE s == r \o <<Nothing>>
             m == Len(r)
  <2>1. u = s \o Block \o <<Nothing>>
    BY <1>4, Zenon DEF upsertTomlTable
  <2> HIDE DEF u, r
  <2>2. r \in Seq(Lines) /\ <<Nothing>> \in Seq(Lines) /\ Len(<<Nothing>>) = 1 /\ <<Nothing>>[1] = Nothing
    BY <1>0, <1>1 DEF IsText
  <2>3. /\ s \in Seq(Lines) /\ m \in Nat /\ Len(s) = m + 1
        /\ \A j \in 1..m : s[j] = r[j]
        /\ s[m + 1] = Nothing
    <3> DEFINE e == <<Nothing>>
    <3> HIDE DEF e
    <3>1. e \in Seq(Lines) /\ Len(e) = 1 /\ e[1] = Nothing
      BY <2>2 DEF e
    <3>2. /\ r \o e \in Seq(Lines) /\ m \in Nat /\ Len(r \o e) = m + Len(e)
          /\ \A j \in 1..m : (r \o e)[j] = r[j]
          /\ \A j \in 1..Len(e) : (r \o e)[m + j] = e[j]
      BY <2>2, <3>1, JoinIs
    <3>3. (r \o e)[m + 1] = Nothing /\ Len(r \o e) = m + 1
      BY <3>1, <3>2
    <3>4. QED BY <3>2, <3>3 DEF e
  <2>4. Around(u, s, <<Nothing>>)
    <3> HIDE DEF s
    <3>1. QED BY <2>1, <2>2, <2>3, BlockIs
  <2> HIDE DEF s, m
  <2>5. \A j \in 1..Len(s) : s[j] # TABLE
    <3> TAKE j \in 1..Len(s)
    <3>1. j \in 1..m \/ j = m + 1
      BY <2>3
    <3>2. QED BY <1>0, <1>2, <2>3, <3>1 DEF m
  <2>6. IsText(s)
    <3>1. Len(s) # 0
      BY <2>3
    <3>2. QED BY <2>3, <3>1 DEF IsText
  <2>7. CutAt(s, r, m + 1, m + 2)
    <3>1. Len(r) = Len(s) - ((m + 2) - (m + 1)) /\ \A j \in 1..((m + 1) - 1) : r[j] = s[j]
      BY <2>3 DEF m
    <3>2. Len(s) + 1 - (m + 2) = 0
      BY <2>3
    <3>3. \A j \in 1..(Len(s) + 1 - (m + 2)) : r[(m + 1) - 1 + j] = s[(m + 2) - 1 + j]
      BY <3>2
    <3>4. QED BY <2>2, <3>1, <3>3 DEF CutAt
  <2>8. BlankOut(s, (1..Len(s)) \ ((m + 1)..((m + 2) - 1)))
    BY <1>0, <2>3 DEF BlankOut
  <2>9. RestOfText(r) = RestOfText(s) /\ (Once(r, LEGACY_TABLE) <=> Once(s, LEGACY_TABLE))
    <3>1. m + 1 \in 1..(Len(s) + 1) /\ m + 2 \in (m + 1)..(Len(s) + 1)
      BY <2>3
    <3>2. QED BY <2>6, <2>7, <2>8, <3>1, CutSame
  <2>10. /\ IsText(u) /\ hasTomlTable(u, TABLE) /\ Once(u, TABLE) /\ Whole(u)
         /\ RestOfText(u) = RestOfText(s)
         /\ Once(s, LEGACY_TABLE) => Once(u, LEGACY_TABLE)
    BY <2>3, <2>4, <2>5, AppendedGives
  <2>11. QED BY <1>1, <2>9, <2>10 DEF Upserted, u
<1>5. QED BY <1>3, <1>4

\* The text setup writes: kawn's table, no former one, the rest as it was.
LEMMA NextGives ==
  ASSUME NEW t, IsText(t), Once(t, TABLE), Once(t, LEGACY_TABLE)
  PROVE  LET s == NextSource(t)
         IN /\ IsText(s) /\ hasTomlTable(s, TABLE) /\ ~hasTomlTable(s, LEGACY_TABLE)
            /\ Once(s, TABLE) /\ Whole(s) /\ RestOfText(s) = RestOfText(t)
<1> DEFINE u == upsertTomlTable(t, TABLE, Block)
<1>1. Upserted(t, u)
  BY ReplaceGives, InsertGives
<1>2. NextSource(t) = removeTomlTable(u, LEGACY_TABLE)
  BY DEF NextSource
<1> HIDE DEF u
<1>3. TABLE \in KawnTables \ {LEGACY_TABLE} /\ LEGACY_TABLE \in KawnTables /\ TABLE \in KawnTables
  BY Spelling DEF KawnTables
<1>4. QED BY <1>1, <1>2, <1>3, RemoveGives DEF Upserted

\* A file ends in a newline.
LEMMA EndedGives ==
  ASSUME NEW s, IsText(s)
  PROVE  LET e == Ended(s)
         IN /\ IsText(e) /\ RestOfText(e) = RestOfText(s)
            /\ \A h \in KawnTables : /\ hasTomlTable(e, h) <=> hasTomlTable(s, h)
                                     /\ Once(s, h) => Once(e, h)
            /\ Whole(s) => Whole(e)
<1> DEFINE n == Len(s)
           e == Append(s, Nothing)
<1>0. Nothing \in Lines /\ Nothing \in Blank /\ Nothing \notin Headers /\ KawnTables \subseteq Headers
  BY Spelling
<1>1. CASE Ended(s) = s
  BY <1>1
<1>2. CASE Ended(s) # s
  <2>1. Ended(s) = e
    BY <1>2 DEF Ended
  <2>2. n \in Nat \ {0} /\ s \in Seq(Lines) /\ DOMAIN s = 1..n
    BY TextLines DEF IsText
  <2>3. /\ e \in Seq(Lines) /\ Len(e) = n + 1
        /\ \A j \in 1..n : e[j] = s[j]
        /\ e[n + 1] = Nothing
    BY <1>0, <2>2, AppendIs
  <2> HIDE DEF e, n
  <2>4. IsText(e)
    <3>1. Len(e) # 0
      BY <2>2, <2>3
    <3>2. QED BY <2>3, <3>1 DEF IsText
  <2>5. CutAt(e, s, n + 1, n + 2)
    <3>1. Len(s) = Len(e) - ((n + 2) - (n + 1)) /\ \A j \in 1..((n + 1) - 1) : s[j] = e[j]
      BY <2>2, <2>3 DEF n
    <3>2. Len(e) + 1 - (n + 2) = 0
      BY <2>2, <2>3
    <3>3. \A j \in 1..(Len(e) + 1 - (n + 2)) : s[(n + 1) - 1 + j] = e[(n + 2) - 1 + j]
      BY <3>2
    <3>4. QED BY <2>2, <3>1, <3>3 DEF CutAt
  <2>6. BlankOut(e, (1..Len(e)) \ ((n + 1)..((n + 2) - 1)))
    BY <1>0, <2>2, <2>3 DEF BlankOut
  <2>7. RestOfText(s) = RestOfText(e)
    <3>1. n + 1 \in 1..(Len(e) + 1) /\ n + 2 \in (n + 1)..(Len(e) + 1)
      BY <2>2, <2>3
    <3>2. QED BY <2>4, <2>5, <2>6, <3>1, CutSame
  <2>8. \A i \in 1..Len(e) : i \in 1..n \/ i = n + 1
    BY <2>2, <2>3
  <2>9. ASSUME NEW h \in KawnTables
        PROVE  /\ hasTomlTable(e, h) <=> hasTomlTable(s, h)
               /\ Once(s, h) => Once(e, h)
    <3>1. \A i \in 1..Len(e) : e[i] = h => i \in 1..n /\ s[i] = h
      BY <1>0, <2>3, <2>8
    <3>2. \A i \in 1..n : s[i] = h => i \in 1..Len(e) /\ e[i] = h
      BY <2>2, <2>3
    <3>3. DOMAIN e = 1..Len(e)
      BY <2>3
    <3>4. hasTomlTable(e, h) <=> hasTomlTable(s, h)
      BY <2>2, <3>1, <3>2, <3>3 DEF hasTomlTable
    <3>5. Once(s, h) => Once(e, h)
      BY <3>1 DEF Once, n
    <3>6. QED BY <3>4, <3>5
  <2>10. ASSUME Whole(s) PROVE Whole(e)
    <3> SUFFICES ASSUME NEW i \in 1..Len(e)
                 PROVE  /\ e[i] = TABLE => i < Len(e) /\ e[i + 1] = OwnLine
                        /\ Open(e, i, TABLE) => \/ e[i] \in Blank \cup {TABLE}
                                                \/ e[i] = OwnLine /\ i > 1 /\ e[i - 1] = TABLE
      BY DEF Whole
    <3>1. CASE i = n + 1
      <4>1. e[i] \in Blank /\ e[i] # TABLE
        BY <1>0, <2>3, <3>1 DEF KawnTables
      <4>2. QED BY <4>1
    <3>2. CASE i \in 1..n
      <4>1. /\ s[i] = TABLE => i < n /\ s[i + 1] = OwnLine
            /\ Open(s, i, TABLE) => \/ s[i] \in Blank \cup {TABLE}
                                    \/ s[i] = OwnLine /\ i > 1 /\ s[i - 1] = TABLE
        BY <2>10, <3>2 DEF Whole, n
      <4>2. \A j \in 1..i : e[j] = s[j]
        BY <2>2, <2>3, <3>2
      <4>3. Open(e, i, TABLE) => Open(s, i, TABLE)
        BY <2>2, <3>2, <4>2 DEF Open
      <4>4. i < n => e[i + 1] = s[i + 1] /\ i < Len(e)
        BY <2>2, <2>3, <3>2
      <4>5. i > 1 => e[i - 1] = s[i - 1]
        BY <2>2, <2>3, <3>2
      <4>6. QED BY <4>1, <4>2, <4>3, <4>4, <4>5, <3>2, <2>2
    <3>3. QED BY <2>8, <3>1, <3>2
  <2> HIDE DEF e
  <2>11. QED BY <2>1, <2>4, <2>7, <2>9, <2>10
<1>3. QED BY <1>1, <1>2

-----------------------------------------------------------------------------
(* Both edits, on every text                                               *)

\* A text that has kawn's table whole, and no former one, is left as it is.
LEMMA WholeIsInstalled ==
  ASSUME NEW t, IsText(t), hasTomlTable(t, TABLE), Once(t, TABLE), ~hasTomlTable(t, LEGACY_TABLE), Whole(t)
  PROVE  NextSource(t) = t /\ AlreadyInstalled(t)
<1> DEFINE n == Len(t)
           a == Start(t, TABLE)
           b == End(t, a)
           last == Max({i \in a..b - 1 : t[i] \notin Blank})
           s == SubSeq(t, 1, a - 1)
           e == SubSeq(t, last + 1, n)
           u == s \o Block \o e
<1>1. upsertTomlTable(t, TABLE, Block) = u
  BY Zenon DEF upsertTomlTable
<1>2. n \in Nat \ {0} /\ a \in 1..n /\ t[a] = TABLE
  BY TextLines, StartIs
<1>3. /\ b \in (a + 1)..(n + 1)
      /\ \A k \in (a + 1)..(b - 1) : t[k] \notin Headers
      /\ b <= n => t[b] \in Headers
  BY <1>2, EndIs
<1>4. /\ TABLE \in Headers /\ TABLE \notin Blank /\ OwnLine \notin Headers /\ OwnLine \notin Blank
  BY Spelling DEF KawnTables
<1> HIDE DEF n, a, b
<1>5. a < n /\ t[a + 1] = OwnLine
  BY <1>2 DEF Whole, n
<1>6. a + 1 \in a..(b - 1)
  BY <1>2, <1>3, <1>4, <1>5
<1>7. ASSUME NEW k \in (a + 2)..(b - 1) PROVE t[k] \in Blank
  <2>1. k \in 1..n /\ k \in Nat /\ a \in Nat \ {0} /\ a <= k /\ \A l \in (a + 1)..k : l \in (a + 1)..(b - 1)
    BY <1>2, <1>3
  <2>2. Open(t, k, TABLE)
    BY <1>2, <1>3, <2>1, TableOpen
  <2>3. t[k] \in Blank \cup {TABLE} \/ t[k - 1] = TABLE
    BY <2>1, <2>2 DEF Whole, n
  <2>4. t[k] # TABLE /\ t[k - 1] # TABLE
    <3>1. k \in (a + 1)..(b - 1) /\ k - 1 \in (a + 1)..(b - 1)
      BY <1>2, <1>3
    <3>2. QED BY <1>3, <1>4, <3>1
  <2>5. QED BY <2>3, <2>4
<1>8. last = a + 1
  <2> DEFINE S == {i \in a..b - 1 : t[i] \notin Blank}
  <2>1. last = Max(S)
    OBVIOUS
  <2>2. b - 1 \in Nat /\ S \subseteq 0..(b - 1) /\ a + 1 \in S
    BY <1>2, <1>3, <1>4, <1>5, <1>6
  <2>3. last \in S /\ \A m \in S : m <= last
    <3> HIDE DEF S, last
    <3>1. QED BY <2>1, <2>2, GreatestIs
  <2> HIDE DEF last
  <2>4. last \in a..(b - 1) /\ t[last] \notin Blank /\ a + 1 <= last
    BY <2>2, <2>3
  <2>5. last \notin (a + 2)..(b - 1)
    BY <1>7, <2>4
  <2>6. QED BY <1>2, <1>3, <2>4, <2>5
<1> HIDE DEF last
<1>9. /\ s \in Seq(Lines) /\ Len(s) = a - 1 /\ \A j \in 1..(a - 1) : s[j] = t[j]
      /\ e \in Seq(Lines) /\ Len(e) = n - (a + 1) /\ \A j \in 1..(n - (a + 1)) : e[j] = t[a + 1 + j]
  <2>1. a \in 1..(n + 1) /\ last + 1 \in 1..(n + 1)
    BY <1>2, <1>5, <1>8
  <2>2. /\ s \in Seq(Lines) /\ Len(s) = a - 1 /\ \A j \in 1..(a - 1) : s[j] = t[j]
        /\ e \in Seq(Lines) /\ Len(e) = n + 1 - (last + 1)
        /\ \A j \in 1..(n + 1 - (last + 1)) : e[j] = t[(last + 1) - 1 + j]
    BY <2>1, PartsAre DEF n
  <2>3. n + 1 - (last + 1) = n - (a + 1) /\ (last + 1) - 1 = a + 1
    BY <1>2, <1>5, <1>8
  <2> HIDE DEF s, e
  <2>4. QED BY <2>2, <2>3
<1>10. Around(u, s, e)
  BY <1>9, BlockIs
<1> HIDE DEF s, e, u
<1>11. /\ u \in Seq(Lines) /\ Len(u) = n
       /\ \A j \in 1..(a - 1) : u[j] = t[j]
       /\ u[a] = TABLE /\ u[a + 1] = OwnLine
       /\ \A j \in 1..(n - (a + 1)) : u[a + 1 + j] = t[a + 1 + j]
  <2>1. a - 1 \in Nat /\ (a - 1) + 1 = a /\ (a - 1) + 2 = a + 1 /\ (a - 1) + 2 + (n - (a + 1)) = n
    BY <1>2
  <2>2. /\ u \in Seq(Lines) /\ Len(u) = (a - 1) + 2 + (n - (a + 1))
        /\ \A j \in 1..(a - 1) : u[j] = s[j]
        /\ u[(a - 1) + 1] = TABLE /\ u[(a - 1) + 2] = OwnLine
        /\ \A j \in 1..(n - (a + 1)) : u[(a - 1) + 2 + j] = e[j]
    BY <1>9, <1>10 DEF Around
  <2>3. QED BY <1>9, <2>1, <2>2
<1>12. \A i \in 1..n : u[i] = t[i]
  <2> TAKE i \in 1..n
  <2>1. CASE i \in 1..(a - 1)
    BY <1>11, <2>1
  <2>2. CASE i = a \/ i = a + 1
    BY <1>2, <1>5, <1>11, <2>2
  <2>3. CASE i - (a + 1) \in 1..(n - (a + 1))
    <3>1. a + 1 + (i - (a + 1)) = i
      BY <1>2
    <3>2. QED BY <1>11, <2>3, <3>1
  <2>4. i \in 1..(a - 1) \/ i = a \/ i = a + 1 \/ i - (a + 1) \in 1..(n - (a + 1))
    BY <1>2
  <2>5. QED BY <2>1, <2>2, <2>3, <2>4
<1>13. u = t
  <2>1. t \in Seq(Lines) /\ Len(t) = n
    BY DEF IsText, n
  <2>2. QED BY <1>11, <1>12, <2>1
<1>14. NextSource(t) = t
  BY <1>1, <1>13 DEF NextSource, removeTomlTable
<1>15. QED BY <1>14 DEF AlreadyInstalled

LEMMA TextMerges ==
  ASSUME NEW text \in Seq(Lines), text # <<>>
  PROVE  EditsMerge(text)
<1> SUFFICES ASSUME IsToml(text)
             PROVE  LET installed == CodexInstall(text)
                        removed   == CodexUninstall(text)
                    IN /\ hasTomlTable(installed, TABLE) /\ ~hasTomlTable(installed, LEGACY_TABLE)
                       /\ AlreadyInstalled(installed)
                       /\ \A h \in {TABLE, LEGACY_TABLE} : ~hasTomlTable(removed, h)
                       /\ RestOfText(installed) = RestOfText(text)
                       /\ RestOfText(removed) = RestOfText(text)
  BY Zenon DEF EditsMerge
<1>1. IsText(text) /\ DOMAIN text = 1..Len(text)
  BY DEF IsText
<1>2. Once(text, TABLE) /\ Once(text, LEGACY_TABLE)
  BY <1>1, Zenon DEF IsToml, Once
<1>3. TABLE \in KawnTables /\ LEGACY_TABLE \in KawnTables /\ TABLE # LEGACY_TABLE
  BY Spelling DEF KawnTables
<1> DEFINE s == NextSource(text)
           installed == CodexInstall(text)
           removed == CodexUninstall(text)
<1>4. /\ IsText(s) /\ hasTomlTable(s, TABLE) /\ ~hasTomlTable(s, LEGACY_TABLE)
      /\ Once(s, TABLE) /\ Whole(s) /\ RestOfText(s) = RestOfText(text)
  BY <1>1, <1>2, NextGives
<1>5. /\ hasTomlTable(installed, TABLE) /\ ~hasTomlTable(installed, LEGACY_TABLE)
      /\ AlreadyInstalled(installed) /\ RestOfText(installed) = RestOfText(text)
  <2>1. CASE AlreadyInstalled(text)
    <3>1. installed = text /\ s = text
      BY <2>1 DEF CodexInstall, AlreadyInstalled
    <3> HIDE DEF installed, s
    <3>2. QED BY <1>4, <2>1, <3>1
  <2>2. CASE ~AlreadyInstalled(text)
    <3>1. installed = Ended(s)
      BY <2>2 DEF CodexInstall
    <3> HIDE DEF installed, s
    <3>2. /\ IsText(installed) /\ RestOfText(installed) = RestOfText(s)
          /\ \A h \in KawnTables : /\ hasTomlTable(installed, h) <=> hasTomlTable(s, h)
                                   /\ Once(s, h) => Once(installed, h)
          /\ Whole(s) => Whole(installed)
      BY <1>4, <3>1, EndedGives, Zenon
    <3>3. /\ hasTomlTable(installed, TABLE) /\ ~hasTomlTable(installed, LEGACY_TABLE)
          /\ Once(installed, TABLE) /\ Whole(installed)
      BY <1>3, <1>4, <3>2, Zenon
    <3>4. AlreadyInstalled(installed)
      BY <3>2, <3>3, WholeIsInstalled, Zenon
    <3>5. QED BY <1>4, <3>2, <3>3, <3>4, Zenon
  <2>3. QED BY <2>1, <2>2
<1>6. /\ \A h \in {TABLE, LEGACY_TABLE} : ~hasTomlTable(removed, h)
      /\ RestOfText(removed) = RestOfText(text)
  <2> DEFINE half == removeTomlTable(text, TABLE)
             edited == removeTomlTable(half, LEGACY_TABLE)
  <2>1. removed = IF {edited[i] : i \in DOMAIN edited} \subseteq Blank THEN <<Nothing>>
                  ELSE Ended(edited)
    BY Zenon DEF CodexUninstall
  <2>2. /\ IsText(half) /\ ~hasTomlTable(half, TABLE) /\ RestOfText(half) = RestOfText(text)
        /\ Once(half, LEGACY_TABLE)
    BY <1>1, <1>2, <1>3, RemoveGives
  <2> HIDE DEF half
  <2>3. /\ IsText(edited) /\ ~hasTomlTable(edited, LEGACY_TABLE) /\ ~hasTomlTable(edited, TABLE)
        /\ RestOfText(edited) = RestOfText(half)
    BY <1>3, <2>2, RemoveGives
  <2> HIDE DEF edited, removed
  <2>4. CASE {edited[i] : i \in DOMAIN edited} \subseteq Blank
    <3>1. removed = <<Nothing>>
      BY <2>1, <2>4
    <3>2. RestOfText(edited) = <<>>
      <4>1. edited \in Seq(Lines) /\ \A i \in 1..Len(edited) : edited[i] \in Blank
        BY <2>3, <2>4, TextLines DEF IsText
      <4>2. QED BY <4>1, NoRest
    <3>3. QED BY <1>3, <2>2, <2>3, <3>1, <3>2, EmptyLine, Spelling
  <2>5. CASE ~({edited[i] : i \in DOMAIN edited} \subseteq Blank)
    <3>1. removed = Ended(edited)
      BY <2>1, <2>5
    <3>2. /\ RestOfText(removed) = RestOfText(edited)
          /\ \A h \in KawnTables : hasTomlTable(removed, h) <=> hasTomlTable(edited, h)
      BY <2>3, <3>1, EndedGives, Zenon
    <3>3. ~hasTomlTable(removed, TABLE) /\ ~hasTomlTable(removed, LEGACY_TABLE)
      BY <1>3, <2>3, <3>2, Zenon
    <3>4. QED BY <2>2, <2>3, <3>2, <3>3, Zenon
  <2>6. QED BY <2>4, <2>5
<1>7. QED BY <1>5, <1>6

\* kawn's edits of Codex' configuration are what the model of the commands takes them
\* for, on every text that TOML allows: installing leaves one table, kawn's own, and no
\* former one, uninstalling leaves neither, both leave the lines of other tables as they
\* were and in their order, and what is installed is recognised and left alone.
THEOREM EditsMergeForAll == \A n \in Nat \ {0} : \A text \in [1..n -> Lines] : EditsMerge(text)
<1> TAKE n \in Nat \ {0}
<1> TAKE text \in [1..n -> Lines]
<1>1. text \in Seq(Lines)
  OBVIOUS
<1>2. text # <<>>
  <2>1. DOMAIN text # {}
    OBVIOUS
  <2>2. QED BY <2>1
<1>3. QED BY <1>1, <1>2, TextMerges
=============================================================================

---------------------------- MODULE AgentConfig -----------------------------
(***************************************************************************)
(* `kawn setup`, `kawn connect` and `kawn disconnect`: commands that edit  *)
(* the configuration files of coding agents, keep a copy of what they      *)
(* replace under .kawn/backups, and keep the book of what they installed   *)
(* in .kawn/integrations.json.                                             *)
(*                                                                         *)
(* There are two kinds of adapter.  One merges an entry named `kawn` into  *)
(* a file that belongs to the user (claude, cursor, copilot, gemini,       *)
(* codex); the other owns its file whole (aider, generic, local).          *)
(*                                                                         *)
(* Each command reads the file, reads the book, copies the file, replaces  *)
(* it by a rename, and then reads and replaces the book.  No lock is held: *)
(* the user, another command or a crash may come between any two steps.    *)
(* Nor is every error one that stops a command: a file that cannot be read *)
(* passes for none, a copy that cannot be made is done without, and a file *)
(* that cannot be removed is left where it is.                             *)
(* A command that names several agents is this command once for each.      *)
(***************************************************************************)
EXTENDS Naturals, Sequences

CONSTANTS
  Agents,       \* adapters in use
  Owned,        \* those that own their file (makeOwnedFileAdapter)
  Launches,     \* entries, or whole owned files, that a build of kawn writes
  Rests,        \* what else a configuration file may hold
  Bare,         \* nothing else
  UserFiles,    \* per agent: what a user may put into its file by hand
  Procs,        \* commands that may run at a time
  MaxCommands,  \* bound on the commands run
  MaxEdits,     \* bound on the steps of the user
  None,         \* no entry of that name
  Foreign,      \* an entry named `kawn` that no build of kawn wrote
  Unmanaged,    \* one in a form that is never edited: inline, or no object
  Absent,       \* no file
  Garbled,      \* a file that does not parse
  Alien,        \* a file that parses, to something that is no object
  NoRecord,     \* the book does not list the agent
  NoTrip        \* see `trip`

Config == [kawn   : Launches \cup {None, Foreign, Unmanaged},
           legacy : BOOLEAN,     \* an entry under the former name, `athar`
           rest   : Rests]

FileState == Config \cup {Absent, Garbled, Alien}

\* A record says which copy of the file as it was belongs to the installation;
\* 0 stands for none: kawn created the file.
Book == [Agents -> Nat \cup {NoRecord}]

ASSUME AgentAssumption ==
  /\ Owned \subseteq Agents
  /\ Bare \in Rests
  /\ UserFiles \in [Agents -> SUBSET FileState]
  /\ MaxCommands \in Nat /\ MaxEdits \in Nat
  /\ {None, Foreign, Unmanaged} \cap Launches = {}
  /\ None # Foreign /\ None # Unmanaged /\ Foreign # Unmanaged
  /\ {Absent, Garbled, Alien} \cap Config = {}
  /\ Absent # Garbled /\ Absent # Alien /\ Garbled # Alien
  /\ NoRecord \notin Nat
  /\ NoTrip \notin [from : FileState, installs : {1, 2}]

VARIABLES
  file,      \* the configuration file of every agent
  records,   \* .kawn/integrations.json
  backups,   \* .kawn/backups, in the order taken; Absent when removed since
  proc,      \* the memory of every command
  begun,     \* how many commands have been run so far
  edits,     \* how often the user has lent a hand so far
  \* history variables
  alone,     \* per command: it has had the project to itself so far, and
             \* nothing it tried has failed
  since,     \* per command: what has come between the file and what it read
  trip,      \* per agent: what the first of its installations found
  gone       \* per agent: what the last lone disconnect, run to its end, did

diskVars == <<file, records, backups>>
vars == <<file, records, backups, proc, begun, edits, alone, since, trip, gone>>

-----------------------------------------------------------------------------
(* What a command makes of a file                                          *)

\* The whole file of an owned adapter.
Ours(v) == [kawn |-> v, legacy |-> FALSE, rest |-> Bare]

RestOf(f) == IF f \in Config THEN f.rest ELSE Bare

\* mergeEntry: ours goes in, the former name goes out, the rest stays.
Merged(f, v) == [kawn |-> v, legacy |-> FALSE, rest |-> RestOf(f)]

\* A fault: disconnect forgets the former name.
StrippedOfKawn(f) ==
  [kawn   |-> IF f \in Config /\ f.kawn = Unmanaged THEN Unmanaged ELSE None,
   legacy |-> f \in Config /\ f.legacy,
   rest   |-> RestOf(f)]

\* Both names go out.  An entry in a form kawn does not edit stays.
Stripped(f) ==
  [kawn   |-> IF f \in Config /\ f.kawn = Unmanaged THEN Unmanaged ELSE None,
   legacy |-> FALSE,
   rest   |-> RestOf(f)]

Empty == [kawn |-> None, legacy |-> FALSE, rest |-> Bare]

HasOurs(f) == f \in Config /\ (f.kawn \notin {None, Unmanaged} \/ f.legacy)

Installed(f, v) == f \in Config /\ f.kawn = v /\ ~f.legacy

\* The refusals of planJsonMcp and of Codex' plan.  Codex' file is edited as
\* text, and is neither Garbled nor Alien.
Blocked(f, v, rec, force) ==
  \/ f = Garbled
  \/ /\ f \in Config
     /\ \/ f.kawn = Unmanaged
        \/ f.kawn \notin {None, v} /\ rec = NoRecord /\ ~force

-----------------------------------------------------------------------------
(* Processes                                                               *)

Stages == {"idle", "read", "record", "backup", "write", "readBook", "writeBook"}

Idle == [stage |-> "idle", cmd |-> "none", agent |-> NoRecord, want |-> None,
         force |-> FALSE, read |-> Absent, rec |-> NoRecord, saved |-> 0,
         book |-> [a \in Agents |-> NoRecord]]

At(p, s) == proc[p].stage = s

\* p goes on with memory m.  Nothing is remembered of a command that ended.
Move(p, m, ok) == /\ proc' = [proc EXCEPT ![p] = m]
                  /\ alone' = [alone EXCEPT ![p] = @ /\ m # Idle /\ ok]

Begin(p, cmd, a, v, force) ==
  /\ At(p, "idle")
  /\ begun < MaxCommands
  /\ begun' = begun + 1
  /\ proc' = [proc EXCEPT ![p] =
       [Idle EXCEPT !.cmd = cmd, !.agent = a, !.want = v, !.force = force,
          !.stage = IF cmd = "disconnect" /\ a \in Owned THEN "record" ELSE "read"]]
  /\ alone' = [q \in Procs |-> q = p /\ \A r \in Procs \ {p} : At(r, "idle")]
  /\ UNCHANGED <<diskVars, edits, since, trip, gone>>

\* Where a command goes once it has read the file: "idle" is its end.
AfterRead(m, f) ==
  IF m.cmd = "setup"
    THEN IF m.agent \notin Owned THEN "record"
         ELSE IF f = Ours(m.want) THEN "idle" ELSE "backup"
    ELSE IF m.agent \notin Owned THEN IF HasOurs(f) THEN "backup" ELSE "idle"
         ELSE IF f = Absent THEN "idle" ELSE "write"

\* readJsonFile, readSource, existsSync: a file that cannot be read passes for
\* one that is not there.  `since` says what the command still knows of it.
ReadFile(p) ==
  LET m == proc[p]
      a == m.agent
  IN /\ At(p, "read")
     /\ \E f \in {file[a], Absent} :
          LET next == AfterRead(m, f)
              ok   == f = file[a]
          IN /\ Move(p, IF next = "idle" THEN Idle
                        ELSE [m EXCEPT !.read = f, !.stage = next], ok)
             /\ since' = [since EXCEPT ![p] = IF next # "idle" /\ ok THEN "nobody"
                                              ELSE "lost"]
             /\ gone' = [gone EXCEPT ![a] =
                  IF /\ next = "idle" /\ m.cmd = "disconnect" /\ alone[p] /\ ok
                     /\ @ # "removed"
                  THEN "nothing" ELSE @]
     /\ UNCHANGED <<diskVars, begun, edits, trip>>

AfterRecord(m, rec) ==
  IF m.cmd = "disconnect" THEN IF m.agent \in Owned THEN "read" ELSE "write"
  ELSE IF Blocked(m.read, m.want, rec, m.force) \/ Installed(m.read, m.want)
    THEN "idle" ELSE "backup"

\* getIntegration.  A book that cannot be read is an empty one.
ReadRecord(p) ==
  LET m == proc[p]
  IN /\ At(p, "record")
     /\ \E rec \in {records[m.agent], NoRecord} :
          LET next == AfterRecord(m, rec)
              ok   == rec = records[m.agent]
          IN IF next = "idle"
               THEN Move(p, Idle, ok) /\ since' = [since EXCEPT ![p] = "lost"]
               ELSE /\ Move(p, [m EXCEPT !.stage = next, !.force = FALSE,
                                 !.rec = IF m.cmd = "setup" THEN NoRecord ELSE rec],
                            ok)
                    /\ UNCHANGED since
     /\ UNCHANGED <<diskVars, begun, edits, trip, gone>>

\* What a copy, taken or not, makes of the memory of a command.
Copied(m, saved) == IF m.cmd = "disconnect" THEN [m EXCEPT !.stage = "record"]
                    ELSE [m EXCEPT !.stage = "write", !.saved = saved]

\* A fault: a file that is on record is not copied again.
BackupOnce(p) ==
  LET m     == proc[p]
      taken == file[m.agent] # Absent /\ records[m.agent] = NoRecord
  IN /\ At(p, "backup")
     /\ backups' = IF taken THEN Append(backups, file[m.agent]) ELSE backups
     /\ Move(p, Copied(m, IF taken THEN Len(backups) + 1 ELSE 0), TRUE)
     /\ UNCHANGED <<file, records, begun, edits, since, trip, gone>>

\* backupFile reads the file for itself, and takes no copy of what it cannot
\* read.  An owned adapter calls it only if the file was there when the command
\* looked.
Backup(p) ==
  LET m    == proc[p]
      want == file[m.agent] # Absent /\ (m.agent \in Owned => m.read # Absent)
  IN /\ At(p, "backup")
     /\ \E taken \in {want, FALSE} :
          /\ backups' = IF taken THEN Append(backups, file[m.agent]) ELSE backups
          /\ Move(p, Copied(m, IF taken THEN Len(backups) + 1 ELSE 0), taken = want)
          /\ since' = [since EXCEPT ![p] =
               IF taken # want /\ @ = "nobody" THEN "uncopied" ELSE @]
     /\ UNCHANGED <<file, records, begun, edits, trip, gone>>

\* The copy a record names, if it is still there.
Saved(rec) == IF rec \in DOMAIN backups THEN backups[rec] ELSE Absent

\* A fault: a file kawn created is removed with all that has come into it.
OutcomeCreated(m) ==
  IF m.cmd = "setup"
    THEN IF m.agent \in Owned THEN Ours(m.want) ELSE Merged(m.read, m.want)
    ELSE IF m.agent \in Owned THEN Saved(m.rec)
         ELSE IF m.rec = 0 THEN Absent ELSE Stripped(m.read)

\* A fault: an empty file is removed although kawn did not create it.
OutcomeEmpty(m) ==
  IF m.cmd = "setup"
    THEN IF m.agent \in Owned THEN Ours(m.want) ELSE Merged(m.read, m.want)
    ELSE IF m.agent \in Owned THEN Saved(m.rec)
         ELSE IF Stripped(m.read) = Empty THEN Absent ELSE Stripped(m.read)

\* What the command puts in the place of the file.
Outcome(m) ==
  IF m.cmd = "setup"
    THEN IF m.agent \in Owned THEN Ours(m.want) ELSE Merged(m.read, m.want)
    ELSE IF m.agent \in Owned THEN Saved(m.rec)
         ELSE IF m.rec = 0 /\ Stripped(m.read) = Empty THEN Absent
              ELSE Stripped(m.read)

\* For `trip`: the file before the first of a row of lone installations.
Trip(p) ==
  LET m       == proc[p]
      t       == trip[m.agent]
      removed == gone[m.agent] = "removed"
  IN IF ~alone[p] THEN NoTrip
     ELSE IF m.cmd = "disconnect" THEN IF removed THEN NoTrip ELSE t
     ELSE IF t = NoTrip \/ removed THEN [from |-> m.read, installs |-> 1]
     ELSE [t EXCEPT !.installs = 2]

\* atomicWriteFile: a temporary, and a rename.  removeFileIfExists may leave
\* the file, and says so to nobody.
Write(p) ==
  LET m   == proc[p]
      a   == m.agent
      out == Outcome(m)
  IN /\ At(p, "write")
     /\ \E f \in {out} \cup IF out = Absent THEN {file[a]} ELSE {} :
          /\ file' = [file EXCEPT ![a] = f]
          /\ trip' = [trip EXCEPT ![a] = IF f = out THEN Trip(p) ELSE NoTrip]
          /\ Move(p, [Idle EXCEPT !.stage = "readBook", !.agent = a,
                                  !.cmd = m.cmd, !.saved = m.saved], f = out)
     /\ since' = [q \in Procs |->
          IF q = p THEN "lost"
          ELSE IF proc[q].agent # a \/ since[q] = "lost" THEN since[q]
          ELSE IF since[p] = "lost" THEN "lost" ELSE "commands"]
     /\ gone' = [gone EXCEPT ![a] = "no"]
     /\ UNCHANGED <<records, backups, begun, edits>>

\* upsertIntegration, removeIntegrationRecord: the whole book is read, and
ReadBook(p) ==
  /\ At(p, "readBook")
  /\ \E book \in {records, [a \in Agents |-> NoRecord]} :
       Move(p, [proc[p] EXCEPT !.book = book, !.stage = "writeBook"], book = records)
  /\ UNCHANGED <<diskVars, begun, edits, since, trip, gone>>

\* replaced.
WriteBook(p) ==
  LET m     == proc[p]
      setup == m.cmd = "setup"
  IN /\ At(p, "writeBook")
     /\ records' = [m.book EXCEPT ![m.agent] = IF setup THEN m.saved ELSE NoRecord]
     /\ Move(p, Idle, TRUE)
     /\ gone' = IF alone[p]
                  THEN [gone EXCEPT ![m.agent] = IF setup THEN "no" ELSE "removed"]
                  ELSE [a \in Agents |-> "no"]
     /\ trip' = IF alone[p] THEN trip ELSE [a \in Agents |-> NoTrip]
     /\ UNCHANGED <<file, backups, begun, edits, since>>

\* Killed, or a read or a write that throws.
Crash(p) ==
  /\ ~At(p, "idle")
  /\ Move(p, Idle, FALSE)
  /\ since' = [since EXCEPT ![p] = "lost"]
  /\ trip' = [trip EXCEPT ![proc[p].agent] = NoTrip]
  /\ gone' = [gone EXCEPT ![proc[p].agent] = "no"]
  /\ UNCHANGED <<diskVars, begun, edits>>

\* connectAgent, or one agent of a setup.
Connect(p) == \E a \in Agents, v \in Launches, force \in BOOLEAN :
                Begin(p, "setup", a, v, force)

\* runDisconnect: never forced.
Disconnect(p) == \E a \in Agents : Begin(p, "disconnect", a, None, FALSE)

Command(p) == \/ Connect(p)
              \/ Disconnect(p)
              \/ ReadFile(p)
              \/ ReadRecord(p)
              \/ Backup(p)
              \/ Write(p)
              \/ ReadBook(p)
              \/ WriteBook(p)
              \/ Crash(p)

-----------------------------------------------------------------------------
(* The user                                                                *)

ByHand(agents) ==
  /\ edits < MaxEdits
  /\ edits' = edits + 1
  /\ alone' = [p \in Procs |-> FALSE]
  /\ since' = [p \in Procs |-> IF proc[p].agent \in agents THEN "lost"
                               ELSE since[p]]
  /\ trip' = [a \in Agents |-> IF a \in agents THEN NoTrip ELSE trip[a]]
  /\ gone' = [a \in Agents |-> IF a \in agents THEN "no" ELSE gone[a]]
  /\ UNCHANGED <<proc, begun>>

ReplaceFile(a, f) ==
  /\ file[a] # f
  /\ file' = [file EXCEPT ![a] = f]
  /\ ByHand({a})
  /\ UNCHANGED <<records, backups>>

\* Entries stay as they are, something else in the file changes.
EditRest(a, r) ==
  /\ file[a] \in Config
  /\ file[a].rest # r
  /\ file' = [file EXCEPT ![a] = [file[a] EXCEPT !.rest = r]]
  /\ ByHand({a})
  /\ UNCHANGED <<records, backups>>

\* integrations.json is deleted or no longer parses: the book is empty.
LoseBook ==
  /\ records' = [a \in Agents |-> NoRecord]
  /\ ByHand(Agents)
  /\ UNCHANGED <<file, backups>>

\* `rm -r .kawn` takes the files of the owned adapters along.
LoseStore ==
  /\ records' = [a \in Agents |-> NoRecord]
  /\ backups' = [i \in DOMAIN backups |-> Absent]
  /\ file' = [a \in Agents |-> IF a \in Owned THEN Absent ELSE file[a]]
  /\ ByHand(Agents)

User == \/ \E a \in Agents : \/ \E f \in UserFiles[a] \cup {Absent} : ReplaceFile(a, f)
                             \/ \E r \in Rests : EditRest(a, r)
        \/ LoseBook
        \/ LoseStore

-----------------------------------------------------------------------------
Init ==
  /\ file \in [Agents -> FileState]
  /\ \A a \in Agents : file[a] \in UserFiles[a] \cup {Absent}
  /\ records = [a \in Agents |-> NoRecord]
  /\ backups = <<>>
  /\ proc = [p \in Procs |-> Idle]
  /\ begun = 0
  /\ edits = 0
  /\ alone = [p \in Procs |-> FALSE]
  /\ since = [p \in Procs |-> "lost"]
  /\ trip = [a \in Agents |-> NoTrip]
  /\ gone = [a \in Agents |-> "no"]

Next == User \/ \E p \in Procs : Command(p)

Spec == Init /\ [][Next]_vars

-----------------------------------------------------------------------------
Memory == [stage : Stages,
           cmd   : {"none", "setup", "disconnect"},
           agent : Agents \cup {NoRecord},
           want  : Launches \cup {None},
           force : BOOLEAN,
           read  : FileState,
           rec   : Nat \cup {NoRecord},
           saved : Nat,
           book  : Book]

\* Type invariant.
AgentTypeOK ==
  /\ file \in [Agents -> FileState]
  /\ records \in Book
  /\ backups \in Seq(FileState)
  /\ proc \in [Procs -> Memory]
  /\ \A p \in Procs : ~At(p, "idle")
       => /\ proc[p].agent \in Agents
          /\ \/ /\ proc[p].cmd = "setup"
                /\ At(p, "readBook") \/ At(p, "writeBook") \/ proc[p].want \in Launches
             \/ proc[p].cmd = "disconnect"
  /\ begun \in 0..MaxCommands /\ edits \in 0..MaxEdits
  /\ alone \in [Procs -> BOOLEAN]
  /\ since \in [Procs -> {"nobody", "uncopied", "commands", "lost"}]
  /\ trip \in [Agents -> [from : FileState, installs : {1, 2}] \cup {NoTrip}]
  /\ gone \in [Agents -> {"no", "nothing", "removed"}]

\* p replaces the file of its agent.
Writes(p) == At(p, "write") /\ proc'[p].stage = "readBook"

\* What a file holds besides entries; the whole of it where it has none.
UserPart(f) == IF f \in Config THEN f.rest ELSE IF f = Absent THEN Bare ELSE f

\* A command that merges into a user's file leaves the rest of it as it is, or
\* takes the file away only when there is no rest, whatever other commands do
\* to the same file and to the book in between.  What the command read must be
\* what was in the file, which the user has not edited since, and no list or
\* string, which setup replaces (mergeEntry, uninstallJsonMcp).
UserPartsKept ==
  [][\A p \in Procs :
       LET a == proc[p].agent
       IN Writes(p) /\ a \notin Owned /\ since[p] # "lost" /\ file[a] # Alien
            => UserPart(file'[a]) = UserPart(file[a])]_vars

\* What setup replaces, and what disconnect edits, can be had back: a copy of
\* just these bytes is under .kawn/backups when the rename comes, unless the
\* file could not be read, by the command or for the copy, or somebody changed
\* it after the command had read it (backupFile).
WritesReversible ==
  [][\A p \in Procs :
       LET a == proc[p].agent
       IN /\ Writes(p) /\ since[p] = "nobody"
          /\ a \in Owned => proc[p].cmd = "setup"
          => \/ file[a] = Absent
             \/ \E i \in DOMAIN backups : backups[i] = file[a]]_vars

\* After a disconnect that ran alone and could read and remove what it meant
\* to, no entry of kawn's is left, whatever crashes, losses of the book and
\* overlapping commands came before it.  No record is left if it found an entry
\* to remove; if not, the record stays as it was (uninstallJsonMcp,
\* disconnectAgent).
DisconnectClean ==
  \A a \in Agents :
    /\ gone[a] # "no" /\ a \notin Owned => ~HasOurs(file[a])
    /\ gone[a] = "removed" => records[a] = NoRecord

\* What a user gets back after disconnect: an owned adapter's file as it was, a
\* file merged into without the entries, and no file where there was none.
Before(a, f) == IF f = Absent \/ a \in Owned THEN f ELSE Stripped(f)

\* Setup and disconnect are a round trip, if setup changed the file once,
\* nobody else touched the project in between, and both could read, copy and
\* remove what they meant to (planJsonMcp's createdByUs, the backups of the
\* record, makeOwnedFileAdapter's restore).
RoundTrip ==
  \A a \in Agents :
    /\ gone[a] = "removed" /\ trip[a] # NoTrip
    /\ trip[a].installs = 1
    /\ a \notin Owned => trip[a].from # Alien
    => file[a] = Before(a, trip[a].from)

-----------------------------------------------------------------------------
(* What the documents say without the conditions above.                    *)

\* codex.ts, on writing what plan() read: "so a file changed between plan and
\* write cannot be silently clobbered".  The rename replaces whatever is there.
NothingClobbered ==
  [][\A p \in Procs :
       LET a == proc[p].agent
       IN Writes(p) /\ a \notin Owned => UserPart(file'[a]) = UserPart(file[a])]_vars

\* AGENT_INTEGRATION.md: "Any file KawnGraph is about to modify is copied to
\* .kawn/backups first".  An owned adapter's disconnect copies nothing.
DisconnectReversible ==
  [][\A p \in Procs :
       LET a == proc[p].agent
       IN Writes(p) /\ proc[p].cmd = "disconnect" /\ since[p] = "nobody"
            => \/ file[a] = Absent
               \/ \E i \in DOMAIN backups : backups[i] = file[a]]_vars

\* AGENT_INTEGRATION.md: "disconnect is a clean round-trip".  A second setup
\* replaces the record of the first, and with it the copy disconnect restores.
RoundTripAgain ==
  \A a \in Agents :
    /\ gone[a] = "removed" /\ trip[a] # NoTrip
    /\ a \notin Owned => trip[a].from # Alien
    => file[a] = Before(a, trip[a].from)
=============================================================================

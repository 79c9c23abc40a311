------------------------------ MODULE TomlTable ------------------------------
(***************************************************************************)
(* How kawn edits .codex/config.toml: as text, a table at a time.  The     *)
(* file is not parsed.  A table is its header line and what follows up to  *)
(* the next header; kawn swaps the lines of its own table, or takes them   *)
(* out, and leaves the others alone.                                       *)
(*                                                                         *)
(* A text is the sequence of the pieces between its newlines, so one that  *)
(* ends in a newline ends in an empty piece.  A line is what the regular   *)
(* expressions see in it.  A table below kawn's, [mcp_servers.kawn.env],   *)
(* is another table to them.                                               *)
(***************************************************************************)
EXTENDS Naturals, SequencesExt

TABLE == "[mcp_servers.kawn]"
LEGACY_TABLE == "[mcp_servers.athar]"

\* ANY_HEADER
Headers == {TABLE, LEGACY_TABLE, "[mcp_servers]", "[other]"}

\* What lies between two newlines in a row.
Nothing == ""

\* What trim() makes empty.
Blank == {Nothing, "  "}

\* A line of the table kawn renders, a key `kawn` of whatever table is open, one
\* that names the table itself, and anything else.
Lines == Headers \cup Blank
           \cup {"command = ours", "kawn = {}", "mcp_servers.kawn = {}", "text"}

\* renderMcpServerBlock
Block == <<TABLE, "command = ours">>

hasTomlTable(text, table) == \E i \in DOMAIN text : text[i] = table

\* The header whose table line i stands in.
Open(text, i, header) ==
  \E j \in 1..i : /\ text[j] = header
                  /\ \A k \in j+1..i : text[k] \notin Headers

hasInlineMcpServer(text) ==
  \E i \in DOMAIN text :
    \/ text[i] = "mcp_servers.kawn = {}"
    \/ text[i] = "kawn = {}" /\ Open(text, i, "[mcp_servers]")

\* The lines of text whose places are in keep.
Pick(text, keep) ==
  LET picked[i \in 0..Len(text)] ==
        IF i = 0 THEN <<>>
        ELSE IF i \in keep THEN Append(picked[i - 1], text[i]) ELSE picked[i - 1]
  IN picked[Len(text)]

-----------------------------------------------------------------------------
(* The two edits                                                           *)

Start(text, table) == Min({i \in DOMAIN text : text[i] = table})

\* The line after the table that starts at i.
End(text, i) ==
  Min({j \in i+1..Len(text) : text[j] \in Headers} \cup {Len(text) + 1})

\* Without the newlines at its end.
Trimmed(text) ==
  SubSeq(text, 1, Max({i \in DOMAIN text : text[i] # Nothing} \cup {1}))

\* The blank lines after a table stay with what follows it.
upsertTomlTable(text, table, block) ==
  IF hasTomlTable(text, table)
  THEN LET start == Start(text, table)
           last  == Max({i \in start..End(text, start) - 1 : text[i] \notin Blank})
       IN SubSeq(text, 1, start - 1) \o block \o SubSeq(text, last + 1, Len(text))
  ELSE IF Trimmed(text) = <<Nothing>> THEN block \o <<Nothing>>
  ELSE Trimmed(text) \o <<Nothing>> \o block \o <<Nothing>>

\* No empty lines at the beginning, and no two of them in a row: at the end of
\* the text that is two empty pieces.
Squeezed(text) ==
  LET empty == {i \in DOMAIN text : text[i] = Nothing}
      ending == {i \in empty : i..Len(text) \subseteq empty}
      keep == {i \in DOMAIN text :
                 i \in empty => \/ i > 1 /\ i - 1 \notin empty
                                \/ i > 2 /\ i \in ending /\ i - 2 \notin empty}
  IN IF DOMAIN text = empty THEN <<Nothing>> ELSE Pick(text, keep)

\* The blank lines after the table go with it, whatever their number.
removeTomlTable(text, table) ==
  IF ~hasTomlTable(text, table) THEN text
  ELSE LET start == Start(text, table)
           rest  == SubSeq(text, 1, start - 1)
                      \o SubSeq(text, End(text, start), Len(text))
       IN Squeezed(IF rest = <<>> THEN <<Nothing>> ELSE rest)

-----------------------------------------------------------------------------
(* Codex' plan, install and uninstall                                      *)

Ended(text) == IF Last(text) = Nothing THEN text ELSE Append(text, Nothing)

\* plan, when nothing is in the way.
NextSource(text) == removeTomlTable(upsertTomlTable(text, TABLE, Block), LEGACY_TABLE)

AlreadyInstalled(text) == NextSource(text) = text /\ hasTomlTable(text, TABLE)

CodexInstall(text) == IF AlreadyInstalled(text) THEN text ELSE Ended(NextSource(text))

\* The file goes when nothing is left and kawn created it.
CodexUninstall(text) ==
  LET edited == removeTomlTable(removeTomlTable(text, TABLE), LEGACY_TABLE)
  IN IF {edited[i] : i \in DOMAIN edited} \subseteq Blank THEN <<Nothing>>
     ELSE Ended(edited)

-----------------------------------------------------------------------------
(* What the edits come to                                                  *)

\* The lines of other tables, and those before any.  Empty lines may move.
RestOfText(text) ==
  Pick(text, {i \in DOMAIN text : /\ text[i] \notin Blank
                                  /\ ~Open(text, i, TABLE)
                                  /\ ~Open(text, i, LEGACY_TABLE)})

\* TOML has every table once.
IsToml(text) ==
  \A h \in {TABLE, LEGACY_TABLE} :
    \A i, j \in DOMAIN text : text[i] = h /\ text[j] = h => i = j

\* The edits of the text are the merge and the strip of AgentConfig, for which
\* a file is an entry, a former entry and a rest: installing leaves one table,
\* kawn's own, and no former one, uninstalling leaves neither, and both leave
\* the rest as it was; what is installed is installed for good (safeToml.ts,
\* codex.ts).
EditsMerge(text) ==
  ~hasInlineMcpServer(text) /\ IsToml(text) =>
    LET installed == CodexInstall(text)
        removed   == CodexUninstall(text)
    IN /\ hasTomlTable(installed, TABLE) /\ ~hasTomlTable(installed, LEGACY_TABLE)
       /\ AlreadyInstalled(installed)
       /\ \A h \in {TABLE, LEGACY_TABLE} : ~hasTomlTable(removed, h)
       /\ RestOfText(installed) = RestOfText(text)
       /\ RestOfText(removed) = RestOfText(text)
=============================================================================

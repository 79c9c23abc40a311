# KawnGraph in TLA+

KawnGraph scans a repository into a graph under `.kawn/`, answers questions from
it through an MCP server, a CLI and a web studio, edits the configuration of
coding agents so that they find the server, and benchmarks those agents with and
without it. This directory holds TLA+ models of its parts, the TLC configurations
that check them on small instances, and proofs that TLAPS checks for every value
of the constants.

Every definition is translated from the source (paths below are relative to
`src/`, package paths to `src/packages/`). `PROJECT.json` names, for each
definition, the lines it stands for.

    tlc -workers 2 -config MCGraphStore.cfg MCGraphStore.tla     # a run
    tlapm McpServer_proofs.tla                                   # silent when proved

## The system

| component | state | operations | works with |
|---|---|---|---|
| store and scan: `core/src/graph`, `cli/.../scan.ts` | `graph.json`, `report.md`, `manifest.json`; the memory of each scan | `kawn scan`, `kawn update` | git, the working tree, other scans |
| freshness gate and tools: `mcp/src/index.ts`, `core/.../manifest.ts` | the request in hand, `freshnessCache` | `tools/call` | reads the store and git while scans run |
| stdio transport: `mcp/src/index.ts` | `buffer`, the promise chain | `data`, `end`, one handler per line | the agent at the other end of the pipe |
| agent integrations: `agents/src/adapters`, `config`, `setup.ts`, `integrations.ts` | the agents' configuration files, `.kawn/backups`, `.kawn/integrations.json` | `kawn setup`, `connect`, `disconnect` | the user's editor, other commands |
| probe, doctor, setup's report: `agents/src/mcpProbe.ts`, `doctor`, `launch.ts`, `detect.ts` | the probe's promise, timer and child | `kawn doctor`, the end of `kawn setup` | an MCP server it starts, scans |
| migration: `core/src/graph/migrate.ts` | `.athar/`, `.kawn/` | `kawn migrate` | scans, a second migration, the user |
| scanner SDK, builder: `scanner-sdk`, `graphBuilder.ts`, `scanRepo.ts` | per scan: plugins, assignments, nodes, edges, diagnostics | register, detect, scan, finalize, build | plugins that may throw |
| scanner plugins: `scanners/src` | none | text in, nodes and edges out | the SDK |
| algorithms: `core/src/context`, `impact`, `git` | none | context pack, rank, affected, changes, flows, shortest path | the graph, git's output |
| context protocol: `context-protocol/src` | none | negotiate, convert, validate | the pack, a consumer |
| benchmark: `benchmark/src` | staged workspaces, sessions, records | preflight, stage, run, grade, report | agents as child processes |
| studio server: `studio-server/src` | its port | HTTP handlers | the store, `benchmark-results/` |
| studio app: `apps/studio/src` | loads, pages, preferences, filters, layouts | load, ask, filter, lay out | the server, a worker |
| CLI: `cli/src` | none of its own | argument parsing, printing | all of the above |

What is hard in it: nothing is locked anywhere. The three files of the store are
written one after the other and read by a server that looks at four things at
four moments; a configuration file is read, copied and replaced with other
commands and an editor alongside; the transport keeps order while a call awaits
git; the probe, the benchmark and the studio race answers against timers, aborts
and the end of processes; a migration and a campaign may stop half way; plugins
may throw; and the pure algorithms meet caps, cycles, rounding and budgets.
`hazards` in `PROJECT.json` lists each at its line with the properties about it.

## The modules

| module | models | extends |
|---|---|---|
| `GraphStore` | repository, scans, the three files | |
| `McpServer` | the gate, its cache, a tools/call over the store | `GraphStore` |
| `InOrderServer`, `McpStdio` | what a client may count on; the stdin loop that refines it | |
| `AgentConfig` | setup and disconnect over configuration files | |
| `TomlTable` | the edits of Codex' file as text | used by `MCAgentConfig` |
| `AgentCatalog` | the adapters: their files, signals, kinds; detection and selection | |
| `McpProbe`, `Doctor` | the probe; the two commands around it | `Doctor` extends `McpProbe` and `AgentCatalog` |
| `LegacyMigration` | kawn migrate | |
| `FileScanners`, `ScannerRegistry` | what plugins derive; a scan from walk to graph | in that order |
| `GraphQueries`, `ChangeImpact`, `ContextPack`, `ContextProtocol`, `GraphAnswers` | searches; git output and impact; ranking and packs; the universal pack; what they promise | each the one before |
| `StudioServer`, `StudioApp`, `LatestAnswer` | the HTTP server; loads, pages and seeds of the app; what a page promises | `StudioApp` extends `StudioServer` and refines `LatestAnswer` |
| `GraphFilter`, `LayoutWorker`, `StudioMap` | filters and sampling; the layout worker; the views over both | `StudioMap` extends both |
| `ChildSession`, `BenchRunner` | one agent session; the campaign | `BenchRunner` extends `ChildSession` |
| `MC*` | constants for TLC | the module of that name |
| `*_proofs` | theorems for TLAPS; `McpServer_proofs` has those of `GraphStore` and `McpStdio` too, `AgentConfig_proofs` that of `TomlTable`, `StudioApp_proofs` those of `StudioMap`, `BenchRunner_proofs` those of `ScannerRegistry` | the modules they are about |
| `Loops` | what the proofs about loops and lists rest on: induction, that a loop exists and keeps its type, places in a sorted list | |

**GraphStore.** A scan is a process with a stage: `WalkFile`, `ReadFile`
(`scanRepo`'s walk, then its reads), `BuildGraph` (the stamp `generatedAt`),
`OpenGraph`/`WriteGraph`, `WriteReport`, `BuildManifest` (here HEAD is read),
`OpenManifest`/`WriteManifest`, and `Crash` between any two. `fs.writeFile` is
two steps because it truncates first; two writers who have a file open together
may leave a mixture, `Torn`. A directory or a file that cannot be read is passed
over without a word (`walk`, `readSafe`): it ends `skipped`, and the manifest
remembers that for the properties, though nothing in the file says so. The bytes of graph.json are a record of what was
read, so a hash is the bytes it names (SHA-256 is taken to be injective). What
plugins make of a file is `ScannerRegistry`'s. `report.md` is read by no program,
so only which graph it describes is kept. The repository is external: `Edit`,
`Commit`, `Checkout`, `Restore`; with `Tampering`, hands other than a scan's.

**McpServer.** `freshnessView` and `graphFreshness` are `Receive`, `ProbeGraph`,
`ProbeManifest`, `ProbeHead`, `ProbeStatus`, one look at the world each; the
verdict goes to the cache (`Conclude`) stamped with the moment the probe began.
`Gate`, `GraphExists` and `LoadGraph` are `callTool` and `loadGraph`, with the
second read of graph.json. A call of an unknown tool is turned away before the gate (`Refuse`); an argument
the tool requires and does not get is found by the tool itself, behind the gate
(`Complete`). Either git command may fail at any look. `Tick` is time for the cache entry and for a probe.
What the four tools compute from the graph is `GraphAnswers`'.

**McpStdio.** A message is two bytes and a newline, enough to be cut anywhere.
`Data` takes a chunk of any length; `Dispatch` and `CallReturns` are the promise
chain; `End` and `Exit` the end of stdin. Replies are written in one piece, as
`process.stdout.write` does on a pipe. A client may stop inside a message. How a
buffer falls into lines is a recursive function, `Cut`, byte by byte.

**AgentConfig.** One command per process, one agent per command (a setup of
several agents is one after the other). `ReadFile`, `ReadRecord`, `Backup`,
`Write` (a temporary and a rename), `ReadBook`, `WriteBook`, with `Crash`
between any two; a JSON or Codex adapter merges into the user's file, an owned
adapter (aider, generic, local) replaces a file of its own. A read that fails passes for a file that is not there, a copy that
cannot be taken is gone without, and a file that cannot be removed stays; the
command goes on in each case. A file is what the
code tells apart: kawn's entry, an entry under the former name, the rest.
Formatting and the order of keys are left out: "as it was" means the same
entries and the same rest. The plan that
setup prints before it asks for consent reads and writes nothing that `install`
does not look at again, so only the plan of `install` is here. An adapter's
`verify` is called by nothing in the program and is left out.

**TomlTable.** Codex' config.toml is never parsed: kawn finds the header line of
its table, the next header after it, and swaps or drops the lines between. A text
is the sequence of its lines, and a line is what the regular expressions tell
apart. `EditsMerge` says that these edits are the `Merged` and `Stripped` of
`AgentConfig` on every text that TOML allows, and that what is installed is
recognised as installed. TLC evaluates it as an assumption of `agents`, over all
texts of up to four of ten lines; `EditsMergeForAll` proves it of texts of any
length.

**AgentCatalog.** The eight adapters as records, with what shows that an agent is
used here, what `--agent auto`, `all` or a name selects, and which adapter refuses
without a provider. `CatalogIsConsistent`, evaluated in `doctor`: ids are unique,
no adapter writes a file of another or a file that would make another be
detected, an adapter of kind `mcp` is one that supports it, and an agent is
selected automatically exactly if something besides its own file shows it.

**McpProbe and Doctor.** The probe is one promise with the closures around it:
the question that is open, what the answers said, whether it is settled. `Receive`
takes an answer and writes the next question, `TimesOut`, `LaunchFails` and
`Reap` (the child's pipes close) compete with it; the child reads, answers and
ends on its own. The conversation goes on after the promise is settled, as it
does in the code. `Doctor` runs the checks of `kawn doctor`, or setup's install,
probe and report, as steps with scans, edits and a `clean` of the build between
them, with and without `--skip-probe`; what setup does to files is `AgentConfig`'s, and which agents it finds and
selects is `AgentCatalog`'s, over the paths the project has. With `--dry-run`, and with a
"no" to the question, setup is over before it installs.

**LegacyMigration.** `Start` is the plan (the files of `.athar/`, copied by name,
and the ignore file last; subdirectories are not listed), `Guard` the look at `.kawn/`, `OpenItem`/`WriteItem` one
copy with the rewritten key of a sidecar, `CopyIgnore` the copy to the root,
`Finish` the report; `Crash` anywhere. A directory that cannot be listed looks
empty (`Listings`): such an `.athar/` is "migrated" with no items, and such a
`.kawn/` passes the guard, which `blind` records. A scan writes graph and manifest
beside it, the user clears `.kawn/` or removes `.athar/` when the notes say so.

**FileScanners and ScannerRegistry.** A file is its declarations: symbols with
the calls in their bodies, imports with their bindings, decorators, statements of
SQL, headings and words of a document, fields of a package.json. `FileScanners`
gives, per plugin, the nodes and edges the code makes of them, and what its
`finalize` derives from all nodes. `ScannerRegistry` is the pass: `Register`, one
step per detect, scan and finalize, with an alternative that throws and one that
returns nonsense where the code looks for it, and `Build`
(first node of an id wins, dangling edges go). A file is known by its place in the
walk and a plugin by its place among the sorted ones, so `assignment` is a function
from the one to the other, and `done` is how far a phase has come. How text becomes declarations
(regular expressions, the TypeScript parser) is not modelled.

**GraphQueries to GraphAnswers.** The breadth-first searches, keyed by the order
the code visits edges in; `parse` of git's NUL-separated output, merge of its
three sources, mapping to nodes, risk; scores, ranking, the two-pass fill of a
budget; conversion, negotiation and validation of the universal pack, with every check the
validator makes. A node need not have a file. A path, a
label or a word is a number or a model value with the matches the code asks for.
`GraphAnswers` states the promises over every graph its steps can build. Every
`for` and `while` of these searches is a recursive function over its rounds (what
the loop holds after `k` of them), because that is a form proofs can reason about.

**StudioServer, StudioApp, LatestAnswer.** A request is in `calls` from its fetch
to the moment the page has its outcome; `Serve` reads the graph then, and only
then looks at the question (`reqString`, `optRef`); whatever it computes may stumble, which is a 500. `StudioApp`
has App's load (health, then summary and graph), the five asking pages with
their abort rules, retry, reload, seeds, recent tasks and the clearing of
preferences. `LatestAnswer` is what a page promises: it shows the answer to
what was asked last, or an earlier answer while it waits or after a failure.

**GraphFilter, LayoutWorker, StudioMap.** Filters, neighbourhood focus, fair
sampling by layer with its reconciliation, the universe's degree cut; `useLayout`
with its shared worker, ids and cleanups; the map pages that drive the first.

**ChildSession and BenchRunner.** A session is a child with a timer, a parser
that folds its lines, and helpers it may leave. The runner is one thread that
yields only while an agent or a test command runs: `Preflight`, `Prepare` (stage
two copies and scan one), `StartSession`, `SessionEnds`, `Grade`, `RunTests`,
`Record`, `Cleanup`, `Report`, each with an alternative that throws where the
code may. A file's content is who wrote it last. A link in the source is copied as
a link to the same place, so writing through it changes the source. An agent may
write where it works (`MayWrite`): Claude in every session, because its
permissions are bypassed and the list of tools only names what needs no asking;
Codex in e2e sessions only, because its sandbox is read-only otherwise. A helper may
outlive any agent that runs commands. A snapshot misses what it cannot read and sees
plain files only. Removal is best effort (`Swallows`): what cannot be removed is in
`stuckRoots` or `stuckHomes`. What is staged is the working tree as it is, committed
or not.

## The runs

Every property has a named fault in a module it is about (a comment starting
with "A fault") that breaks it under the same configuration.

| run | properties | bounds |
|---|---|---|
| `store` | `TypeOK`; `CalmScanIsFaithful`: a manifest of a scan over a clean repository at rest names the commit whose content the graph has, but for files the scan could not read; `LoneScanHeals`: after a scan that ran alone the three files agree | two scanners, one tracked file, two commits, two moments, tampering; commits and scanners symmetric |
| `gate` | `McpTypeOK`; `FreshIsSound`: a fresh verdict resting on a calm scan is true of its commit, with the same exception; `GateIsTightAtRest`: over a store at rest only a graph of the supported schema is served; `VerdictIsYoung`: no verdict whose first look is TTL old is handed to a new call; `WarningsClear`: no cached warning outlives its cause for good | one scanner, two schemas, one commit, git that may fail, TTL of two ticks |
| `stdio` | `KeepsItsPromise`: refinement of `InOrderServer`; `AllSettled` | three messages of six kinds |
| `agents` | `DisconnectClean`: no entry is left after a lone disconnect that could read and remove, and no record if there was an entry; `RoundTrip`; `UserPartsKept`: of any file that was read; `WritesReversible`: unless no copy could be taken | one merging and one owned adapter, two builds' entries, two commands at a time, three in all, one step of the user, any read, copy or removal failing; texts of four lines |
| `answers` | `ReachIsExact`, `FlowIsShortestWalk` against walks; `ImpactMissesNothing`; `KeywordsDominate`; `PackAccounts`: sections, exclusions and totals add up; `PacksAreTrusted`: what kawn produces is accepted exactly when each item has evidence, and not with any one field of another type; what was agreed on, kinds and layers, is what is met | every graph of up to ten edges over seven nodes, one of them visual and one without a file; five tasks, four budgets, six reports of git; all depths to 3, with and without a cap |
| `pipeline` | `FailureCostsItsOwn`: the graph is what the rightful owners of the files that did not fail give; `WorkspaceImportsLinked`, `MembershipIsDeepest`, `CallsLinkAcrossFiles` | seven plugins of which one is refused and one competes with a built-in, in every order; two repositories; two failures |
| `migrate` | `PairIsTrue`, `SuccessIsWhole`, `NothingLost`, `TruncatesNothing` | two migrations at a time, four in all, two scans, three files and a directory, listings that fail |
| `studio` | `SpinnerMeansWork`, `NothingStale`, `LatestWins` (refinement), `StudioSettles` | two questions of which one is refused, two of each of asks, loads and scans, two ports, two benchmark reports |
| `map` | `SampleIsFair`, `LayoutFits` | ten nodes in three layers, caps 6 and 7, depth to 2, two large inputs and a small one, two requests |
| `bench` | `BoundaryIsAgentsOwn`, `LittleIsLeft`, `SessionsStartClean`, `BenchmarkEnds` | three campaigns (two agents; two tasks; two projects), one repeat, one link, helpers that hold their output, one edit, one failure |
| `doctor` | `HealthyMeansRetrieved`, `CommandEnds` | the files of an MCP agent and of `local`, one other signal; `auto` and `local`; with and without the probe; one scan, one edit |
| `bench_treatment` | `TreatmentHasGraph`, violated | as `bench`, without the link |

Why the bounds are enough. Two scanners are what it takes to overlap; one file
with two states tells any two trees apart; two commits let HEAD move and come
back (`gate` has one commit: `stale` is
out of this run, and inside the proof of `FreshIsSound`). A TTL of two ticks is
the smallest at which an entry ages before it dies. Three messages have one under
way, one queued and one cut in half. Three commands are a setup, another command
in the middle of it or after it, and a disconnect. A search is settled by a
cycle, a diamond, a self-loop and a chain longer than the depth, all among the
ten edges; a visual node tells a way through it from one around it. Two failures are one that hides another. Four migrations are two
killed ones and two that overlap. Two questions with a reload are a superseded
run and its successor; the layers of ten nodes are below, at and above their
minimum. In `bench` one failure is enough because a throw ends the campaign.
Deadlock is checked everywhere except in `stdio` (the process exits), `agents`,
`migrate` and `pipeline` (bounded stories) and `answers` (the last graph).

The finding of `bench_treatment`: an e2e session of the treatment arm runs in a
copy made with the filter that leaves `.kawn` out (`benchmark/src/isolation.ts:31,
179`), and nobody scans the copy, so the MCP server it is given has no graph.
`isolation.ts:6` says of the tree it is copied from that it is "scanned once so
.kawn/graph.json exists".

## Met on the way, without a run

Sentences of a comment or a document that do not hold without a condition. Where
a property states the sentence it is defined beside the others, and adding it to
the configuration, with the change given, shows the counterexample.

| sentence | property | what happens |
|---|---|---|
| `manifest.ts:226`, fresh means "matches the current commit with a clean working tree" | `FreshMatchesCommit`, `McpServer` | scan a dirty tree, restore it: fresh, though no commit has that content |
| `ARCHITECTURE.md:267-270`, never results from an incompatible graph | `ForeignSchemaRefused`, in `gate` | between graph.json and manifest.json of a foreign build's scan its graph is served |
| `mcp/src/index.ts:492-493`, a piped batch "still gets every response" | `BatchGetsEveryResponse`, in `stdio` | the last line has no newline: no response |
| `codex.ts:187-188`, a change between plan and write "cannot be silently clobbered" | `NothingClobbered`, in `agents` | the rename replaces it |
| `AGENT_INTEGRATION.md:154`, a file about to be modified is copied first | `DisconnectReversible`, in `agents` | disconnect of an owned file takes no copy |
| `AGENT_INTEGRATION.md:150`, disconnect is a clean round trip | `RoundTripAgain`, in `agents` | after a second setup by a newer build the record names kawn's own file as the user's |
| `mcpProbe.ts:36`, "Never throws" | `NeverThrows`, in `doctor` | a write to a child that has gone is an `error` of `child.stdin` with no listener |
| `migrate.ts:12`, never overwrites an existing `.kawn/` | `NeverOverwrites`, in `migrate` | a scan fills it between the guard and the copies |
| `proc.ts:111`, "the process tree is killed on expiry" | `BenchmarkEnds` without its condition, in `bench` | outside Windows only the child is killed; a helper that holds stdout keeps `close` away for good |
| `isolation.ts:156-157`, the copies for reading are "guaranteed not to drift" | `SessionsStartClean` without its condition, in `bench` | Claude's sessions bypass permissions (`claude.ts:31-32`): what one writes the next one reads |
| `usePrefs.ts:7`, clearing wipes what is below | `ClearedStaysCleared`, in `studio` | a run asked before the clearing puts its task back when it is answered |
| one spinner, one call | `SpinnerMeansWork`, `Strict = TRUE` | React's development mode mounts twice; the aborted first run is not the second's |
| `rankContext.ts:6`, "task words hit a node's label" | `NamedNodeIsFound`, in `answers` | a camel-case word of the task is lowercased and no longer splits like the label |
| `changeImpact.ts:54`, "Tests connected to the changed/impacted scope" | `RelatedTestsComplete`, in `answers` | a test that depends on the change is inside the scope, and only neighbours outside it are listed |
| `capabilities.ts:21`, layers "in separate, role-tagged sections" | `LayersKeptApart`, in `answers` | a section is chosen by type, so one layer appears in two |
| `extractCalls.ts:9`, callers are "the enclosing function/class" | `NestedCallsKept`, `Repos <- MCTrouble` | a call in a nested function is the inner function's, which is no node, and is pruned |
| `scanDocs.ts:32-33`, "one `section` node per heading" | `OneSectionPerHeading`, `Repos <- MCTrouble` | two headings with one slug are one node |

Others without a property: removing Codex' table leaves one of every run of
empty lines in the whole file (`safeToml.ts:176`), though every other line is left "byte for
byte intact" (`safeToml.ts:8-9`); the branch that absorbs a blank line after the
table (`safeToml.ts:169-171`) is never taken, because what follows a table is a
header or the end, so all its blank lines go; packages in directories `.` and of one letter tie in
`packagePlugin.ts:63` (`MembershipIsDeepest` with `Repos <- MCTrouble`; without such a
directory it is a theorem); a
configuration file that parses to an array is replaced like an empty one
(`mcpJsonFile.ts:90`), although a copy is kept; a configuration file that cannot be read passes for an absent one and is replaced
by the rename, though `safeJson.ts:18` says that nothing is overwritten "blindly"
(`UserPartsKept` speaks of files that were read); a file whose copy cannot be taken
is written all the same, without the copy that `AGENT_INTEGRATION.md:154` promises
(`WritesReversible` excepts it); a scan leaves out what it cannot read, and the graph
is fresh none the less (`CalmScanIsFaithful` excepts it); a setup killed before
`upsertIntegration` makes its entry look foreign to the next build; a disconnect
that finds nothing to remove leaves its record; a migration killed half way is a
conflict until `.kawn/` is cleared by hand, and where two run at once it may leave
torn what the other had copied and reported; `prepareProject` that throws leaves its
directory (`runner.ts:79-81`), and a session that throws loses the runs before it;
staging copies the dirty working tree though it calls itself commit-pinned;
Python calls of a class from another file are pruned (`extractPyCalls.ts:43`);
setup says "your agents now retrieve context" without a graph (`setup.ts:184`);
doctor tries the launch it would write now, not the one on record, and the probe
runs the local build where npx is what gets written (`launch.ts:70-72`); a child
that dies unheard is waited for until the timer.

## Fairness

`WarningsClear` assumes weak fairness of the handler's steps and of time: Node
runs a handler it has started, its file reads and its git commands (with a 4 s
limit) return. Nothing is assumed of clients, users or scans: the property says
that *if* the store becomes and stays healthy and git does not fail, no cached
warning stays in use. `AllSettled` assumes that delivered bytes reach the data
handler, that a handler is run and returns, and that `end` and the exit after it
are delivered; nothing makes a client write or close. `StudioSettles` assumes
that a request that reached the server is served, that one that did not fails, and
that the browser delivers outcomes; the user, scans and the server's stop are
free. `BenchmarkEnds` assumes that the harness's event loop runs and that a
timer that is armed fires (and that a killed child is reaped with it); no agent is
held to finish and no helper to end; the property asks only that none holds its
output for ever, since nothing then makes the command end (see above). `CommandEnds` assumes the event loop,
timer included, and that a killed process ends; no server is held to answer.
`LatestWins` and `KeepsItsPromise` refine safety specifications and need none.

## What is proved

What follows holds for any number of files, commits, builds, scanners, agents,
commands, migrations, questions, calls, lines, layouts, projects and sessions, any
graph, keywords, budget, report of git, filter and cap, any plugins, repositories and number of failures in a scan, texts of
any length, and any value of the bounds on how often the world moves.

| theorem | property | inductive invariant |
|---|---|---|
| `TypeCorrect` | `TypeOK` | `TypeOK` itself: past a stage, a process holds what the stage made |
| `CalmScans` | `CalmScanIsFaithful` | a calm scan has a clean tree before it, so every file it has read is HEAD's still and every other one is `skipped`; what it builds and writes inherits that; commits never change |
| `LoneScansHeal` | `LoneScanHeals` | a scan that runs alone finds each file it has written as it wrote it |
| `McpTypeCorrect` | `McpTypeOK` | type correctness of store and server together |
| `FreshSound` | `FreshIsSound` | the store's two invariants, carried into the probe: once the hash has been compared, the bytes and the manifest in hand are one scan's |
| `VerdictsAreYoung` | `VerdictIsYoung` | the age since the first look never exceeds the age since the stamp, so no entry the cache hands out is that old; how long a call then works with it is not bounded |
| `GateTight` | `GateIsTightAtRest` | while the store stays whole, a verdict that lets pass means the graph it saw has the supported schema and is the graph there now |
| `AgentTypeCorrect` | `AgentTypeOK` (checked by no run) | `AgentTypeOK` itself |
| `UserPartsSurvive` | `UserPartsKept` | `HeldInv`: the rest of the file is the rest that was read, if it could be read and as long as the user leaves it alone; what does not parse is never about to be replaced; a command that renames its file in between carries the same rest |
| `ReplacedIsBackedUp` | `WritesReversible` | `HeldInv`: past a copy that was taken, and undisturbed, what was read is among the copies |
| `DisconnectCleans` | `DisconnectClean` | `AloneInv`: a command that has the project to itself finds the book as it read it and the file as it left it; the record is gone if an entry was, and stays if there was none |
| `RoundTrips` | `RoundTrip` | `TripInv`: after one installation the record (or, until it is written, the command) names a copy of what the user had; copies are only added, so it stays the one; after the disconnect the file is what it was |
| `EditsMergeForAll` | `EditsMerge` (an assumption of `agents`) | an edit and what it edits are compared by what both are without some of their lines: blank ones (`BlankOut`) or one whole table (`TableOut`). What is left keeps its order (`Thinned`), stands in the table it stood in (`ThinOpen`), and so has the same rest (`ThinRest`), each table still once (`ThinTables`), and kawn's table still whole (`ThinWhole`); both edits are such steps (`RemoveGives`, `Upserted`), and a whole table is what an installation would write again (`WholeIsInstalled`) |
| `TypeCorrect` of the migration | `TypeOK` (checked by no run) | with the next |
| `LegacyKept` | `NothingLost` | `CopyInv`: what a migration has copied is there and whole as long as no other migration writes, and its plan and what it has done make up the plain files of `.athar/`; `KeptInv`: once one has reported success every such name is in `.kawn/`, whole, which no one but the user's clearing empties |
| `SuccessWhole` | `SuccessIsWhole` | `CopyInv`, `WholeInv`: as long as one process has written, what is there is its own copies, whole; the subdirectories of `.athar/` are in no plan |
| `PairTrue` | `PairIsTrue` | `PairInv`, `ScanInv`: the graph is copied before the manifest, and a scan writes them in that order; that `.kawn/` could be listed is a condition (`blind`) |
| `NoTruncation` | `TruncatesNothing` (an action property) | `CopyInv`: beside a migration that nobody has joined, what is left of its plan is not there yet, if it could list what was there |
| `SpinnerTrue` | `SpinnerMeansWork` | `LoadsOK`, `PageOK`: a load has one call, for the stage it is in; a page that waits has one call that is live, for what was asked last |
| `NotStale` | `NothingStale` | `CallsOK`, `BootOK`, `ShownOK`: an answer is of a scan no older than its call, a call no older than the app's graph |
| `ImplementsLatestAnswer` | `LatestWins` (refinement) | the same: each step is a question, an answer to the last one, a failure, or a stutter |
| `HealthIsEarned` | `HealthyMeansRetrieved` | `AnswerInv`: an answer on its way, or taken, that says a context came was given from a readable graph; `GraphInv`: what the command remembers of the graph agrees with what it asked the probe; `VerdictInv`: a list of checks that could all pass contains the probe's, unless the command was told to skip it |
| `BoundaryIsOwn` | `BoundaryIsAgentsOwn` | `TreesInv`, `SessionInv`: graded sessions have trees of their own, never one a stray helper still has; what differs from a snapshot that missed nothing is what the agent of this session changed |
| `LittleLeft` | `LittleIsLeft` | `LeftInv`: where a root or a home may exist, by the place the harness is in, beside those whose removal failed |
| `FailureIsolated` | `FailureCostsItsOwn` | `PipelineInv` (`PipelineKept`): the plugins are sorted before a file is looked at (`RegistryInv`); a file's owner is the first that claims it, which is the one no other precedes (`DetectInv`); what is left to scan belongs to no earlier plugin (`OrderInv`); what is gathered is what the owners of the files kept so far give *with the packages known by now* (`GatherInv`), which is no weaker because no code file is scanned before the last package |
| `WorkspaceLinked` | `WorkspaceImportsLinked` | `PipelineInv`: the packages known when a code file is scanned are all there will be, because the package plugin's order is below the code plugin's; then along the imports of the file: each that matches a known name gives its edge (`extractImports`), the edge is in what is gathered, and the finished graph has both its ends |
| `CallsLinked` | `CallsLinkAcrossFiles` | `PipelineInv`; then along the definitions of the file: the caller is a node of it and of the graph (no class has its name), the callee of a name imported once and defined nowhere is the import's (`Callee`), whichever file was scanned first; a call whose other end is no node is pruned for want of it, never for its place |
| `MembershipDeepest` | `MembershipIsDeepest`, if `NoOneLetterDirectory` | only `derivePackageEdges` gives an edge `belongs_to` to a package (`NoMembers`, plugin by plugin); each node has one of them; of two directories that hold a file one is inside the other, and its string is then the longer one (`LongerIsDeeper`), so the first of the sorted packages is the innermost |
| `CleanStart` | `SessionsStartClean` (an action property) | `TreesInv`: the two staged copies stay equal to the source as long as nothing has been written in them, and the source as long as nothing has been written through a link of it; a session for editing starts in a new copy of one |
| `ImplementsInOrderServer` | `KeepsItsPromise` (refinement) | `StreamInv` (`StreamInductive`): the lines whose handlers have started are the first of those the bytes sent so far cut into, and what is buffered and on its way cuts into the rest; each step is a call, the next answer, or a stutter |
| `ReachExact`, `ReachExactForAll` | `ReachIsExact` | over the rounds of the search: `Honest` (each item is one hop beyond an earlier one), `Within` (what is seen is listed, none deeper than asked), `Layered` (what is seen is what some path of the depth reaches) |
| `ShortestWalk`, `ShortestForAll` | `FlowIsShortestWalk` | over the rounds of the queue: `Honestly` (what came first leads to where one came from), `Turning` (the queue is sorted by distance, at most two distances at once), `Full` (a node taken from it has all its neighbours seen); then `LeadsTo` and `Back` along the way back |
| `KeywordsFirst`, `KeywordsForAll` | `KeywordsDominate` | the arithmetic of the scores; over the rounds of the expansion `Trusted` and `Amid` (what joins later scores less than any match), `Done` (every neighbour has joined) |
| `PackKeepsAccounts`, `PackAccountsForAll` | `PackAccounts` | over the ranked nodes: every one is in one of the lists, what is included costs what is counted, and that never exceeds the budget (`Fits`, `Cost` of a concatenation) |
| `ImpactComplete`, `ImpactForAll` | `ImpactMissesNothing` | over git's output: after each change printed the parser stands behind its tokens and has read it, letter and paths (`Letters`, `ReadChange`), then each path is kept once; over the nodes: a seed is what a change concerns, by its new path or its old; over the dependents: what `ReachExact` says of the reach; high risks come before medium ones |
| `PacksTrusted`, `TrustForAll` | `PacksAreTrusted` | over the edges: evidence is of the item's own place and its edges' places, each once, all of them unless there are more than asked (`Proofs`), so it is empty just when none of these is known; a packed node has a section, so the protocol knows its kind, and is not visual (`Packable`); a field of another type breaks one check of the validator (`DamageShows`) |
| `FairSamples`, `FairForAll` | `SampleIsFair` | over the rounds of the allocation: every layer keeps between its floor and its size, and what is shared out plus what is left is the cap (`Held`); each round either comes closer to the cap or nobody can give or take |
| `LayoutIsOwn` | `LayoutFits` | `AskedInv`: whatever in the queue or among the results has the id that is listened for is of the nodes on the canvas; `PendingInv`: a layout that is missing is under way |

The theorems named `...ForAll` are the results: of every seed, depth, cap, task,
budget and filter there is, not only of the few a run tries. The property the run
checks follows from each, and is the theorem beside it.

The pure algorithms are loops of the source (`while`, `for ... of`), written as
recursive functions over the number of rounds. A fact about one is an induction
over its rounds, and the library's induction theorems take an operator for a
parameter, which no prover here can instantiate. `Loops` therefore derives
induction, that such a function exists, and that a finite ordered set has a first
element, a second and so on, from the well-foundedness of the inclusion of
finite sets, whose statement needs no operator.

None of the properties is inductive alone: each speaks of a moment at the end of
a row of steps, and the invariant says what holds at every step before it. The
lemmas of each module go by action, or by group of actions, and by conjunct; the
theorems at its end take them together.

The proofs rest on the assumptions the modules name, which TLC evaluates in the
runs. Most say that special values differ from ordinary ones or that a set
contains what it must (`ConstantsAssumption`, `ServerAssumption`,
`NothingAssumption`, `AgentAssumption`, `DoctorAssumption`, `StudioAssumption`,
`NoEdgeAssumption`, `StdioAssumption`), or give a constant its kind: ids and sets
are finite and numbers natural (`IdsAssumption`, `CandidatesAssumption`,
`FlowAssumption`, `RankAssumption`, `SizesAssumption`, `TasksAssumption`,
`LimitsAssumption`). The rest say something of the code or its use:

- `MigrationAssumption`: `graph.json` sorts before `manifest.json`; without that
  a migration killed half way could leave a manifest without its graph.
- `BenchAssumption`: `.kawn` is among the excluded names of `isolation.ts:31`.
- `GraphAssumption`: every layer of `LAYER_ORDER` is in the alphabet once, and
  `MIN_PER_LAYER` is at least one.
- `PathsAssumption` of `ChangeImpact`: `PathOrder` has every path at most once, no path is the empty
  string or undefined, and a git command that failed is told from one that printed.
- `ReportsAssumption`: git lists a path once per diff, and names an old path beside
  the new one for renames and copies only.
- `LayersAssumption`: no scanner puts a node in the layers `decision` or `runtime`.
- `OfferedAssumption`: plugins have finite orders, ids sort, and the package
  plugin's order (0) is below the code plugin's (1); without that a code file could
  be scanned before a package it imports is known.
- `ReposAssumption`: a walk meets a path once, and a parser hands over lists.
- `ForeignAssumption`, `TablesAssumption`: a third party's plugin gives a list of nodes,
  none of them a package; what competes for `.sql` files gives tables and what lies
  between them.
- `PathsAssumption` of `ScannerRegistry`: a path is a list of names, none of them empty,
  and no path or symbol is null.
- `MembershipDeepest` assumes `NoOneLetterDirectory`: no package lies in a directory
  at the top of the repository whose name has one letter. The string of the
  root's directory, `.`, is as long, and the sort of `packagePlugin.ts:63` then
  leaves the two in the order of the walk.
- `PlacesAssumption`: the place of a node is not the mark of a node without one.
- `MalformedAssumption`: a value of the wrong type is none of the right one.
- `PairTrue` assumes that the manifest in `.athar/` described the graph beside it.
  A migration copies; it cannot make true what was false.
- `SpinnerTrue` assumes `~Strict`, the production build. In React's development
  mode a page mounts twice and the property fails (see above).

What stays with TLC, and why:

- Liveness under fairness, out of the prover's reach: `WarningsClear`,
  `AllSettled`, `StudioSettles`, `BenchmarkEnds`, `CommandEnds`.
- What a violation or a "Met on the way" row says, which has nothing to prove.

## The plan

1. Done: every component of the table but the CLI's printing.
2. Done: a theorem for every safety property of the stateful components, the two
   refinements, and the properties of the traversals, the impact of a change, the
   ranking, the pack's accounts, what crosses to an agent, and the map's sample.
3. Done: what a failure in a scan costs, what scanners link, and what the edits of
   Codex' file come to.
4. Done: what fails without a word: reads, listings, copies and removals that the
   code lets go, in the store, the configuration, the migration and the benchmark.
5. Larger instances: two repeats in `bench`, three scans in `studio`, two commits
   in `gate`.

## Not modelled

How text becomes declarations (the parsers of the scanners); JSON, TOML and
Markdown formatting, redaction, tokens, metrics, CSV and merged reports, suite
loading and `init` of the benchmark; canvases, strings, styles and saved views of
the studio; static files and the body limit of its server; argument parsing and
printing of the CLI. They are text and arithmetic without state that another
step could disturb. Assumed in the models: agents and their helpers write in their working directory and
through links in it only, Codex' read-only sandbox holds, a machine loses a CLI only
between sessions, and nothing in the program removes graph.json. Left out of what is
modelled: a `finalize` of a third party that adds nodes; packages named
like a path inside another one (`a` beside `a/b`), which npm does not allow; git's
status `U`, of a merge under way; a layout worker that dies, for which nothing in
the app listens.

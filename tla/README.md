# A TLA+ model of irez

`irez` stores LLVM IR modules as immutable artifacts, analyzes them on demand
into one SQLite database, and answers bounded questions about them. Every
invocation is a process of its own; the MCP server starts one per tool call.
So the hard part is not in any one process: several of them, possibly of
different builds, share one database and one directory of files, hold claims
on work that takes minutes, and are killed by timeouts. This directory models
that, checks it with TLC and proves the main results with TLAPS.

All source lines are given as in the repository: `service.cpp` is
`src/service.cpp`, `store.cpp` is `src/store.cpp`.

## The system

| Component | State | Operations | What is hard | What makes it correct |
|---|---|---|---|---|
| Artifact store (`store.cpp`) | files under `artifacts/llvm`, table `artifacts` | `ingest_file` inside `ingest`'s IMMEDIATE transaction; `reindex` feeds it the stored file | kills and power loss between write, flush, rename, directory flush and commit; files that somebody else touched; two contents with one handle | a row always has its file; what an interrupted ingest leaves never blocks a retry; an answer has seen the bytes |
| State set-up (`initialize`, `connect`, `backup`) | the schema, the investigation | create, check, copy | two `init` at once, in deferred transactions; a kill in the middle; commands that open what is being made | one investigation, which every `init` answers with; nobody sees half a schema |
| Catalog (`ingest`, `reindex`) | `artifacts.catalog_*`, `requested/completed_index_level` | claim, adapter, commit or fail; the loop of `--index full` | claim taken over after ten minutes, decision taken on a row read earlier, loop abandoned half-way | one cataloger, a ready catalog names a successful run, `full` means analyzed |
| Materialization (`materialize`, `ensure_materialized`) | `materializations`, `entities.materialization`, the snapshot (`relations`, inner entities, `materialization_capabilities`) | cache check in two reads, claim, adapter, commit or fail | late owners, claims erased by a catalog refresh, two builds | evidence cited is a successful run; ready means a snapshot is there; no claim without a running run |
| Analysis runs | `analysis_runs` | `run_start` with a claim, `run_end` with the end of the work | kills leave `running` behind; late owners | a run ends once |
| LLVM adapter (`adapter.cpp`) and what is stored of it | `entities`, `relations` | records of a function; replacing its snapshot; `guards` | tables shared by all functions of a module; handles made of keys; graphs with loops that have no way out | a snapshot is the function's body, no more, no less, and nobody else's; guards are the control dependences |
| Slices (`slice_on`; behind `graph`, `context`, traces) | local to a process | breadth-first walk under a node and a depth budget | reads without a transaction; cuts at exactly the limit; cycles | an answer is connected, truncation is declared, what is left out is not in it |
| Traces and contexts (`run_trace`, `context`) | local | a slice per site, sources and call targets, merged | a new snapshot between any two queries; cuts of several sites under one reason | every run that gave a row is cited, every cut is reported, what is not cut is complete |
| Listings (`uses`, `show`, `functions`, `guards`, ...) | local | bounded reads | stating what was cut | what is listed and what is reported as cut agree |
| MCP server (`mcp/src/main.rs`) | none | one `irez` process per tool call, killed at the timeout | the kill | a kill is harmless, see Analysis |
| Installer (`mcp/src/install.rs`) | binaries of the versioned directories, the host's entry, its skill directory, the ownership manifest | install, update, uninstall, doctor | kills between replacements that only together make sense; edits by the user; two commands at once; a record of ownership that is older than what it records | an entry names binaries that exist; success means healthy; what is not owned is kept |

The components interact through the database and the file system only: no
messages, no shared memory, no callbacks. SQLite serialises transactions;
what is outside of a transaction is not protected by anything.

## The modules

`Analysis.tla` - one artifact, its functions and the processes that work on
them. A step is one transaction or one statement in autocommit mode. The
columns of the row of `artifacts` are the record `artifact`, those of a row of
`materializations` the record `mat[f]`; `entity[f]` is the column
`materialization` of a function's entity. A claim and the run that its
transaction starts are one id. `stale` says that the claim is older than ten
minutes. A snapshot - relations, inner entities and capability rows, always
replaced together - is the pair of the run and the build that wrote it.
`pc[p]` is the place in the code, `cmd[p]` the command with its options (after
`CheckCatalog`, `cmd[p].refresh` is the local variable `catalog_refresh`),
`mine[p]` the claim the process took, `cited[p]` the runs its answer cites.

| Actions | Code |
|---|---|
| `StoreArtifact` `CheckCatalog` `RequestFull` | `service.cpp:258-280` |
| `ClaimCatalog` `CatalogBusy` | `280-299` |
| `CatalogBreaks` `FailCatalog` | `301-357`, `416-426` |
| `CommitCatalog` | `359-415` |
| `CollectFunctions` `NextFunction` `CompleteFull` | `428-445` |
| `ReadRow` `ReadManifest` | `670-717` |
| `ClaimFunction` `FunctionBusy` | `718-732` |
| `AnalysisBreaks` `FailFunction` | `733-762`, `940-951` |
| `CommitFunction` | `766-939` |
| `EnsureRow` `EnsureManifest` `ReadRelations` | `214-236`, the queries |
| `Crash` | a kill, or an exception that leaves a claim behind |
| `ExpireCatalog` `ExpireFunction` | the clock, in the `WHERE` of the claims |

`ArtifactStore.tla` - `Store::ingest_file`, one action per file operation.
`files` is the directory as processes see it, `disk` as it was last flushed;
`PowerLoss` keeps of every name either and tears data that was not flushed.
`exists()` and `rename()` are two steps (`LookForFile`, then `Publish`, or
`TakeOver` and `RefuseDifferent`, which read the file): the write lock keeps
other ingests out in between, but `Tamper`, somebody else who removes, replaces
or creates a file, does not take it.
A digest stands for the content, so only its 16-digit prefix, the handle, can
collide. The temporary file has a fresh name (a UUID), so one that is left
behind is never looked at again and the model forgets it.

| Actions | Code (`store.cpp`) |
|---|---|
| `Ingest` `Reindex` | `service.cpp:248-266`, `476-485` |
| `Deduplicate` `Collide` `Lookup` | `172-222` |
| `WriteTemporary` `FlushTemporary` | `223-239` |
| `LookForFile` `Publish` `TakeOver` `RefuseDifferent` | `240-253` |
| `FlushNames` `Insert` | `254-269` |
| `Fail` `PowerLoss` `Tamper` | a failed call or a kill; the machine; somebody else |

`StateSetup.tla` - `Store::initialize` and the checks of `Store::connect`, on
the database file. A deferred transaction takes its snapshot with its first
read (`Begin`) and asks for the lock with its first write (`Migrate`,
`AddInvestigation`); `connect` has no transaction, so its two checks
(`Connect`, `CountTables`) may see two databases. A migration is one table of
it, as presence is all that `connect` asks of a table.

`StateDirectory.tla` composes the two: every ingest opens the database first,
whoever ingests excludes whoever initializes and the other way round, and the
machine stops for both at once. Its steps are conjunctions of theirs.

`Attempts.tla` - the abstract specification of `Analysis`: an analysis is an
attempt with an id of its own; one that succeeds publishes its result in that
step; none ends twice. There are no claims, rows or processes in it.
`ExclusiveSpec` adds that nobody begins what somebody is busy with. The
refinement mapping is at the end of `Analysis.tla`: the attempts begun are the
runs in use, those in progress are what live processes have in `mine[p]`, the
outcome is the run's status and the result of a function is its snapshot.

`ControlDependence.tla` - the loop over successors and the post-dominator tree
of `adapter.cpp:388-418` (`Emitted`) beside the textbook definition of control
dependence (`Dependences`), for any control-flow graph. The tree is LLVM's; it
is defined by paths. `FunctionGraph.tla` puts it to use: the records the
adapter emits for a function (`Graph`, `Declares`), the transaction that
replaces the function's part of the shared tables with them (`Materialize`,
`service.cpp:766-939`) and `guards`, which reads them back. Arguments and
instructions are folded into their blocks. `Guards` is the answer under a budget
that is not used up; the cut (`LIMIT budget + 1`, `service.cpp:1444-1478`) is left
out, and no property is about it.

`Slice.tla` - `Service::slice_on`, one action for taking a node from the deque,
one per relation looked at, one for fetching the entities; `Replace` is another
process's commit beside it. The relations the walk follows are those of the
kinds asked for; which kinds is abstracted.

`Queries.tla` extends `Slice` with what is put together from slices and from
other queries. A slice inside a trace is the walk of `Slice`, step by step.

| Actions | Code (`service.cpp`) |
|---|---|
| `ListSinks` `InspectReturn` `CountStores` | `run_trace`: the sites, and the hint that results leave through stores |
| `BeginSite` `ReadRelations` `LookAtRelation` `EndSlice` | `slice_on` for a site |
| `Locate` `ReadCalls` | the sink's source, the targets of the slice's calls |
| `EndSite` `AllSitesTraced` | merging a site into the answer |
| `Show` | `context`, before its source and its slice |
| `ListPage` | `uses`, `show --view children` |
| `NotFound` | an entity that is gone when it is asked for |
| `Commit` | a new snapshot between two queries |

Three things are abstracted there: a handle keeps its opcode, its callees and
its location from one snapshot to the next, a relation has no ordinal, and the
operand shown beside a sink is left out (the code shows it without citing it).

`Installer.tla` - the commands of `irez-mcp` (`mcp/src/install.rs`). The files
are replaced one by one, and no lock protects them: `binaries` are the two
executables of each version's directory, `registration[h]` the entry for irez
in the configuration of host `h` (`Absent`: there is no configuration,
`NoEntry`: one without irez, `Foreign`: an entry of somebody else), `skill[h]`
the skill directory, `manifest[h][d]` the ownership record of state directory
`d`. A binary is abstracted to the bundle it comes from and so is its
fingerprint; `Torn` is what a copy or a write that was cut short leaves. A half
removed skill is `Torn` while its ownership marker is still in it and `Remnant`
once that is gone. Taking a skill away is three steps: the marker is looked for
(`LinkSkill`, `RemoveSkill`), what is there by then is opened and its files
begin to go (`Unlink`), the directory goes (`Unlinked`); another command and
the user may come in between any two. `pc[p]`, `options[p]` and `draft[p]` are
the place in the code, the command line and the manifest being written; `alone`
is a history variable: the last command that began, as long as nothing else has
happened since, so that what is promised only to an undisturbed user can be
said.

| Actions | Code (`install.rs`) |
|---|---|
| `Begin` | `202-230` |
| `StageBinary` `CopyBinary` | `281-308`: `fs::copy` truncates, then writes |
| `PrepareState` | `239-279`, `310-330`: the staged CLI is run |
| `Probe` (`MayRegister`) | `587-631` |
| `Replace` `CodexAdd` | `600-605`, `674-686`: the codex command |
| `Add` | `456-478`, OpenCode's configuration |
| `LinkSkill` `Unlink` `Unlinked` `PlaceSkill` | `341-348`, `349`, `351-367` |
| `FingerprintCLI` `FingerprintServer` | `661`, `662`: the binaries are read one after the other |
| `CreateManifest` `WriteManifest` | `639-672`: `fs::write` truncates, then writes |
| `Uninstall` `Unregister` `Forget` | `855-888` |
| `RemoveSkill` `Unlink` `Unlinked` | `369-377` |
| `DoctorPasses` (what `doctor` answers in a state) | `688-853` |
| `Stop` | a kill, or an error of any of the calls |
| `Edit` | the user, another tool, or another program: the entry, or what is in the place of the skill, removed or replaced |

`MC*.tla` give the constants values. `*Proofs.tla` hold the theorems. In the
components, an operator whose name extends another one's (`HoldsRowUnasked`
beside `HoldsRow`) is a faulty variant of it: it is used by no specification,
and shows, put in the place of the original, that a property would notice.

## The runs

| Run | Question | Bounds and why they do |
|---|---|---|
| `protocol` | Two processes, two builds, both with all commands, owners that outlast their claims, one kill. Is every step one of `Attempts`? | four claims: a claim, its takeover, the takeover of that and one more; one function, since only the owner of its row and the artifact's tell functions apart |
| `leases` | If only one process ingests, without refresh, and work is done within ten minutes: does it implement `ExclusiveSpec`, do commands end, can every claim be taken again? | a function and a declaration, two builds, three claims, one kill |
| `catalog` | Both processes ingest and reindex | three claims, one kill |
| `duplicate` | Is an analysis under a live claim exclusive? **No** | one build, no kill |
| `generations` | Is what the cache check accepts the build's own analysis? **No** | two builds, no kill |
| `slices` | The walk on all small graphs and on those where the order of visits matters, with commits beside it | all 512 graphs on three nodes and all subsets of nine edges on five, the least that has a node cut off on one way and reachable on another at the limit; both directions, budgets from zero to beyond the number of nodes; of the graphs, four can be replaced, up to two times |
| `queries` | Traces, contexts and listings, with commits between their queries | seven handles, four snapshots: two sites cut for two reasons, results that leave through a store, a site with more behind it than the next, no return value; two commits, so that a site, the next one and the merge may each see another snapshot |
| `graph` | What is stored of a function, and its guards, after any order of materializations by two builds | every control-flow graph of four blocks with up to two successors each (the first has them in one of two numberings), which has loops without a way out, unreachable blocks and several exits; a switch with two edges to one block; pairs of functions that refer to each other |
| `names` | Is it so with a function that is called `f1`? **No** | one pair of functions |
| `store` | The state directory as a whole: initialization, opening, ingest and reindex by two processes under kills, power loss and tampering | three contents, two with one handle; no database, or one of another version; any number of failures, one path where somebody else removes, replaces and creates files. One suffix: another one makes other paths of the same kind, and the theorems hold for any |
| `opencode` | All commands one after the other, killed anywhere | two versions, since an entry, a manifest and a directory may each be of another one; two state directories, the second with the plain command only |
| `rivals` | Two commands at a time, and the user beside them: is a skill of somebody else kept? | Codex, one version, no flags: each kind of command meets each kind at every pair of steps, with any number of edits in between |

What they show:

* Whatever happens, a run that an answer, a row or a snapshot names as its
  evidence has succeeded; a run ends once; a claim is never left with a run
  that has ended; `structure_ready` means that a snapshot is there; and
  `completed_index_level = 'full'` means that every function has been
  analyzed, although it is written without a look at them. In the terms of
  `Attempts`: whatever is lost, stolen or repeated, what is stored for a
  function is published by one attempt in the step in which it succeeds.
* Exclusion is weaker than the claims suggest. It holds between commands that
  do not refresh the catalog. A refresh resets every function's row and erases
  its claim (`service.cpp:403`): a third process starts the same analysis at
  once (`duplicate`). Nothing is corrupted by that in one build: the last
  snapshot wins and is a good one.
* Between builds it does matter: the commit of `materialize` replaces the
  snapshot without asking for the claim, and only the update of the row asks
  (`service.cpp:796`, `931`). An older build can put its snapshot under the row
  of a newer one, and the newer build takes it for current (`generations`). It
  needs equal capability sets in both builds, which is the case from one patch
  release of the adapter to the next.
* With OpenCode, a command that succeeds undisturbed leaves the entry it was
  asked for and an installation that `doctor` passes, whatever was killed
  before; and if `doctor`, run in place, passes, the host runs just what it was
  run with.
* A skill of somebody else that is there while no command is between its look
  at the marker and its removal outlives all commands, with `--force` too, and
  a rename does not replace one that appears after a removal (`rivals`). One that
  appears between a command's look and its removal is lost; see below.
* All who run `irez init`, at once or killed in the middle, are answered with
  the one investigation that is stored, and no command ever opens half a
  schema: the deferred transaction of `initialize` costs a failure at most.
* The store holds what it promises on POSIX, and overwrites a file only if
  somebody else puts it there between an ingest's own `exists()` and `rename()`.
  On Windows the directory is not
  flushed (`store.cpp:254`), which is outside of this model.
* The walk's answer is a ball around the target, every cut is declared and what
  is left out is not in the answer, even if the snapshot is replaced meanwhile.
  Completeness and fetched entities then cannot be had: a node whose entity is
  gone is dropped without a word (`service.cpp:1316`).
* What is put together from several slices and queries may mix snapshots, as
  no command that reads holds a transaction; but every run that stored a row
  of it is named among its evidence, every cut is reported, with its own reason
  unless reasons are mixed, and an answer without cuts and without commits in
  between has all that leads to any of its sinks.
* After any order of materializations, what is stored under a function is what
  its latest analysis emitted for its body, and nothing of another function's;
  guards are exactly the branches a block depends on, its own excepted. It
  fails in a module with a function whose *name* is the *key* of another one
  (`names`): the adapter looks for either, and the first one wins
  (`adapter.cpp:247`).

Observed in the models of the queries and of the adapter, and not the subject
of a run:

* A block that depends on its own branch, as the header of a loop does, gets no
  guard for it (`Y != &BB`, `adapter.cpp:402`). `docs/PROGRESS.md:824-828`
  calls the computation Ferrante-Ottenstein-Warren, whose definition has these;
  `service.cpp:1404` says "exactly". `GuardsAreExact` therefore excepts them.
* The hint that results leave through stores is read before the slices, so it
  may be about an older snapshot than they are; a context reads through three
  connections.
* The operand shown beside a trace's sink cites no run.

Observed in the model of the installer, and not the subject of a run:

* With Codex the entry itself is never read, only that there is one
  (`install.rs:591`, `797`). An install over an entry that somebody else has
  made is reported as "already registered by this installer"
  (`install.rs:595-598`), doctor passes it and uninstall removes it.
  `SuccessIsRegistered`, `DoctorVouches` and `EntriesKeptUnlessForced` are
  false with `Hosts = {"codex"}`, and stated for OpenCode.
* `link_skill` and `remove_skill` look for the marker and then call
  `remove_dir_all` on the path (`install.rs:343` and `349`, `370` and `371`). A
  command sees irez's skill; another command removes it, or the user does; the
  user puts a skill of their own there; the first command removes it. TLC finds
  this on the instance of `rivals` if `ForeignSkillKept` is asked without
  `Settled`, that is, of every skill of somebody else. `README.md:244` of the
  repository says "unowned content is never replaced", `docs/MCP_SETUP.md:71-72`
  "unowned paths are never overwritten or removed".
* `update` forces (`install.rs:229`), so it replaces an entry that no installer
  has made without `--force`; `docs/UPGRADING.md:35-37` says it never does.
  `EntriesKeptUnlessForced` therefore counts it among the forced commands.
* A command killed inside `remove_dir_all` may have removed the ownership
  marker and left the rest (`Remnant`): every later install refuses that as an
  unowned skill. `README.md:243-244` of the repository says to reinstall.
* `doctor` run from a bundle compares its own binaries with the manifest, not
  the registered ones (`install.rs:746`); those may have been overwritten.
* An uninstall of OpenCode killed after it has written the configuration is
  refused for good, since the entry it recorded is gone (`install.rs:872`).
* A first install killed before the manifest leaves an entry without a record,
  which the next install does not take for its own unless forced.

### Fairness

`Analysis`: a process that is not killed keeps making steps (weak fairness of
`Step(p)`), and time passes (weak fairness of the expiries; without `SlowWork`
a claim expires only when its holder has gone). Nobody is obliged to start a
command, and no step is promised against a lock: SQLite's busy timeout turns
waiting into an error, which is among the ways an adapter call or a commit
breaks. Ids of claims are a finite set in the model only; a process that needs
one more than there are is stuck (`Exhausted`), which `Termination` excuses.
`Slice`: weak fairness of the walk, the only activity of its process. The walk
ends because no node enters the deque twice, also beside commits.
`StateDirectory` and `Installer` have no liveness property: every ingest and
every command may fail, and nobody is obliged to start another. `Queries` states no
fairness; its walk is that of `Slice`, and the steps around it are as many as
there are sinks, calls and returns.
Liveness is checked without symmetry, so `leases` and `slices` have none.

## The proofs

TLAPS checks the following for every number of processes, functions, builds,
contents, modules, nodes and every budget. Every safety and action property of
a run that passes is stated by a theorem, and both refinements. Where a theorem
has a hypothesis beyond the `ASSUME`s of the modules, it is a definition with a
name, or a set of hosts, and is given below; each time it is what a run assumes
too, and what is lost without it is shown by a run or said above.

The `ASSUME`s: null values are not members of the sets they stand beside; a
capability contract per build; finitely many entities; a module is a sequence
of functions over well-formed control-flow graphs, whose exit is not a block;
the listing order of the database (`ORDER BY ordinal`) has every entity that is
a return, a store, a call or the source of a relation; the children that are
listed are returns or calls. TLC evaluates them on every run.

*Analysis.* `TypeCorrect`: types, together with `MineIsRunning` - a process has
a run exactly while it works under a claim, the run is running, and no two
processes share one. That is what makes the rest inductive: `run_end` writes by
id and asks nothing, so that a run ends once (`RunsEndOnceHolds`) depends on
who may hold its id. `EvidenceIsSound` follows along the same lines: a run id
enters an answer, a row or a snapshot only in the transaction that ends it with
success, or is copied from one of the others, and by `RunsEndOnceHolds` it
stays successful. `AttemptsAreImplemented` is the refinement: `InProgress`
changes by the attempt of one process (`WorkOfOne`), and each kind of step maps
to a step of `Attempts` or to none. `StepKinds` classes the actions by what
they do to runs and claims (nothing, take one, give one up), so that most
lemmas need three cases, not twenty-five.

`InvariantHolds`: `IInv` of `Analysis.tla`, and from it `ClaimsAreAccountedFor`,
`ReadyMeansAnalyzed` and `FullIsFull`. Its parts are needed for each other: a
row that is ready keeps its snapshot, for a refresh takes away both
(`CatalogPublishes`); a claim is given up in the transaction that ends its run
(`ClaimsStayPut`); and while the loop of `--index full` runs, each function with
a body is analyzed, still in the list, or the one being looked at
(`LoopCovers`) - beside other processes, because a row never goes back from
ready without a refresh, and a refresh takes `full` back in the same
transaction. `OnlyTheOwnerReleasesHolds`: a claim in force goes with its owner's
work or with a commit of the catalog.

Exclusion is a matter of time and of who ingests, so its theorems have
hypotheses, those of the runs `catalog` and `leases`. Under `LeasesRespected`
(nobody outlasts its own claim of ten minutes; nothing in the code enforces
it) a process that builds the catalog has the artifact's row under its claim
(`CatalogHeld`): `SingleCatalogerHolds`, `CatalogRunSucceededHolds`. Under
`CatalogBuiltOnce` as well (one process ingests, without refresh; `duplicate`
and `generations` are what happens otherwise) `Leased` is inductive: only that
process is ever in the catalog's part of the protocol (`OnlyIngesters`), what
is published is not built again (`CatalogStands`), nobody works on what is not
published (`WorkIsPublished`), hence nobody's claim is erased (`FunctionHeld`)
and a row and its snapshot are written by one run (`RowNamesItsSnapshotHolds`,
`CurrentIsOwnGenerationHolds`). `ExclusiveHolds` is then the refinement of
`ExclusiveSpec`.

*Slice.* `SliceTypes`; `BoundariesHold`, from `Order`: the deque is ordered by
depth, spans at most two depths, and from the first cut on the node being
visited is at the maximum depth or the budget is used up - so nothing becomes
known after a cut. `BudgetHolds`. `AnswersAreConnected`, from `Linked`, with no
assumption on the database. `UntruncatedAnswersAreComplete`, from `Covered`:
each relation of a visited node is in the answer, cut, or still to be looked
at. Reachability is stated with closed sets, so no induction is needed.
`RelationsJoinNodesHolds`, from `Fetched`: without commits in between, every
node known has an entity to fetch. `TheDepthBudgetIsARadius`, from `Layered`:
what has been visited is in the ball of the depth the walk is at, and that ball
is known as long as the node budget lasts. `Ball` is a
recursive function; `BallsGrow` is all that is used of it.

*LeastElements.* The library's induction theorems cannot be used, but its
theorem that strict inclusion is well-founded on the subsets of a finite set
can, as it is about a given relation. From it: a family of such sets has a
minimal member (`MinimalSet`), a set of numbers has a least one
(`LeastNumber`), and a set of numbers with zero and every successor has all of
them (`AllNumbers`). It is what the proofs about `Ball`, about the
post-dominator tree and about `InOrder` of `Queries` rest on.

*ControlDependence and FunctionGraph.* `EmittedIsControlDependence`: for every
control-flow graph, what the adapter's loop emits is control dependence by the
textbook definition, but for the dependence of a block on itself. A block
post-dominates another one if no closed region around the latter leads out
without it; post-dominators of a block form a chain, so the immediate one is
the next of the chain (`Parent`), and the loop that climbs from a successor
until it meets the branch's own parent visits exactly the post-dominators of
the successor that do not post-dominate the branch strictly. Loops without a
way out and unreachable blocks are covered. `SnapshotIsTheBodyHolds` and
`OthersUntouchedHolds`: a transaction deletes and inserts by function, and what
is stored under a function joins handles of its own and of the module
(`OwnedAreInner`), so that deleting another one's handles takes nothing of it
away. Which body they describe needs `NamesAreNotKeys` (no function's name is
the key of another one), for the adapter takes whichever it meets first;
`names` is what happens otherwise. `GuardsAreExactHolds` and
`UnguardedIsUnconditionalHolds` join the two under the same hypothesis.

*ArtifactStore.* `StoreTypes`; `RowsAreBacked`, from `Sound`: at an untouched
path there is nothing or a complete, flushed file, in the directory and on
disk; `AnswersAreVerified`, `RefusalsAreExplained`. `FilesAreImmutable`, from
`Free`: an ingest that has found no file finds none when it renames, unless
somebody else has been there, since other ingests wait for its lock.

*StateDirectory.* `Composition`: a behaviour of the directory is one of the
store and one of the set-up, hence `DirectoryBacked`, and likewise whatever
else is proved of either of them. `OneInvestigationHolds` and
`NeverHalfMadeHolds`, from `Sane` of the set-up: a database is absent, empty,
of another version or complete; who holds the lock has seen the empty one and
it is still empty; who has found an investigation without the lock sees the one
that is stored, which nobody can replace.

*Queries.* `EvidenceCoversAll`, from `Evidenced` and `Merged`: the run of a row
that is cited is in the evidence or among the runs of the site at work, which
are merged before the command can end. `CutsAreReportedAlways`, from
`CutsInv`: per site a reason is given exactly if something was left out, and
the reasons of the answer are those of its sites. Both hold beside any number
of commits. `AnswersAreComplete`, from `AnswerInv`: a walk inside a trace is
one of `Slice` with another request, so what is proved of it is stated for any
request (`WalkTypes`) and used again (`WalkInv`); at any moment the sinks that
are listed are those already traced, the one at work and those still to come
(`Tracked`); a finished site has all that its closed region has (`Gathered`)
and the targets of its calls (`CallsCited`); the hint and the listings have what
they counted (`Hinted`, `ListedAll`). `InOrderIsThoseWithAnOrdinal` says what
the bounded, ordered reads return before they are cut.

*Installer.* `InstallerTypes`; `RegisteredBinariesStay`, from `Staged`: a
command past the staging has both binaries of its version, and nothing ever
removes one, so an entry may be written without looking. `ForeignSkillsStay`:
as long as the skill is somebody else's, it has no marker, so no command's look
leads to a removal, and those that are past their look are excluded by
`Settled`, which every command step preserves. `OpenCodeEntriesStay`, from
`Cautious`: what an undisturbed command has found in `Probe` or `Uninstall`
still holds when it writes. `SuccessIsRegisteredHolds`: an undisturbed command
past `Add` has its entry (`Registers`). `DoctorVouchesHolds`, from
`VersionsKept` and `ManifestsKept`: an entry or a manifest of a version names
that version's directory, whoever wrote it. These three assume `Hosts \subseteq
{"opencode"}`, for with Codex they are false. `SuccessIsHealthyHolds` is about
either host: an undisturbed command keeps what it has placed, step by step
(`Bundled`, `Placed`), and its manifest records just that (`Records`).
Undisturbed is not enough there: a rival that was in the middle of its copy
when the command began writes into the same file, and a mixture of the two may
be left (`CopyBinary`). The theorem assumes `[]NoRivalCopies` (no two copies of
the same binary of one version at a time), and `OneCommandAtATime` derives it
from there being one process, as in the run `opencode`.

Only model-checked: `Termination` of `Analysis` and of `Slice`, and
`ClaimsAreRecoverable`, as liveness and ENABLED are out of this prover's reach;
and the three properties that are violated, by their counterexamples. Of
recursion over data, what is needed is proved by way of least elements. `IInv`
was checked with the run `protocol` before it was proved.

## Not modelled

LLVM; of the adapter's records, source locations, attributes, texts, arguments
and instructions. SQLite and the file system (assumed: atomic serialised durable
transactions; flushed data and names survive). The listings that print rows
(`status`, `artifacts`, `functions`, `capabilities`), which sections a context
has, the exact IR of `graph`; formatting of answers and the repair of their
UTF-8, argument parsing, packaging, the skills, demos and benchmarks. The MCP
server keeps nothing: its one effect on the system, the kill at the timeout, is
`Crash`. Of the installer: the scanner of JSON with comments, where files are
looked up, the backups of a configuration, and Windows, where replacing a file
is not atomic and an executable in use cannot be overwritten. See the
components in `PROJECT.json`.

## Plan

Done, in the order of what the system depends on most: `Analysis` and
`Attempts`, `Slice`, `ArtifactStore`, `Installer`, `StateSetup` and
`StateDirectory`, `FunctionGraph`, `Queries`, each with its run and with a
theorem for each of its safety properties. Next:

1. The safety part of `Termination`: a walk's measure (what is unseen, what is
   in the deque, what is left to look at) goes down with each of its steps.
2. Weaker hypotheses: `RowNamesItsSnapshot` beside several ingesting processes
   of one build, where a claim is erased but snapshot and row still agree.
3. The scanner of the installer and the envelope's UTF-8 as pure algorithms.

------------------------------ MODULE Analysis ------------------------------
(***************************************************************************)
(* The analysis state of one stored artifact and the irez processes that   *)
(* share it: the artifact's catalog claim, the per-function                *)
(* materialization claims, the snapshots of relations and capabilities,    *)
(* and the analysis runs that account for all of them.                     *)
(*                                                                         *)
(* Every `irez` invocation is a process of its own over one SQLite file.   *)
(* A step is one transaction, or one statement in autocommit mode, of      *)
(* Service (src/src/service.cpp): SQLite serialises those, and nothing     *)
(* else of the processes is shared.  The adapter runs between two          *)
(* transactions, holding only the claim.                                   *)
(***************************************************************************)
EXTENDS Naturals, FiniteSets

CONSTANTS
    Procs,        \* operating-system processes that run irez commands
    Funcs,        \* the functions of the artifact's module
    Decls,        \* those of Funcs that are declarations
    RunIds,       \* fresh ids of claims; a claim's transaction makes its run
    Versions,     \* adapter versions of the installed builds
    Build,        \* Build[p]: the version of the binary process p runs
    Contract,     \* Contract[v]: the capability set build v demands and writes
    Ingesters,    \* the processes that are given ingest and reindex commands
    SlowWork,     \* may a live process outlast its own ten-minute claim?
    Refreshes,    \* the values --refresh takes on ingest (TRUE: also reindex)
    MaxCrashes,   \* bound on crashes
    NoRun, NoFunc, NoVersion

ASSUME ConstantsOK ==
    /\ Decls \subseteq Funcs
    /\ NoFunc \notin Funcs
    /\ NoRun \notin RunIds
    /\ NoVersion \notin Versions
    /\ Build \in [Procs -> Versions]
    /\ Ingesters \subseteq Procs
    /\ SlowWork \in BOOLEAN
    /\ Refreshes \subseteq BOOLEAN

VARIABLES
    artifact,   \* the row of table artifacts
    mat,        \* mat[f]: the row of table materializations
    entity,     \* entity[f]: the column materialization of f's entities row
    snapshot,   \* snapshot[f]: f's relations, inner entities, capabilities
    runs,       \* runs[r]: the column status of table analysis_runs
    pc,         \* pc[p]: the next step of process p
    cmd,        \* cmd[p]: the command p runs, its options and its flags
    fn,         \* fn[p]: the function p materializes or queries
    todo,       \* todo[p]: functions a full ingest has still to materialize
    mine,       \* mine[p]: the claim (and run) p started and has not ended
    cited,      \* cited[p]: the runs p's answer cites as evidence
    crashes     \* how many processes have been killed so far

db == <<artifact, mat, entity, snapshot, runs>>
locals == <<pc, cmd, fn, todo, mine, cited>>
vars == <<db, locals, crashes>>
-----------------------------------------------------------------------------
CatalogStatus == {"absent", "stored", "cataloging", "catalog_ready", "failed"}
MatStatus == {"none", "catalog_only", "declaration_only", "materializing",
              "structure_ready", "failed"}
EntityStatus == {"none", "catalog_only", "declaration_only", "structure_ready"}
RunStatus == {"unused", "running", "success", "failed"}
Level == {"none", "catalog", "full"}
Labels == {"idle", "store", "check", "request", "claimCatalog", "catalog",
           "catalogFail", "collect", "next", "row", "manifest", "claim",
           "analyze", "analyzeFail", "ensure", "ensureManifest", "read"}

Run == RunIds \cup {NoRun}
Version == Versions \cup {NoVersion}
Command == [op : {"none", "ingest", "materialize", "query"},
            index : {"catalog", "full"}, refresh : BOOLEAN]
NoCommand == [op |-> "none", index |-> "catalog", refresh |-> FALSE]
NoSnapshot == [run |-> NoRun, ver |-> NoVersion]

ArtifactRow == [status : CatalogStatus, owner : Run, stale : BOOLEAN,
                run : Run, requested : Level, completed : Level, ver : Version]
MatRow == [status : MatStatus, owner : Run, stale : BOOLEAN,
           run : Run, ver : Version]
Snapshot == [run : Run, ver : Version]

TypeOK ==
    /\ artifact \in ArtifactRow
    /\ mat \in [Funcs -> MatRow]
    /\ entity \in [Funcs -> EntityStatus]
    /\ snapshot \in [Funcs -> Snapshot]
    /\ runs \in [RunIds -> RunStatus]
    /\ pc \in [Procs -> Labels]
    /\ cmd \in [Procs -> Command]
    /\ fn \in [Procs -> Funcs \cup {NoFunc}]
    /\ todo \in [Procs -> SUBSET Funcs]
    /\ mine \in [Procs -> Run]
    /\ cited \in [Procs -> SUBSET RunIds]

\* A state directory right after `irez init`: no artifact, no run.
Init ==
    /\ artifact = [status |-> "absent", owner |-> NoRun, stale |-> FALSE,
                   run |-> NoRun, requested |-> "none", completed |-> "none",
                   ver |-> NoVersion]
    /\ mat = [f \in Funcs |-> [status |-> "none", owner |-> NoRun,
                               stale |-> FALSE, run |-> NoRun,
                               ver |-> NoVersion]]
    /\ entity = [f \in Funcs |-> "none"]
    /\ snapshot = [f \in Funcs |-> NoSnapshot]
    /\ runs = [r \in RunIds |-> "unused"]
    /\ pc = [p \in Procs |-> "idle"]
    /\ cmd = [p \in Procs |-> NoCommand]
    /\ fn = [p \in Procs |-> NoFunc]
    /\ todo = [p \in Procs |-> {}]
    /\ mine = [p \in Procs |-> NoRun]
    /\ cited = [p \in Procs |-> {}]
    /\ crashes = 0
-----------------------------------------------------------------------------
(* What the steps are built from.                                          *)

Goto(p, label) == pc' = [pc EXCEPT ![p] = label]

\* The process ends: it printed its answer, exited with an error, or died.
\* cited[p] is the answer it leaves behind.
Exit(p) ==
    /\ Goto(p, "idle")
    /\ cmd' = [cmd EXCEPT ![p] = NoCommand]
    /\ fn' = [fn EXCEPT ![p] = NoFunc]
    /\ todo' = [todo EXCEPT ![p] = {}]
    /\ mine' = [mine EXCEPT ![p] = NoRun]

\* materialize() returns to whoever called it; its exceptions do not.
AfterMaterialize(p) ==
    CASE cmd[p].op = "ingest" -> "next"
      [] cmd[p].op = "query" -> "read"
      [] OTHER -> "idle"

Return(p) ==
    IF AfterMaterialize(p) = "idle"
    THEN Exit(p)
    ELSE /\ Goto(p, AfterMaterialize(p))
         /\ mine' = [mine EXCEPT ![p] = NoRun]
         /\ UNCHANGED <<cmd, fn, todo>>

\* A query that finds f out of date materializes with refresh=true; the
\* loop of a full ingest, `materialize` and `expand` take a current snapshot.
MayUseCache(p) == cmd[p].op # "query"

CatalogCurrent(p) ==
    artifact.status = "catalog_ready" /\ artifact.ver = Build[p]

CatalogClaimableAlways == TRUE

CatalogClaimable == artifact.status # "cataloging" \/ artifact.stale

\* The row half of the cache check: status, adapter id and versions.
RowCurrent(p, f) ==
    mat[f].status = "structure_ready" /\ mat[f].ver = Build[p]

\* The manifest half: names and precisions, not who wrote them.
ManifestCurrent(p, f) ==
    /\ snapshot[f].ver # NoVersion
    /\ Contract[snapshot[f].ver] = Contract[Build[p]]

ClaimableNever(f) == mat[f].status # "materializing"
ClaimableAlways(f) == TRUE

Claimable(f) == mat[f].status # "materializing" \/ mat[f].stale

\* `WHERE ... AND claim_owner=?`: is the row still under p's claim?
HoldsRowUnasked(p) == TRUE
HoldsRowNever(p) == FALSE

HoldsRow(p) == mat[fn[p]].owner = mine[p]

\* Store::run_end, always inside the transaction that ends the work.
EndRunLost(p, status) == UNCHANGED runs

EndRun(p, status) == runs' = [runs EXCEPT ![mine[p]] = status]

\* Is the claim c held by a process that is still alive?
HeldByLive(c) == \E p \in Procs : mine[p] = c
-----------------------------------------------------------------------------
(* Commands start.                                                         *)

StartIngest(p) ==
    /\ p \in Ingesters
    /\ pc[p] = "idle"
    /\ \E index \in {"catalog", "full"}, refresh \in Refreshes :
          cmd' = [cmd EXCEPT ![p] = [op |-> "ingest", index |-> index,
                                     refresh |-> refresh]]
    /\ Goto(p, "store")
    /\ cited' = [cited EXCEPT ![p] = {}]
    /\ UNCHANGED <<db, fn, todo, mine, crashes>>

\* `materialize function` and `expand` on a handle some catalog published.
StartMaterialize(p) ==
    /\ pc[p] = "idle"
    /\ \E f \in Funcs :
          /\ entity[f] # "none"
          /\ fn' = [fn EXCEPT ![p] = f]
    /\ cmd' = [cmd EXCEPT ![p] = [NoCommand EXCEPT !.op = "materialize"]]
    /\ Goto(p, "row")
    /\ cited' = [cited EXCEPT ![p] = {}]
    /\ UNCHANGED <<db, todo, mine, crashes>>

\* show, source, uses, slice, graph, guards, context, trace-*.
StartQuery(p) ==
    /\ pc[p] = "idle"
    /\ \E f \in Funcs :
          /\ entity[f] # "none"
          /\ fn' = [fn EXCEPT ![p] = f]
    /\ cmd' = [cmd EXCEPT ![p] = [NoCommand EXCEPT !.op = "query"]]
    /\ Goto(p, "ensure")
    /\ cited' = [cited EXCEPT ![p] = {}]
    /\ UNCHANGED <<db, todo, mine, crashes>>
-----------------------------------------------------------------------------
(* ingest and reindex.                                                     *)

\* The IMMEDIATE transaction around ingest_file: the row is inserted once,
\* and whoever inserted it builds the catalog.
StoreArtifact(p) ==
    /\ pc[p] = "store"
    /\ \/ /\ artifact.status = "absent"
          /\ artifact' = [artifact EXCEPT !.status = "stored",
                                          !.requested = "catalog",
                                          !.ver = Build[p]]
          /\ cmd' = [cmd EXCEPT ![p].refresh = TRUE]
       \/ /\ artifact.status # "absent"
          /\ UNCHANGED <<artifact, cmd>>
    /\ Goto(p, "check")
    /\ UNCHANGED <<mat, entity, snapshot, runs, fn, todo, mine, cited, crashes>>

\* The row is read again, outside that transaction.  From here on
\* cmd[p].refresh is the local catalog_refresh.
CheckCatalog(p) ==
    /\ pc[p] = "check"
    /\ LET refresh == cmd[p].refresh \/ ~CatalogCurrent(p) IN
          \/ /\ cmd[p].index = "full"
             /\ Goto(p, "request")
             /\ cmd' = [cmd EXCEPT ![p].refresh = refresh]
             /\ UNCHANGED <<fn, todo, mine>>
          \/ /\ cmd[p].index = "catalog" /\ refresh
             /\ Goto(p, "claimCatalog")
             /\ cmd' = [cmd EXCEPT ![p].refresh = TRUE]
             /\ UNCHANGED <<fn, todo, mine>>
          \/ /\ cmd[p].index = "catalog" /\ ~refresh
             /\ Exit(p)
    /\ UNCHANGED <<db, cited, crashes>>

RequestFull(p) ==
    /\ pc[p] = "request"
    /\ artifact' = [artifact EXCEPT !.requested = "full"]
    /\ Goto(p, IF cmd[p].refresh THEN "claimCatalog" ELSE "collect")
    /\ UNCHANGED <<mat, entity, snapshot, runs, cmd, fn, todo, mine, cited,
                   crashes>>

ClaimCatalog(p) ==
    /\ pc[p] = "claimCatalog"
    /\ CatalogClaimable
    /\ \E r \in RunIds :
          /\ runs[r] = "unused"
          /\ artifact' = [artifact EXCEPT !.status = "cataloging",
                                          !.owner = r,
                                          !.stale = FALSE,
                                          !.run = r,
                                          !.requested = cmd[p].index]
          /\ runs' = [runs EXCEPT ![r] = "running"]
          /\ mine' = [mine EXCEPT ![p] = r]
    /\ Goto(p, "catalog")
    /\ UNCHANGED <<mat, entity, snapshot, cmd, fn, todo, cited, crashes>>

\* Exit code 7.
CatalogBusy(p) ==
    /\ pc[p] = "claimCatalog"
    /\ ~CatalogClaimable
    /\ Exit(p)
    /\ UNCHANGED <<db, cited, crashes>>

\* The adapter threw or emitted an error record or no module, or the commit
\* transaction below threw and was rolled back.
CatalogBreaks(p) ==
    /\ pc[p] = "catalog"
    /\ Goto(p, "catalogFail")
    /\ UNCHANGED <<db, cmd, fn, todo, mine, cited, crashes>>

\* Neither this transaction nor CommitCatalog's asks who owns the claim now.
FailCatalog(p) ==
    /\ pc[p] = "catalogFail"
    /\ EndRun(p, "failed")
    /\ artifact' = [artifact EXCEPT !.status = "failed", !.owner = NoRun,
                                    !.stale = FALSE]
    /\ Exit(p)
    /\ UNCHANGED <<mat, entity, snapshot, cited, crashes>>

CatalogLevelReady(f) ==
    IF f \in Decls THEN "declaration_only" ELSE "structure_ready"
CatalogLevel(f) ==
    IF f \in Decls THEN "declaration_only" ELSE "catalog_only"

\* The upsert of a materializations row resets its status and erases its
\* claim; run, versions, relations and capabilities stay as they are.
CommitCatalog(p) ==
    /\ pc[p] = "catalog"
    /\ artifact' = [artifact EXCEPT !.status = "catalog_ready",
                                    !.owner = NoRun,
                                    !.stale = FALSE,
                                    !.completed = "catalog",
                                    !.ver = Build[p]]
    /\ mat' = [f \in Funcs |-> [mat[f] EXCEPT !.status = CatalogLevel(f),
                                              !.owner = NoRun,
                                              !.stale = FALSE]]
    /\ entity' = [f \in Funcs |-> CatalogLevel(f)]
    /\ EndRun(p, "success")
    /\ \/ /\ cmd[p].index = "full"
          /\ Goto(p, "collect")
          /\ mine' = [mine EXCEPT ![p] = NoRun]
          /\ UNCHANGED <<cmd, fn, todo>>
       \/ /\ cmd[p].index = "catalog"
          /\ Exit(p)
    /\ UNCHANGED <<snapshot, cited, crashes>>

\* SELECT the handles of the functions with a body.
CollectFunctions(p) ==
    /\ pc[p] = "collect"
    /\ todo' = [todo EXCEPT ![p] = {f \in Funcs \ Decls : entity[f] # "none"}]
    /\ Goto(p, "next")
    /\ UNCHANGED <<db, cmd, fn, mine, cited, crashes>>

NextFunctionAgain(p) ==
    /\ pc[p] = "next"
    /\ \E f \in todo[p] : fn' = [fn EXCEPT ![p] = f]
    /\ Goto(p, "row")
    /\ UNCHANGED <<db, cmd, todo, mine, cited, crashes>>

NextFunction(p) ==
    /\ pc[p] = "next"
    /\ \E f \in todo[p] :
          /\ fn' = [fn EXCEPT ![p] = f]
          /\ todo' = [todo EXCEPT ![p] = @ \ {f}]
    /\ Goto(p, "row")
    /\ UNCHANGED <<db, cmd, mine, cited, crashes>>

\* Unconditional: no look at what the functions' rows say by now.
CompleteFull(p) ==
    /\ pc[p] = "next"
    /\ todo[p] = {}
    /\ artifact' = [artifact EXCEPT !.completed = "full"]
    /\ Exit(p)
    /\ UNCHANGED <<mat, entity, snapshot, runs, cited, crashes>>
-----------------------------------------------------------------------------
(* materialize.                                                            *)

ReadRow(p) ==
    /\ pc[p] = "row"
    /\ \/ /\ mat[fn[p]].status = "declaration_only"
          /\ Return(p)
          /\ UNCHANGED cited
       \/ /\ RowCurrent(p, fn[p])
          /\ Goto(p, "manifest")
          /\ cited' = IF cmd[p].op = "materialize"
                      THEN [cited EXCEPT ![p] = {mat[fn[p]].run} \cap RunIds]
                      ELSE cited
          /\ UNCHANGED <<cmd, fn, todo, mine>>
       \/ /\ mat[fn[p]].status # "declaration_only"
          /\ ~RowCurrent(p, fn[p])
          /\ Goto(p, "claim")
          /\ UNCHANGED <<cmd, fn, todo, mine, cited>>
    /\ UNCHANGED <<db, crashes>>

ReadManifest(p) ==
    /\ pc[p] = "manifest"
    /\ \/ /\ MayUseCache(p) /\ ManifestCurrent(p, fn[p])
          /\ Return(p)
          /\ UNCHANGED cited
       \/ /\ ~(MayUseCache(p) /\ ManifestCurrent(p, fn[p]))
          /\ Goto(p, "claim")
          /\ cited' = [cited EXCEPT ![p] = {}]
          /\ UNCHANGED <<cmd, fn, todo, mine>>
    /\ UNCHANGED <<db, crashes>>

ClaimFunctionTidy(p) ==
    /\ pc[p] = "claim"
    /\ Claimable(fn[p])
    /\ \E r \in RunIds :
          /\ runs[r] = "unused"
          /\ mat' = [mat EXCEPT ![fn[p]] = [@ EXCEPT !.status = "materializing",
                                                  !.owner = r,
                                                  !.stale = FALSE]]
          /\ runs' = [q \in RunIds |-> IF q = r THEN "running"
                                      ELSE IF q = mat[fn[p]].owner THEN "failed"
                                      ELSE runs[q]]
          /\ mine' = [mine EXCEPT ![p] = r]
    /\ Goto(p, "analyze")
    /\ UNCHANGED <<artifact, entity, snapshot, cmd, fn, todo, cited, crashes>>

\* The row may have become current since ReadRow: it is claimed all the same.
ClaimFunction(p) ==
    /\ pc[p] = "claim"
    /\ Claimable(fn[p])
    /\ \E r \in RunIds :
          /\ runs[r] = "unused"
          /\ mat' = [mat EXCEPT ![fn[p]] = [@ EXCEPT !.status = "materializing",
                                                  !.owner = r,
                                                  !.stale = FALSE]]
          /\ runs' = [runs EXCEPT ![r] = "running"]
          /\ mine' = [mine EXCEPT ![p] = r]
    /\ Goto(p, "analyze")
    /\ UNCHANGED <<artifact, entity, snapshot, cmd, fn, todo, cited, crashes>>

FunctionBusySkipped(p) ==
    /\ pc[p] = "claim"
    /\ ~Claimable(fn[p])
    /\ Return(p)
    /\ UNCHANGED <<db, cited, crashes>>

\* Exit code 7; a full ingest is abandoned with it.
FunctionBusy(p) ==
    /\ pc[p] = "claim"
    /\ ~Claimable(fn[p])
    /\ Exit(p)
    /\ UNCHANGED <<db, cited, crashes>>

\* The adapter threw or emitted an error record, a record was malformed, or
\* the commit transaction threw and was rolled back.
AnalysisBreaks(p) ==
    /\ pc[p] = "analyze"
    /\ Goto(p, "analyzeFail")
    /\ UNCHANGED <<db, cmd, fn, todo, mine, cited, crashes>>

FailFunction(p) ==
    /\ pc[p] = "analyzeFail"
    /\ EndRun(p, "failed")
    /\ mat' = IF HoldsRow(p)
              THEN [mat EXCEPT ![fn[p]] = [@ EXCEPT !.status = "failed",
                                                    !.owner = NoRun,
                                                    !.stale = FALSE]]
              ELSE mat
    /\ Exit(p)
    /\ UNCHANGED <<artifact, entity, snapshot, cited, crashes>>

CommitFunctionBare(p) ==
    /\ pc[p] = "analyze"
    /\ snapshot' = [snapshot EXCEPT ![fn[p]] = [run |-> mine[p],
                                                ver |-> Build[p]]]
    /\ entity' = [entity EXCEPT ![fn[p]] = "structure_ready"]
    /\ mat' = [mat EXCEPT ![fn[p]].status = "structure_ready",
                          ![fn[p]].owner = NoRun,
                          ![fn[p]].run = mine[p]]
    /\ EndRun(p, "success")
    /\ Return(p)
    /\ UNCHANGED <<artifact, cited, crashes>>

\* The snapshot and the capability rows are replaced whoever owns the claim;
\* only the update of the materializations row asks.
CommitFunction(p) ==
    /\ pc[p] = "analyze"
    /\ snapshot' = [snapshot EXCEPT ![fn[p]] = [run |-> mine[p],
                                                ver |-> Build[p]]]
    /\ entity' = [entity EXCEPT ![fn[p]] = "structure_ready"]
    /\ mat' = IF HoldsRow(p)
              THEN [mat EXCEPT ![fn[p]] = [status |-> "structure_ready",
                                           owner |-> NoRun,
                                           stale |-> FALSE,
                                           run |-> mine[p],
                                           ver |-> Build[p]]]
              ELSE mat
    /\ EndRun(p, "success")
    /\ cited' = IF cmd[p].op = "materialize"
                THEN [cited EXCEPT ![p] = {mine[p]}] ELSE cited
    /\ Return(p)
    /\ UNCHANGED <<artifact, crashes>>
-----------------------------------------------------------------------------
(* Queries: ensure_materialized, then one or more reads of the relations,  *)
(* each in a transaction of its own.                                       *)

EnsureRow(p) ==
    /\ pc[p] = "ensure"
    /\ \/ /\ mat[fn[p]].status = "declaration_only"
          /\ Goto(p, "read")
       \/ /\ RowCurrent(p, fn[p])
          /\ Goto(p, "ensureManifest")
       \/ /\ mat[fn[p]].status # "declaration_only"
          /\ ~RowCurrent(p, fn[p])
          /\ Goto(p, "row")
    /\ UNCHANGED <<db, cmd, fn, todo, mine, cited, crashes>>

EnsureManifest(p) ==
    /\ pc[p] = "ensureManifest"
    /\ Goto(p, IF ManifestCurrent(p, fn[p]) THEN "read" ELSE "row")
    /\ UNCHANGED <<db, cmd, fn, todo, mine, cited, crashes>>

ReadRelations(p) ==
    /\ pc[p] = "read"
    /\ cited' = [cited EXCEPT ![p] = @ \cup ({snapshot[fn[p]].run} \cap RunIds)]
    /\ \/ UNCHANGED <<pc, cmd, fn, todo, mine>>
       \/ Exit(p)
    /\ UNCHANGED <<db, crashes>>
-----------------------------------------------------------------------------
(* The environment.                                                        *)

\* A kill, a power cut, or the MCP server's 60-second timeout.
Crash(p) ==
    /\ pc[p] # "idle"
    /\ crashes < MaxCrashes
    /\ crashes' = crashes + 1
    /\ Exit(p)
    /\ cited' = [cited EXCEPT ![p] = {}]
    /\ UNCHANGED db

\* Ten minutes pass since the claim was taken.
ExpireCatalog ==
    /\ artifact.status = "cataloging" /\ ~artifact.stale
    /\ SlowWork \/ ~HeldByLive(artifact.owner)
    /\ artifact' = [artifact EXCEPT !.stale = TRUE]
    /\ UNCHANGED <<mat, entity, snapshot, runs, locals, crashes>>

ExpireFunction(f) ==
    /\ mat[f].status = "materializing" /\ ~mat[f].stale
    /\ SlowWork \/ ~HeldByLive(mat[f].owner)
    /\ mat' = [mat EXCEPT ![f].stale = TRUE]
    /\ UNCHANGED <<artifact, entity, snapshot, runs, locals, crashes>>
-----------------------------------------------------------------------------
Start(p) == StartIngest(p) \/ StartMaterialize(p) \/ StartQuery(p)

Ingest(p) ==
    \/ StoreArtifact(p) \/ CheckCatalog(p) \/ RequestFull(p)
    \/ ClaimCatalog(p) \/ CatalogBusy(p) \/ CatalogBreaks(p)
    \/ FailCatalog(p) \/ CommitCatalog(p)
    \/ CollectFunctions(p) \/ NextFunction(p) \/ CompleteFull(p)

Materialize(p) ==
    \/ ReadRow(p) \/ ReadManifest(p) \/ ClaimFunction(p) \/ FunctionBusy(p)
    \/ AnalysisBreaks(p) \/ FailFunction(p) \/ CommitFunction(p)

Query(p) == EnsureRow(p) \/ EnsureManifest(p) \/ ReadRelations(p)

Step(p) == Ingest(p) \/ Materialize(p) \/ Query(p)

Expire == ExpireCatalog \/ \E f \in Funcs : ExpireFunction(f)

\* The run ids of the model are used up (the code has no such bound): a
\* process that needs one more is stuck, and that is no deadlock.
Exhausted == \A r \in RunIds : runs[r] # "unused"
OutOfRuns == Exhausted /\ UNCHANGED vars

Next ==
    \/ \E p \in Procs : Start(p) \/ Step(p) \/ Crash(p)
    \/ Expire
    \/ OutOfRuns

Spec == Init /\ [][Next]_vars

\* A process that is not killed keeps running, and the clock advances.
\* Nobody is obliged to start a command.
Fairness ==
    /\ \A p \in Procs : WF_vars(Step(p))
    /\ WF_vars(ExpireCatalog)
    /\ \A f \in Funcs : WF_vars(ExpireFunction(f))

FairSpec == Spec /\ Fairness
-----------------------------------------------------------------------------
(* What must hold.                                                         *)

\* Whatever the interleaving, crash or expiry, an analysis run that an answer
\* cites, that a function's row names or that a stored snapshot was written
\* under has succeeded (CommitFunction's transaction, service.cpp:766-939).
EvidenceSucceeded ==
    /\ \A p \in Procs : \A r \in cited[p] : runs[r] = "success"
    /\ \A f \in Funcs : \A r \in {mat[f].run, snapshot[f].run} \cap RunIds :
          runs[r] = "success"

\* A claim on the artifact or on a function is never left behind by a run
\* that has ended: the transaction that ends the run also gives up the claim
\* it took, unless somebody else holds the row by then.
ClaimsBelongToRunningRuns ==
    /\ artifact.status = "cataloging" => runs[artifact.owner] = "running"
    /\ \A f \in Funcs :
          mat[f].status = "materializing" => runs[mat[f].owner] = "running"

\* A row that says structure_ready has the snapshot of some finished analysis
\* behind it, however many claims were stolen or erased on the way: "a missing
\* relation row is never used as a proxy for whether an analyzer ran".
ReadyHasSnapshot ==
    \A f \in Funcs : mat[f].status = "structure_ready" =>
        /\ mat[f].run # NoRun
        /\ snapshot[f].run # NoRun

\* completed_index_level 'full' is written without looking at the functions;
\* still every function with a body has been analyzed by then.
FullMeansAnalyzed ==
    artifact.completed = "full" =>
        \A f \in Funcs \ Decls : snapshot[f].run # NoRun

\* A run ends once: no later failure path or second commit rewrites how a
\* finished run ended.
RunsEndOnce ==
    [][\A r \in RunIds :
          runs[r] \in {"success", "failed"} => runs'[r] = runs[r]]_vars

\* A claim on a function that is not stale is given up by its own process,
\* or erased by a catalog refresh, and by nobody else.
OnlyTheOwnerReleases ==
    [][\A f \in Funcs :
          (mat[f].status = "materializing" /\ ~mat[f].stale
             /\ mat'[f].owner # mat[f].owner)
          => \E p \in Procs : \/ mine[p] = mat[f].owner /\ mine'[p] = NoRun
                              \/ pc[p] = "catalog" /\ pc'[p] # "catalog"]_vars

Analyzing(p, f) == pc[p] \in {"analyze", "analyzeFail"} /\ fn[p] = f

\* While one process analyzes a function under a claim younger than ten
\* minutes, no other process analyzes the same function: it exits with 7.
SingleAnalyzer ==
    \A f \in Funcs, p, q \in Procs :
        Analyzing(p, f) /\ Analyzing(q, f) => p = q

\* The same for the catalog.
SingleCataloger ==
    \A p, q \in Procs :
        {pc[p], pc[q]} \subseteq {"catalog", "catalogFail"} => p = q

\* The run and the version a current row names are those of the snapshot.
RowNamesItsSnapshot ==
    \A f \in Funcs : mat[f].status = "structure_ready" =>
        snapshot[f] = [run |-> mat[f].run, ver |-> mat[f].ver]

\* A ready catalog was built by the run the artifact names.
CatalogRunSucceeded ==
    artifact.status = "catalog_ready" => runs[artifact.run] = "success"

\* When both halves of the cache check pass for a build, the analysis that is
\* served without further work is that build's own: "stale analysis inside
\* the supported schema is refreshed on demand" (docs/MCP_SETUP.md:117).
CurrentIsOwnGeneration ==
    \A p \in Procs, f \in Funcs :
        RowCurrent(p, f) /\ ManifestCurrent(p, f)
        => snapshot[f].ver = Build[p]

\* Every command comes to an end: nobody waits for a claim.
Termination ==
    \A p \in Procs : pc[p] # "idle" ~> (pc[p] = "idle" \/ Exhausted)

\* A claim, its holder dead or alive, cannot keep others out for ever.
ClaimsAreRecoverable ==
    /\ ~CatalogClaimable ~> CatalogClaimable
    /\ \A f \in Funcs : ~Claimable(f) ~> Claimable(f)
-----------------------------------------------------------------------------
(* The analyses as attempts, their results as what is stored.              *)

\* What p works on: a function, or the catalog of the artifact as a whole.
Subject(p) == IF pc[p] \in {"catalog", "catalogFail"} THEN NoFunc ELSE fn[p]

Attempt(p) == [attempt |-> mine[p], subject |-> Subject(p)]

InProgress == {Attempt(p) : p \in {p \in Procs : mine[p] # NoRun}}

Begun == {r \in RunIds : runs[r] # "unused"}
Outcome == [r \in RunIds |-> IF runs[r] \in {"success", "failed"}
                             THEN runs[r] ELSE "none"]
Result == [f \in Funcs |-> snapshot[f].run]

A == INSTANCE Attempts WITH
        Ids <- RunIds, Subjects <- Funcs \cup {NoFunc}, Lasting <- Funcs,
        NoAttempt <- NoRun, used <- Begun, open <- InProgress,
        outcome <- Outcome, result <- Result

\* However processes of any builds interleave, are killed, outlast their
\* claims or erase those of others: what is stored for a function is always
\* the result of one attempt, stored in the step in which that attempt
\* succeeds, and an attempt ends once.
ImplementsAttempts == A!Spec

\* As long as nobody refreshes the catalog beside the others and nobody
\* outlasts a claim, the claims do what they are for: no analysis, of the
\* catalog or of a function, begins while a live process is busy with it.
ImplementsExclusive == A!ExclusiveSpec
-----------------------------------------------------------------------------
(* The inductive strengthening behind EvidenceSucceeded,                   *)
(* ClaimsBelongToRunningRuns, ReadyHasSnapshot and FullMeansAnalyzed.      *)

Working == {"catalog", "catalogFail", "analyze", "analyzeFail"}
AtFunction == {"row", "manifest", "claim", "analyze", "analyzeFail",
               "ensure", "ensureManifest", "read"}

\* A process has a run exactly while it works under a claim, the run is still
\* running, and no two processes have the same one.
MineIsRunning ==
    /\ \A p \in Procs :
          /\ pc[p] \in Working <=> mine[p] \in RunIds
          /\ mine[p] \in RunIds => runs[mine[p]] = "running"
          /\ pc[p] \in AtFunction => fn[p] \in Funcs
    /\ \A p, q \in Procs : mine[p] \in RunIds /\ mine[p] = mine[q] => p = q

\* The claim a live process works under is on the row it works for.
ClaimsStayPut ==
    /\ artifact.status = "cataloging" => artifact.owner \in RunIds
    /\ \A f \in Funcs : mat[f].status = "materializing" =>
          mat[f].owner \in RunIds
    /\ \A p \in Procs : mine[p] \in RunIds =>
          /\ artifact.status = "cataloging" /\ artifact.owner = mine[p]
             => pc[p] \in {"catalog", "catalogFail"}
          /\ \A f \in Funcs :
                mat[f].status = "materializing" /\ mat[f].owner = mine[p]
                => pc[p] \in {"analyze", "analyzeFail"} /\ fn[p] = f

\* A full ingest that goes on to the functions without a catalog of its own,
\* or with it behind.
SkipsCatalog(p) ==
    pc[p] = "collect" \/ (pc[p] = "request" /\ ~cmd[p].refresh)

\* A catalog publishes every function at once and for good.
CatalogPublishes ==
    /\ \A f \in Funcs : mat[f].status = "declaration_only" => f \in Decls
    /\ \A f \in Funcs : snapshot[f].ver # NoVersion => snapshot[f].run # NoRun
    /\ artifact.status = "catalog_ready" => \A f \in Funcs : entity[f] # "none"
    /\ \A p \in Procs : SkipsCatalog(p) => \A f \in Funcs : entity[f] # "none"

InLoop(p) ==
    pc[p] = "next" \/ (cmd[p].op = "ingest" /\ pc[p] \in AtFunction)

\* What a full ingest has put behind it has been analyzed.
LoopCovers ==
    \A p \in Procs : InLoop(p) =>
        \A f \in Funcs \ Decls :
            \/ f \in todo[p]
            \/ pc[p] # "next" /\ fn[p] = f
            \/ snapshot[f].run # NoRun

IInv ==
    /\ MineIsRunning
    /\ EvidenceSucceeded
    /\ ClaimsStayPut
    /\ ClaimsBelongToRunningRuns
    /\ ReadyHasSnapshot
    /\ CatalogPublishes
    /\ LoopCovers
    /\ FullMeansAnalyzed
=============================================================================

--------------------------- MODULE AnalysisProofs ---------------------------
(* Proofs about Analysis, for every number of processes, functions, runs   *)
(* and builds.                                                             *)
EXTENDS Analysis, TLAPS

(* How a process ends, and how materialize returns, keeps the types of the *)
(* process's locals (Exit and Return of every step of service.cpp).        *)
LEMMA ExitTypes ==
  ASSUME TypeOK, NEW p \in Procs, Exit(p)
  PROVE  /\ pc' \in [Procs -> Labels]
         /\ cmd' \in [Procs -> Command]
         /\ fn' \in [Procs -> Funcs \cup {NoFunc}]
         /\ todo' \in [Procs -> SUBSET Funcs]
         /\ mine' \in [Procs -> Run]
<1>1. NoCommand \in Command /\ "idle" \in Labels /\ NoRun \in Run
  BY DEF NoCommand, Command, Labels, Run
<1> QED
  BY <1>1 DEF Exit, Goto, TypeOK

(* The same of materialize() when it hands back to its caller.             *)
LEMMA ReturnTypes ==
  ASSUME TypeOK, NEW p \in Procs, Return(p)
  PROVE  /\ pc' \in [Procs -> Labels]
         /\ cmd' \in [Procs -> Command]
         /\ fn' \in [Procs -> Funcs \cup {NoFunc}]
         /\ todo' \in [Procs -> SUBSET Funcs]
         /\ mine' \in [Procs -> Run]
<1>1. CASE Exit(p)
  BY <1>1, ExitTypes
<1>2. CASE ~Exit(p)
  <2>1. AfterMaterialize(p) \in Labels /\ NoRun \in Run
    BY DEF AfterMaterialize, Labels, Run
  <2> QED
    BY <1>2, <2>1 DEF Return, Goto, TypeOK
<1> QED
  BY <1>1, <1>2

(* The claim columns of a row can be written without spoiling the row.     *)
LEMMA RowUpdate ==
  ASSUME NEW row \in MatRow, NEW status \in MatStatus, NEW owner \in Run
  PROVE  [row EXCEPT !.status = status, !.owner = owner, !.stale = FALSE]
            \in MatRow
  BY DEF MatRow

(* Every transaction and every statement of the commands writes values of  *)
(* the column's type.                                                      *)
LEMMA TypeStep ==
  ASSUME TypeOK, MineIsRunning, [Next]_vars
  PROVE  TypeOK'
<1>1. ASSUME NEW p \in Procs, StartIngest(p)
      PROVE  TypeOK'
  <2>1. PICK index \in {"catalog", "full"}, refresh \in BOOLEAN :
          cmd' = [cmd EXCEPT ![p] = [op |-> "ingest", index |-> index,
                                     refresh |-> refresh]]
    BY <1>1, ConstantsOK DEF StartIngest
  <2>2. cmd' \in [Procs -> Command]
    BY <2>1 DEF TypeOK, Command
  <2>3. pc' \in [Procs -> Labels] /\ cited' \in [Procs -> SUBSET RunIds]
    BY <1>1 DEF StartIngest, Goto, TypeOK, Labels
  <2> QED
    BY <1>1, <2>2, <2>3 DEF StartIngest, db, TypeOK
<1>2. ASSUME NEW p \in Procs, StartMaterialize(p)
      PROVE  TypeOK'
  <2>1. [NoCommand EXCEPT !.op = "materialize"] \in Command
    BY DEF Command, NoCommand
  <2>2. /\ pc' \in [Procs -> Labels] /\ cited' \in [Procs -> SUBSET RunIds]
        /\ fn' \in [Procs -> Funcs \cup {NoFunc}]
        /\ cmd' \in [Procs -> Command]
    BY <1>2, <2>1 DEF StartMaterialize, Goto, TypeOK, Labels
  <2> QED
    BY <1>2, <2>2 DEF StartMaterialize, db, TypeOK
<1>3. ASSUME NEW p \in Procs, StartQuery(p)
      PROVE  TypeOK'
  <2>1. [NoCommand EXCEPT !.op = "query"] \in Command
    BY DEF Command, NoCommand
  <2>2. /\ pc' \in [Procs -> Labels] /\ cited' \in [Procs -> SUBSET RunIds]
        /\ fn' \in [Procs -> Funcs \cup {NoFunc}]
        /\ cmd' \in [Procs -> Command]
    BY <1>3, <2>1 DEF StartQuery, Goto, TypeOK, Labels
  <2> QED
    BY <1>3, <2>2 DEF StartQuery, db, TypeOK
<1>4. ASSUME NEW p \in Procs, StoreArtifact(p)
      PROVE  TypeOK'
  <2>1. cmd' \in [Procs -> Command]
    BY <1>4 DEF StoreArtifact, TypeOK, Command
  <2>2. artifact' \in ArtifactRow
    BY <1>4, ConstantsOK
    DEF StoreArtifact, TypeOK, Level, Version, CatalogStatus, ArtifactRow
  <2>3. pc' \in [Procs -> Labels]
    BY <1>4 DEF StoreArtifact, Goto, TypeOK, Labels
  <2> QED
    BY <1>4, <2>1, <2>2, <2>3 DEF StoreArtifact, TypeOK
<1>5. ASSUME NEW p \in Procs, CheckCatalog(p)
      PROVE  TypeOK'
  <2>1. CASE Exit(p)
    BY <1>5, <2>1, ExitTypes DEF CheckCatalog, db, TypeOK
  <2>2. CASE ~Exit(p)
    <3> DEFINE refresh == cmd[p].refresh \/ ~CatalogCurrent(p)
    <3>1. refresh \in BOOLEAN
      OBVIOUS
    <3>2. \/ cmd' = [cmd EXCEPT ![p].refresh = refresh]
          \/ cmd' = [cmd EXCEPT ![p].refresh = TRUE]
      BY <1>5, <2>2 DEF CheckCatalog
    <3> HIDE DEF refresh
    <3>3. PICK b \in BOOLEAN : cmd' = [cmd EXCEPT ![p].refresh = b]
      BY <3>1, <3>2
    <3>5. cmd' \in [Procs -> Command]
      BY <3>3 DEF TypeOK, Command
    <3>4. pc' \in [Procs -> Labels]
      BY <1>5, <2>2 DEF CheckCatalog, Goto, TypeOK, Labels
    <3> QED
      BY <1>5, <2>2, <3>4, <3>5 DEF CheckCatalog, db, TypeOK
  <2> QED
    BY <2>1, <2>2
<1>6. ASSUME NEW p \in Procs, RequestFull(p)
      PROVE  TypeOK'
  <2>1. artifact' \in ArtifactRow
    BY <1>6 DEF RequestFull, TypeOK, Level, ArtifactRow
  <2>2. pc' \in [Procs -> Labels]
    BY <1>6 DEF RequestFull, Goto, TypeOK, Labels
  <2> QED
    BY <1>6, <2>1, <2>2 DEF RequestFull, TypeOK
<1>7. ASSUME NEW p \in Procs, ClaimCatalog(p)
      PROVE  TypeOK'
  <2>1. PICK r \in RunIds :
          /\ artifact' = [artifact EXCEPT !.status = "cataloging",
                                          !.owner = r,
                                          !.stale = FALSE,
                                          !.run = r,
                                          !.requested = cmd[p].index]
          /\ runs' = [runs EXCEPT ![r] = "running"]
          /\ mine' = [mine EXCEPT ![p] = r]
    BY <1>7 DEF ClaimCatalog
  <2>2. cmd[p].index \in Level
    BY DEF TypeOK, Command, Level
  <2>3. artifact' \in ArtifactRow
    BY <2>1, <2>2 DEF TypeOK, CatalogStatus, Run, ArtifactRow
  <2>4. /\ pc' \in [Procs -> Labels] /\ runs' \in [RunIds -> RunStatus]
        /\ mine' \in [Procs -> Run]
    BY <1>7, <2>1 DEF ClaimCatalog, Goto, TypeOK, Labels, RunStatus, Run
  <2> QED
    BY <1>7, <2>3, <2>4 DEF ClaimCatalog, TypeOK
<1>8. ASSUME NEW p \in Procs, CatalogBusy(p)
      PROVE  TypeOK'
  BY <1>8, ExitTypes DEF CatalogBusy, db, TypeOK
<1>9. ASSUME NEW p \in Procs, CatalogBreaks(p)
      PROVE  TypeOK'
  <2>1. pc' \in [Procs -> Labels]
    BY <1>9 DEF CatalogBreaks, Goto, TypeOK, Labels
  <2> QED
    BY <1>9, <2>1 DEF CatalogBreaks, db, TypeOK
<1>10. ASSUME NEW p \in Procs, FailCatalog(p)
       PROVE  TypeOK'
  <2>1. artifact' \in ArtifactRow
    BY <1>10 DEF FailCatalog, TypeOK, CatalogStatus, Run, ArtifactRow
  <2>2. runs' \in [RunIds -> RunStatus]
    BY <1>10 DEF FailCatalog, EndRun, TypeOK, RunStatus
  <2>3. Exit(p)
    BY <1>10 DEF FailCatalog
  <2> QED
    BY <1>10, <2>1, <2>2, <2>3, ExitTypes DEF FailCatalog, TypeOK
<1>11. ASSUME NEW p \in Procs, CommitCatalog(p)
       PROVE  TypeOK'
  <2>1. artifact' \in ArtifactRow
    BY <1>11, ConstantsOK
    DEF CommitCatalog, TypeOK, CatalogStatus, Run, Level, Version, ArtifactRow
  <2>2. runs' \in [RunIds -> RunStatus]
    BY <1>11 DEF CommitCatalog, EndRun, TypeOK, RunStatus
  <2>3. \A f \in Funcs : CatalogLevel(f) \in MatStatus \cap EntityStatus
    BY DEF CatalogLevel, MatStatus, EntityStatus
  <2>4. /\ mat' = [f \in Funcs |-> [mat[f] EXCEPT !.status = CatalogLevel(f),
                                                  !.owner = NoRun,
                                                  !.stale = FALSE]]
        /\ entity' = [f \in Funcs |-> CatalogLevel(f)]
    BY <1>11 DEF CommitCatalog
  <2>5. mat' \in [Funcs -> MatRow] /\ entity' \in [Funcs -> EntityStatus]
    BY <2>3, <2>4 DEF TypeOK, Run, MatRow
  <2>6. CASE Exit(p)
    BY <1>11, <2>1, <2>2, <2>5, <2>6, ExitTypes DEF CommitCatalog, TypeOK
  <2>7. CASE ~Exit(p)
    <3>1. pc' \in [Procs -> Labels] /\ mine' \in [Procs -> Run]
      BY <1>11, <2>7 DEF CommitCatalog, Goto, TypeOK, Labels, Run
    <3> QED
      BY <1>11, <2>1, <2>2, <2>5, <2>7, <3>1 DEF CommitCatalog, TypeOK
  <2> QED
    BY <2>6, <2>7
<1>12. ASSUME NEW p \in Procs, CollectFunctions(p)
       PROVE  TypeOK'
  <2>1. pc' \in [Procs -> Labels] /\ todo' \in [Procs -> SUBSET Funcs]
    BY <1>12 DEF CollectFunctions, Goto, TypeOK, Labels
  <2> QED
    BY <1>12, <2>1 DEF CollectFunctions, db, TypeOK
<1>13. ASSUME NEW p \in Procs, NextFunction(p)
       PROVE  TypeOK'
  <2>1. /\ pc' \in [Procs -> Labels] /\ todo' \in [Procs -> SUBSET Funcs]
        /\ fn' \in [Procs -> Funcs \cup {NoFunc}]
    BY <1>13 DEF NextFunction, Goto, TypeOK, Labels
  <2> QED
    BY <1>13, <2>1 DEF NextFunction, db, TypeOK
<1>14. ASSUME NEW p \in Procs, CompleteFull(p)
       PROVE  TypeOK'
  <2>1. artifact' \in ArtifactRow
    BY <1>14 DEF CompleteFull, TypeOK, Level, ArtifactRow
  <2> QED
    BY <1>14, <2>1, ExitTypes DEF CompleteFull, TypeOK
<1>15. ASSUME NEW p \in Procs, ReadRow(p)
       PROVE  TypeOK'
  <2>1. cited' \in [Procs -> SUBSET RunIds]
    BY <1>15 DEF ReadRow, TypeOK
  <2>2. CASE Return(p)
    BY <1>15, <2>1, <2>2, ReturnTypes DEF ReadRow, db, TypeOK
  <2>3. CASE ~Return(p)
    <3>1. pc' \in [Procs -> Labels]
      BY <1>15, <2>3 DEF ReadRow, Goto, TypeOK, Labels
    <3> QED
      BY <1>15, <2>1, <2>3, <3>1 DEF ReadRow, db, TypeOK
  <2> QED
    BY <2>2, <2>3
<1>16. ASSUME NEW p \in Procs, ReadManifest(p)
       PROVE  TypeOK'
  <2>1. cited' \in [Procs -> SUBSET RunIds]
    BY <1>16 DEF ReadManifest, TypeOK
  <2>2. CASE Return(p)
    BY <1>16, <2>1, <2>2, ReturnTypes DEF ReadManifest, db, TypeOK
  <2>3. CASE ~Return(p)
    <3>1. pc' \in [Procs -> Labels]
      BY <1>16, <2>3 DEF ReadManifest, Goto, TypeOK, Labels
    <3> QED
      BY <1>16, <2>1, <2>3, <3>1 DEF ReadManifest, db, TypeOK
  <2> QED
    BY <2>2, <2>3
<1>17. ASSUME NEW p \in Procs, ClaimFunction(p)
       PROVE  TypeOK'
  <2> DEFINE claimed(r) == [mat[fn[p]] EXCEPT !.status = "materializing",
                                              !.owner = r,
                                              !.stale = FALSE]
  <2>1. PICK r \in RunIds :
          /\ mat' = [mat EXCEPT ![fn[p]] = claimed(r)]
          /\ runs' = [runs EXCEPT ![r] = "running"]
          /\ mine' = [mine EXCEPT ![p] = r]
    BY <1>17 DEF ClaimFunction
  <2>2. fn[p] \in Funcs
    BY <1>17 DEF ClaimFunction, MineIsRunning, AtFunction
  <2>3. mat' \in [Funcs -> MatRow]
    <3>1. mat[fn[p]] \in MatRow
      BY <2>2 DEF TypeOK
    <3>2. claimed(r) \in MatRow
      BY <3>1, RowUpdate DEF MatStatus, Run
    <3> QED
      BY <2>1, <3>2 DEF TypeOK
  <2>4. /\ pc' \in [Procs -> Labels] /\ runs' \in [RunIds -> RunStatus]
        /\ mine' \in [Procs -> Run]
    BY <1>17, <2>1 DEF ClaimFunction, Goto, TypeOK, Labels, RunStatus, Run
  <2> QED
    BY <1>17, <2>3, <2>4 DEF ClaimFunction, TypeOK
<1>18. ASSUME NEW p \in Procs, FunctionBusy(p)
       PROVE  TypeOK'
  BY <1>18, ExitTypes DEF FunctionBusy, db, TypeOK
<1>19. ASSUME NEW p \in Procs, AnalysisBreaks(p)
       PROVE  TypeOK'
  <2>1. pc' \in [Procs -> Labels]
    BY <1>19 DEF AnalysisBreaks, Goto, TypeOK, Labels
  <2> QED
    BY <1>19, <2>1 DEF AnalysisBreaks, db, TypeOK
<1>20. ASSUME NEW p \in Procs, FailFunction(p)
       PROVE  TypeOK'
  <2>1. fn[p] \in Funcs
    BY <1>20 DEF FailFunction, MineIsRunning, AtFunction
  <2>2. mat' \in [Funcs -> MatRow]
    <3>1. CASE HoldsRow(p)
      <4> DEFINE row == [mat[fn[p]] EXCEPT !.status = "failed",
                                           !.owner = NoRun,
                                           !.stale = FALSE]
      <4>1. mat' = [mat EXCEPT ![fn[p]] = row]
        BY <1>20, <3>1 DEF FailFunction
      <4>2. mat[fn[p]] \in MatRow
        BY <2>1 DEF TypeOK
      <4>3. row \in MatRow
        BY <4>2, RowUpdate DEF MatStatus, Run
      <4> QED
        BY <4>1, <4>3 DEF TypeOK
    <3>2. CASE ~HoldsRow(p)
      BY <1>20, <3>2 DEF FailFunction, TypeOK
    <3> QED
      BY <3>1, <3>2
  <2>3. runs' \in [RunIds -> RunStatus]
    BY <1>20 DEF FailFunction, EndRun, TypeOK, RunStatus
  <2>4. Exit(p)
    BY <1>20 DEF FailFunction
  <2> QED
    BY <1>20, <2>2, <2>3, <2>4, ExitTypes DEF FailFunction, TypeOK
<1>21. ASSUME NEW p \in Procs, CommitFunction(p)
       PROVE  TypeOK'
  <2>1. fn[p] \in Funcs /\ mine[p] \in RunIds
    BY <1>21 DEF CommitFunction, MineIsRunning, AtFunction, Working
  <2>2. mat' \in [Funcs -> MatRow]
    <3>1. CASE HoldsRow(p)
      <4>1. mat' = [mat EXCEPT ![fn[p]] = [status |-> "structure_ready",
                                           owner |-> NoRun,
                                           stale |-> FALSE,
                                           run |-> mine[p],
                                           ver |-> Build[p]]]
        BY <1>21, <3>1 DEF CommitFunction
      <4> QED
        BY <2>1, <4>1, ConstantsOK DEF TypeOK, MatStatus, Run, Version, MatRow
    <3>2. CASE ~HoldsRow(p)
      BY <1>21, <3>2 DEF CommitFunction, TypeOK
    <3> QED
      BY <3>1, <3>2
  <2>3. /\ snapshot' \in [Funcs -> Snapshot]
        /\ entity' \in [Funcs -> EntityStatus]
    BY <1>21, <2>1, ConstantsOK
    DEF CommitFunction, TypeOK, EntityStatus, Run, Version, Snapshot
  <2>4. /\ runs' \in [RunIds -> RunStatus]
        /\ cited' \in [Procs -> SUBSET RunIds]
    BY <1>21, <2>1 DEF CommitFunction, EndRun, TypeOK, RunStatus
  <2>5. Return(p)
    BY <1>21 DEF CommitFunction
  <2> QED
    BY <1>21, <2>2, <2>3, <2>4, <2>5, ReturnTypes DEF CommitFunction, TypeOK
<1>22. ASSUME NEW p \in Procs, Query(p)
       PROVE  TypeOK'
  <2>1. cited' \in [Procs -> SUBSET RunIds]
    BY <1>22 DEF Query, EnsureRow, EnsureManifest, ReadRelations, TypeOK
  <2>2. CASE Exit(p)
    BY <1>22, <2>1, <2>2, ExitTypes
    DEF Query, EnsureRow, EnsureManifest, ReadRelations, db, TypeOK
  <2>3. CASE ~Exit(p)
    <3>1. pc' \in [Procs -> Labels]
      BY <1>22, <2>3
      DEF Query, EnsureRow, EnsureManifest, ReadRelations, Goto, TypeOK, Labels
    <3> QED
      BY <1>22, <2>1, <2>3, <3>1
      DEF Query, EnsureRow, EnsureManifest, ReadRelations, db, TypeOK
  <2> QED
    BY <2>2, <2>3
<1>23. ASSUME NEW p \in Procs, Crash(p)
       PROVE  TypeOK'
  <2>1. cited' \in [Procs -> SUBSET RunIds]
    BY <1>23 DEF Crash, TypeOK
  <2>2. Exit(p)
    BY <1>23 DEF Crash
  <2> QED
    BY <1>23, <2>1, <2>2, ExitTypes DEF Crash, db, TypeOK
<1>24. ASSUME ExpireCatalog
       PROVE  TypeOK'
  <2>1. artifact' \in ArtifactRow
    BY <1>24 DEF ExpireCatalog, TypeOK, ArtifactRow
  <2> QED
    BY <1>24, <2>1 DEF ExpireCatalog, locals, TypeOK
<1>25. ASSUME NEW f \in Funcs, ExpireFunction(f)
       PROVE  TypeOK'
  <2>1. mat' \in [Funcs -> MatRow]
    BY <1>25 DEF ExpireFunction, TypeOK, MatRow
  <2> QED
    BY <1>25, <2>1 DEF ExpireFunction, locals, TypeOK
<1>26. CASE UNCHANGED vars
  BY <1>26 DEF vars, db, locals, TypeOK
<1> QED
  BY <1>1, <1>2, <1>3, <1>4, <1>5, <1>6, <1>7, <1>8, <1>9, <1>10, <1>11,
     <1>12, <1>13, <1>14, <1>15, <1>16, <1>17, <1>18, <1>19, <1>20, <1>21,
     <1>22, <1>23, <1>24, <1>25, <1>26
  DEF Next, Start, Step, Ingest, Materialize, Expire, OutOfRuns
-----------------------------------------------------------------------------
(* A step of one process leaves the memory of the others alone.            *)
OthersKeep(p) ==
    \A q \in Procs \ {p} :
        /\ pc'[q] = pc[q] /\ cmd'[q] = cmd[q] /\ fn'[q] = fn[q]
        /\ todo'[q] = todo[q] /\ mine'[q] = mine[q] /\ cited'[q] = cited[q]

(* Processes share nothing but the database (each command is a process).   *)
LEMMA StepsAreLocal ==
  ASSUME TypeOK, NEW p \in Procs, Start(p) \/ Step(p) \/ Crash(p)
  PROVE  OthersKeep(p)
<1>1. CASE Start(p)
  BY <1>1
  DEF Start, StartIngest, StartMaterialize, StartQuery, Goto, OthersKeep,
      TypeOK
<1>2. CASE Ingest(p)
  <2>1. CASE StoreArtifact(p) \/ CheckCatalog(p) \/ RequestFull(p)
    BY <2>1
    DEF StoreArtifact, CheckCatalog, RequestFull, Exit, Goto, OthersKeep, db,
        TypeOK
  <2>2. CASE ClaimCatalog(p) \/ CatalogBusy(p) \/ CatalogBreaks(p)
    BY <2>2
    DEF ClaimCatalog, CatalogBusy, CatalogBreaks, Exit, Goto, OthersKeep,
        TypeOK
  <2>3. CASE FailCatalog(p) \/ CommitCatalog(p)
    BY <2>3 DEF FailCatalog, CommitCatalog, Exit, Goto, OthersKeep, TypeOK
  <2>4. CASE CollectFunctions(p) \/ NextFunction(p) \/ CompleteFull(p)
    BY <2>4
    DEF CollectFunctions, NextFunction, CompleteFull, Exit, Goto, OthersKeep,
        TypeOK
  <2> QED
    BY <1>2, <2>1, <2>2, <2>3, <2>4 DEF Ingest
<1>3. CASE Materialize(p)
  <2>1. CASE ReadRow(p) \/ ReadManifest(p)
    BY <2>1 DEF ReadRow, ReadManifest, Return, Exit, Goto, OthersKeep, TypeOK
  <2>2. CASE ClaimFunction(p) \/ FunctionBusy(p) \/ AnalysisBreaks(p)
    BY <2>2
    DEF ClaimFunction, FunctionBusy, AnalysisBreaks, Exit, Goto, OthersKeep,
        TypeOK
  <2>3. CASE FailFunction(p) \/ CommitFunction(p)
    BY <2>3
    DEF FailFunction, CommitFunction, Return, Exit, Goto, OthersKeep, TypeOK
  <2> QED
    BY <1>3, <2>1, <2>2, <2>3 DEF Materialize
<1>4. CASE Query(p) \/ Crash(p)
  BY <1>4
  DEF Query, EnsureRow, EnsureManifest, ReadRelations, Crash, Exit, Goto,
      OthersKeep, TypeOK
<1> QED
  BY <1>1, <1>2, <1>3, <1>4 DEF Step

(* To see that MineIsRunning survives a step of p, look at p, and see that *)
(* the other processes' runs are neither ended nor taken.                  *)
LEMMA MineOfOne ==
  ASSUME TypeOK, MineIsRunning, NEW p \in Procs, OthersKeep(p),
         pc'[p] \in Working <=> mine'[p] \in RunIds,
         mine'[p] \in RunIds => runs'[mine'[p]] = "running",
         pc'[p] \in AtFunction => fn'[p] \in Funcs,
         \A q \in Procs \ {p} : mine[q] \in RunIds =>
            runs'[mine[q]] = "running" /\ mine'[p] # mine[q]
  PROVE  MineIsRunning'
  BY DEF MineIsRunning, OthersKeep

Quiet(p) ==
    \/ Start(p) \/ StoreArtifact(p) \/ CheckCatalog(p) \/ RequestFull(p)
    \/ CatalogBusy(p) \/ CollectFunctions(p) \/ NextFunction(p)
    \/ CompleteFull(p) \/ ReadRow(p) \/ ReadManifest(p) \/ FunctionBusy(p)
    \/ Query(p)

Break(p) == CatalogBreaks(p) \/ AnalysisBreaks(p)
Claim(p) == ClaimCatalog(p) \/ ClaimFunction(p)
End(p) == FailCatalog(p) \/ CommitCatalog(p) \/ FailFunction(p) \/ CommitFunction(p)

(* The steps by what they do to analysis_runs: nothing, or the beginning,  *)
(* the breaking off and the end of a run.                                  *)
LEMMA StepKinds ==
  ASSUME NEW p \in Procs, Start(p) \/ Step(p)
  PROVE  Quiet(p) \/ Break(p) \/ Claim(p) \/ End(p)
  BY DEF Step, Ingest, Materialize, Quiet, Break, Claim, End

(* Only the transactions that claim and that end a piece of work touch     *)
(* analysis_runs.                                                          *)
LEMMA QuietRuns ==
  ASSUME TypeOK, NEW p \in Procs, Quiet(p)
  PROVE  runs' = runs /\ snapshot' = snapshot /\ mat' = mat /\ entity' = entity
  BY
  DEF Quiet, Start, StartIngest, StartMaterialize, StartQuery, StoreArtifact,
     CheckCatalog, RequestFull, CatalogBusy, CollectFunctions, NextFunction,
     CompleteFull, ReadRow, ReadManifest, FunctionBusy, Query, EnsureRow,
     EnsureManifest, ReadRelations, db

(* Outside the work under a claim a process neither has a run nor gets     *)
(* one, and it has chosen its function when it comes to need one.          *)
LEMMA QuietPlaces ==
  ASSUME TypeOK, MineIsRunning, NEW p \in Procs, Quiet(p)
  PROVE  /\ pc[p] \notin Working /\ pc'[p] \notin Working
         /\ mine'[p] \notin RunIds
         /\ pc'[p] \in AtFunction => fn'[p] \in Funcs
<1> USE DEF Working, AtFunction
<1>0. NoRun \notin RunIds
  BY ConstantsOK
<1>1. CASE Start(p)
  BY <1>0, <1>1
  DEF Start, StartIngest, StartMaterialize, StartQuery, Goto, MineIsRunning,
      TypeOK
<1>2. CASE StoreArtifact(p) \/ CheckCatalog(p) \/ RequestFull(p)
  BY <1>0, <1>2
  DEF StoreArtifact, CheckCatalog, RequestFull, Exit, Goto, MineIsRunning,
      TypeOK
<1>3. CASE CatalogBusy(p) \/ CollectFunctions(p) \/ CompleteFull(p)
  BY <1>0, <1>3
  DEF CatalogBusy, CollectFunctions, CompleteFull, Exit, Goto, MineIsRunning,
      TypeOK
<1>4. CASE NextFunction(p)
  BY <1>0, <1>4 DEF NextFunction, Goto, MineIsRunning, TypeOK
<1>5. CASE ReadRow(p) \/ ReadManifest(p) \/ FunctionBusy(p)
  BY <1>0, <1>5
  DEF ReadRow, ReadManifest, FunctionBusy, Return, AfterMaterialize, Exit,
      Goto,
      MineIsRunning, TypeOK
<1>6. CASE Query(p)
  BY <1>0, <1>6
  DEF Query, EnsureRow, EnsureManifest, ReadRelations, Exit, Goto,
      MineIsRunning, TypeOK
<1> QED
  BY <1>1, <1>2, <1>3, <1>4, <1>5, <1>6 DEF Quiet

(* What a claiming transaction does: a fresh run, and it is p's.           *)
LEMMA ClaimPlaces ==
  ASSUME TypeOK, MineIsRunning, NEW p \in Procs, Claim(p)
  PROVE  \E r \in RunIds :
            /\ runs[r] = "unused" /\ runs' = [runs EXCEPT ![r] = "running"]
            /\ mine'[p] = r
            /\ pc'[p] = IF ClaimCatalog(p) THEN "catalog" ELSE "analyze"
            /\ fn'[p] = fn[p] /\ cited' = cited /\ snapshot' = snapshot
            /\ pc[p] \notin Working
            /\ pc[p] \in {"claimCatalog", "claim"}
  BY DEF Claim, ClaimCatalog, ClaimFunction, Goto, Working, TypeOK

(* What a transaction that ends a piece of work does: p's own run ends and *)
(* p has none any more.                                                    *)
LEMMA EndPlaces ==
  ASSUME TypeOK, MineIsRunning, NEW p \in Procs, End(p)
  PROVE  /\ mine[p] \in RunIds /\ pc[p] \in Working
         /\ \/ runs' = [runs EXCEPT ![mine[p]] = "success"]
            \/ /\ runs' = [runs EXCEPT ![mine[p]] = "failed"]
               /\ snapshot' = snapshot /\ cited' = cited
         /\ mine'[p] = NoRun /\ pc'[p] \notin Working
         /\ pc'[p] \in AtFunction => fn'[p] \in Funcs
<1> USE DEF Working, AtFunction, EndRun
<1>1. CASE FailCatalog(p) \/ FailFunction(p)
  BY <1>1 DEF FailCatalog, FailFunction, Exit, Goto, MineIsRunning, TypeOK
<1>2. CASE CommitCatalog(p)
  BY <1>2 DEF CommitCatalog, Exit, Goto, MineIsRunning, TypeOK
<1>3. CASE CommitFunction(p)
  BY <1>3
  DEF CommitFunction, Return, AfterMaterialize, Exit, Goto, MineIsRunning,
      TypeOK
<1> QED
  BY <1>1, <1>2, <1>3 DEF End

(* Every run in progress is the run of exactly one process that works      *)
(* under a claim, or of a process that died.                               *)
LEMMA MineStep ==
  ASSUME TypeOK, MineIsRunning, [Next]_vars
  PROVE  MineIsRunning'
<1>0. NoRun \notin RunIds
  BY ConstantsOK
<1>1. ASSUME NEW p \in Procs, Quiet(p), OthersKeep(p)
      PROVE  MineIsRunning'
  <2>1. runs' = runs
    BY <1>1, QuietRuns
  <2> QED
    BY <1>1, <2>1, QuietPlaces, MineOfOne DEF MineIsRunning
<1>2. ASSUME NEW p \in Procs, Break(p), OthersKeep(p)
      PROVE  MineIsRunning'
  <2>1. /\ runs' = runs /\ mine' = mine /\ fn' = fn
        /\ pc[p] \in Working /\ pc'[p] \in Working
        /\ pc'[p] \in AtFunction => pc[p] \in AtFunction
    BY <1>2
    DEF Break, CatalogBreaks, AnalysisBreaks, Goto, Working, AtFunction, db,
        TypeOK
  <2> QED
    BY <1>2, <2>1, MineOfOne DEF MineIsRunning
<1>3. ASSUME NEW p \in Procs, Claim(p), OthersKeep(p)
      PROVE  MineIsRunning'
  <2>1. PICK r \in RunIds :
            /\ runs[r] = "unused" /\ runs' = [runs EXCEPT ![r] = "running"]
            /\ mine'[p] = r /\ fn'[p] = fn[p]
            /\ pc'[p] = IF ClaimCatalog(p) THEN "catalog" ELSE "analyze"
            /\ pc[p] \in {"claimCatalog", "claim"}
    BY <1>3, ClaimPlaces
  <2>2. pc'[p] \in Working /\ runs'[mine'[p]] = "running"
    BY <2>1 DEF Working, TypeOK
  <2>3. pc'[p] \in AtFunction => fn'[p] \in Funcs
    BY <1>3, <2>1
    DEF Claim, ClaimCatalog, ClaimFunction, AtFunction, MineIsRunning
  <2>4. \A q \in Procs \ {p} : mine[q] \in RunIds =>
            runs'[mine[q]] = "running" /\ mine'[p] # mine[q]
    BY <2>1 DEF MineIsRunning, TypeOK
  <2> QED
    BY <1>3, <2>1, <2>2, <2>3, <2>4, MineOfOne
<1>4. ASSUME NEW p \in Procs, End(p), OthersKeep(p)
      PROVE  MineIsRunning'
  <2>1. \A q \in Procs \ {p} : mine[q] \in RunIds => mine[q] # mine[p]
    BY <1>4 DEF MineIsRunning
  <2>2. \A q \in Procs \ {p} : mine[q] \in RunIds => runs'[mine[q]] = "running"
    BY <1>4, <2>1, EndPlaces DEF MineIsRunning, TypeOK
  <2> QED
    BY <1>0, <1>4, <2>2, EndPlaces, MineOfOne
<1>5. ASSUME NEW p \in Procs, Crash(p), OthersKeep(p)
      PROVE  MineIsRunning'
  <2>1. /\ pc'[p] = "idle" /\ mine'[p] = NoRun /\ runs' = runs
    BY <1>5 DEF Crash, Exit, Goto, db, TypeOK
  <2> QED
    BY <1>0, <1>5, <2>1, MineOfOne DEF MineIsRunning, Working, AtFunction
<1>6. CASE Expire \/ UNCHANGED vars
  BY <1>6
  DEF Expire, ExpireCatalog, ExpireFunction, vars, db, locals, MineIsRunning
<1> QED
  BY <1>1, <1>2, <1>3, <1>4, <1>5, <1>6, StepsAreLocal, StepKinds
  DEF Next, OutOfRuns
-----------------------------------------------------------------------------
(* An empty state directory: no run, no claim, nobody working.             *)
LEMMA InitHolds == Init => TypeOK /\ MineIsRunning /\ EvidenceSucceeded
<1> SUFFICES ASSUME Init
             PROVE  TypeOK /\ MineIsRunning /\ EvidenceSucceeded
  OBVIOUS
<1>1. TypeOK
  <2>1. artifact \in ArtifactRow /\ mat \in [Funcs -> MatRow]
    BY
    DEF Init, ArtifactRow, MatRow, CatalogStatus, MatStatus, Run, Version,
        Level
  <2>2. /\ entity \in [Funcs -> EntityStatus]
        /\ snapshot \in [Funcs -> Snapshot]
        /\ runs \in [RunIds -> RunStatus]
    BY DEF Init, EntityStatus, NoSnapshot, Snapshot, Run, Version, RunStatus
  <2>3. /\ pc \in [Procs -> Labels] /\ cmd \in [Procs -> Command]
        /\ fn \in [Procs -> Funcs \cup {NoFunc}]
        /\ todo \in [Procs -> SUBSET Funcs] /\ mine \in [Procs -> Run]
        /\ cited \in [Procs -> SUBSET RunIds]
    BY DEF Init, Labels, NoCommand, Command, Run
  <2> QED
    BY <2>1, <2>2, <2>3 DEF TypeOK
<1>2. MineIsRunning
  BY ConstantsOK DEF Init, MineIsRunning, Working, AtFunction
<1>3. EvidenceSucceeded
  <2>1. \A f \in Funcs : mat[f].run = NoRun /\ snapshot[f].run = NoRun
    BY DEF Init, NoSnapshot
  <2> QED
    BY <2>1, ConstantsOK DEF Init, EvidenceSucceeded
<1> QED
  BY <1>1, <1>2, <1>3

(* The database always holds values of its schema's types.                 *)
THEOREM TypeCorrect == Spec => [](TypeOK /\ MineIsRunning)
<1>1. Init => TypeOK /\ MineIsRunning
  BY InitHolds
<1>2. TypeOK /\ MineIsRunning /\ [Next]_vars => (TypeOK /\ MineIsRunning)'
  BY TypeStep, MineStep
<1> QED
  BY <1>1, <1>2, PTL DEF Spec

(* What can happen to a run in one step.                                   *)
LEMMA FinishedStays ==
  ASSUME TypeOK, MineIsRunning, [Next]_vars,
         NEW r \in RunIds, runs[r] \in {"success", "failed"}
  PROVE  runs'[r] = runs[r]
<1>1. ASSUME NEW p \in Procs, Quiet(p) \/ Break(p)
      PROVE  runs' = runs
  BY <1>1, QuietRuns DEF Break, CatalogBreaks, AnalysisBreaks, db
<1>2. ASSUME NEW p \in Procs, Claim(p)
      PROVE  runs'[r] = runs[r]
  BY <1>2, ClaimPlaces DEF TypeOK
<1>3. ASSUME NEW p \in Procs, End(p)
      PROVE  runs'[r] = runs[r]
  BY <1>3, EndPlaces DEF MineIsRunning, TypeOK
<1>4. ASSUME NEW p \in Procs, Crash(p)
      PROVE  runs' = runs
  BY <1>4 DEF Crash, db
<1>5. CASE Expire \/ UNCHANGED vars
  BY <1>5 DEF Expire, ExpireCatalog, ExpireFunction, vars, db
<1> QED
  BY <1>1, <1>2, <1>3, <1>4, <1>5, StepKinds DEF Next, OutOfRuns

(* A finished run is never finished again or reopened, by whatever failure *)
(* path, second commit or stolen claim: run_end of ingest and materialize. *)
THEOREM RunsEndOnceHolds == Spec => RunsEndOnce
<1>1. TypeOK /\ MineIsRunning /\ [Next]_vars
      => [\A r \in RunIds :
            runs[r] \in {"success", "failed"} => runs'[r] = runs[r]]_vars
  BY FinishedStays
<1> QED
  BY <1>1, TypeCorrect, PTL DEF Spec, RunsEndOnce
-----------------------------------------------------------------------------
(* The runs that can be named as evidence: by answers, rows and snapshots. *)
Evidence ==
    (UNION {cited[p] : p \in Procs})
    \cup {mat[f].run : f \in Funcs} \cup {snapshot[f].run : f \in Funcs}

(* EvidenceSucceeded, by that name.                                        *)
LEMMA EvidenceIsSuccess ==
  ASSUME TypeOK
  PROVE  EvidenceSucceeded <=> \A r \in Evidence \cap RunIds : runs[r] = "success"
  BY DEF EvidenceSucceeded, Evidence, TypeOK

(* Reading, claiming, failing and publishing a catalog make no new         *)
(* evidence; committing a function adds the run that this commit ends.     *)
LEMMA EvidenceGrows ==
  ASSUME TypeOK, MineIsRunning, [Next]_vars
  PROVE  \/ Evidence' \cap RunIds \subseteq Evidence
         \/ \E p \in Procs : /\ CommitFunction(p)
                             /\ Evidence' \subseteq Evidence \cup {mine[p]}
<1> DEFINE same == Evidence' \cap RunIds \subseteq Evidence
<1>1. ASSUME NEW p \in Procs, Start(p) PROVE same
  <2>1. mat' = mat /\ snapshot' = snapshot /\ cited' = [cited EXCEPT ![p] = {}]
    BY <1>1 DEF Start, StartIngest, StartMaterialize, StartQuery, db
  <2> QED
    BY <2>1 DEF Evidence, TypeOK
<1>2. ASSUME NEW p \in Procs,
             \/ StoreArtifact(p) \/ CheckCatalog(p) \/ RequestFull(p)
             \/ ClaimCatalog(p) \/ CatalogBusy(p) \/ CatalogBreaks(p)
             \/ FailCatalog(p) \/ CollectFunctions(p) \/ NextFunction(p)
             \/ CompleteFull(p) \/ FunctionBusy(p) \/ AnalysisBreaks(p)
             \/ EnsureRow(p) \/ EnsureManifest(p)
      PROVE  same
  <2>1. mat' = mat /\ snapshot' = snapshot /\ cited' = cited
    BY <1>2
    DEF StoreArtifact, CheckCatalog, RequestFull, ClaimCatalog, CatalogBusy,
        CatalogBreaks, FailCatalog, CollectFunctions, NextFunction,
        CompleteFull, FunctionBusy, AnalysisBreaks, EnsureRow, EnsureManifest, db
  <2> QED
    BY <2>1 DEF Evidence
<1>3. ASSUME NEW p \in Procs, CommitCatalog(p) PROVE same
  <2>1. snapshot' = snapshot /\ cited' = cited
    BY <1>3 DEF CommitCatalog
  <2>2. \A f \in Funcs : mat'[f].run = mat[f].run
    BY <1>3 DEF CommitCatalog, TypeOK, MatRow
  <2> QED
    BY <2>1, <2>2 DEF Evidence
<1>4. ASSUME NEW p \in Procs, ReadRow(p) PROVE same
  <2>1. mat' = mat /\ snapshot' = snapshot /\ fn[p] \in Funcs
    BY <1>4 DEF ReadRow, db, MineIsRunning, AtFunction
  <2>2. \A q \in Procs : cited'[q] \subseteq cited[q] \cup {mat[fn[p]].run}
    BY <1>4 DEF ReadRow, TypeOK
  <2> QED
    BY <2>1, <2>2 DEF Evidence, TypeOK
<1>5. ASSUME NEW p \in Procs, ReadManifest(p) PROVE same
  <2>1. /\ mat' = mat /\ snapshot' = snapshot
        /\ \A q \in Procs : cited'[q] \subseteq cited[q]
    BY <1>5 DEF ReadManifest, db, TypeOK
  <2> QED
    BY <2>1 DEF Evidence
<1>6. ASSUME NEW p \in Procs, ReadRelations(p) PROVE same
  <2>1. mat' = mat /\ snapshot' = snapshot /\ fn[p] \in Funcs
    BY <1>6 DEF ReadRelations, db, MineIsRunning, AtFunction
  <2>2. \A q \in Procs : cited'[q] \subseteq cited[q] \cup {snapshot[fn[p]].run}
    BY <1>6 DEF ReadRelations, TypeOK
  <2> QED
    BY <2>1, <2>2 DEF Evidence, TypeOK
<1>7. ASSUME NEW p \in Procs, ClaimFunction(p) PROVE same
  <2>1. snapshot' = snapshot /\ cited' = cited /\ fn[p] \in Funcs
    BY <1>7 DEF ClaimFunction, MineIsRunning, AtFunction
  <2>2. \A f \in Funcs : mat'[f].run = mat[f].run
    BY <1>7, <2>1 DEF ClaimFunction, TypeOK, MatRow
  <2> QED
    BY <2>1, <2>2 DEF Evidence
<1>8. ASSUME NEW p \in Procs, FailFunction(p) PROVE same
  <2>1. snapshot' = snapshot /\ cited' = cited /\ fn[p] \in Funcs
    BY <1>8 DEF FailFunction, MineIsRunning, AtFunction
  <2>2. \A f \in Funcs : mat'[f].run = mat[f].run
    BY <1>8, <2>1 DEF FailFunction, TypeOK, MatRow
  <2> QED
    BY <2>1, <2>2 DEF Evidence
<1>9. ASSUME NEW p \in Procs, CommitFunction(p)
      PROVE  Evidence' \subseteq Evidence \cup {mine[p]}
  <2>1. \A f \in Funcs : snapshot'[f].run \in {snapshot[f].run, mine[p]}
    BY <1>9 DEF CommitFunction, TypeOK
  <2>2. \A f \in Funcs : mat'[f].run \in {mat[f].run, mine[p]}
    <3>1. CASE HoldsRow(p)
      BY <1>9, <3>1 DEF CommitFunction, TypeOK
    <3>2. CASE ~HoldsRow(p)
      BY <1>9, <3>2 DEF CommitFunction
    <3> QED
      BY <3>1, <3>2
  <2>3. \A q \in Procs : cited'[q] \subseteq cited[q] \cup {mine[p]}
    BY <1>9 DEF CommitFunction, TypeOK
  <2> QED
    BY <2>1, <2>2, <2>3 DEF Evidence
<1>10. ASSUME NEW p \in Procs, Crash(p) PROVE same
  <2>1. mat' = mat /\ snapshot' = snapshot /\ cited' = [cited EXCEPT ![p] = {}]
    BY <1>10 DEF Crash, db
  <2> QED
    BY <2>1 DEF Evidence, TypeOK
<1>11. ASSUME NEW f \in Funcs, ExpireFunction(f) PROVE same
  <2>1. snapshot' = snapshot /\ cited' = cited
    BY <1>11 DEF ExpireFunction, locals
  <2>2. \A g \in Funcs : mat'[g].run = mat[g].run
    BY <1>11 DEF ExpireFunction, TypeOK, MatRow
  <2> QED
    BY <2>1, <2>2 DEF Evidence
<1>12. CASE ExpireCatalog \/ UNCHANGED vars
  BY <1>12 DEF ExpireCatalog, vars, db, locals, Evidence
<1> QED
  BY <1>1, <1>2, <1>3, <1>4, <1>5, <1>6, <1>7, <1>8, <1>9, <1>10, <1>11, <1>12
  DEF Next, Step, Ingest, Materialize, Query, Expire, OutOfRuns

(* Evidence, once good, stays good, and new evidence is good from the      *)
(* transaction that creates it: the snapshot, the row and the run's end    *)
(* are one commit (service.cpp:766-939).                                   *)
LEMMA EvidenceStep ==
  ASSUME TypeOK, MineIsRunning, EvidenceSucceeded, [Next]_vars
  PROVE  EvidenceSucceeded'
<1>1. \A r \in RunIds : runs[r] = "success" => runs'[r] = "success"
  BY FinishedStays
<1>2. \A r \in Evidence \cap RunIds : runs[r] = "success"
  BY EvidenceIsSuccess
<1>3. ASSUME NEW p \in Procs, CommitFunction(p)
      PROVE  runs'[mine[p]] = "success"
  <2>1. mine[p] \in RunIds
    BY <1>3, EndPlaces DEF End
  <2> QED
    BY <1>3, <2>1 DEF CommitFunction, EndRun, TypeOK
<1>4. \A r \in Evidence' \cap RunIds : runs'[r] = "success"
  BY <1>1, <1>2, <1>3, EvidenceGrows
<1>5. TypeOK'
  BY TypeStep
<1>6. EvidenceSucceeded' <=> \A r \in Evidence' \cap RunIds : runs'[r] = "success"
  BY <1>5 DEF EvidenceSucceeded, Evidence, TypeOK
<1> QED
  BY <1>4, <1>6

(* No answer, row or snapshot ever names a run that failed or is running,  *)
(* for any number of processes, crashes, expiries and stolen claims.       *)
THEOREM EvidenceIsSound == Spec => []EvidenceSucceeded
<1>1. Init => TypeOK /\ MineIsRunning /\ EvidenceSucceeded
  BY InitHolds
<1>2. TypeOK /\ MineIsRunning /\ EvidenceSucceeded /\ [Next]_vars
      => EvidenceSucceeded'
  BY EvidenceStep
<1> QED
  BY <1>1, <1>2, TypeCorrect, PTL DEF Spec
-----------------------------------------------------------------------------
(* What the processes other than p are working on.                         *)
WorkOfOthers(p) == {Attempt(q) : q \in {q \in Procs \ {p} : mine[q] # NoRun}}

(* A step of p adds to the work in progress, or takes from it, what p does. *)
LEMMA WorkOfOne ==
  ASSUME TypeOK, MineIsRunning, NEW p \in Procs, OthersKeep(p)
  PROVE  /\ InProgress = WorkOfOthers(p) \cup
               (IF mine[p] # NoRun THEN {Attempt(p)} ELSE {})
         /\ InProgress' = WorkOfOthers(p) \cup
               (IF mine'[p] # NoRun THEN {Attempt(p)'} ELSE {})
         /\ mine[p] # NoRun => Attempt(p) \notin WorkOfOthers(p)
<1>1. InProgress = WorkOfOthers(p) \cup
               (IF mine[p] # NoRun THEN {Attempt(p)} ELSE {})
  BY DEF InProgress, WorkOfOthers
<1>2. \A q \in Procs \ {p} :
          Attempt(q)' = Attempt(q) /\ mine'[q] = mine[q]
  BY DEF OthersKeep, Attempt, Subject
<1>3. InProgress' = {Attempt(q)' : q \in {q \in Procs : mine'[q] # NoRun}}
  BY DEF InProgress
<1>4. InProgress' = WorkOfOthers(p) \cup
               (IF mine'[p] # NoRun THEN {Attempt(p)'} ELSE {})
  BY <1>2, <1>3 DEF WorkOfOthers
<1>5. ASSUME mine[p] # NoRun, Attempt(p) \in WorkOfOthers(p)
      PROVE  FALSE
  <2>1. PICK q \in Procs \ {p} : mine[q] # NoRun /\ Attempt(q) = Attempt(p)
    BY <1>5 DEF WorkOfOthers
  <2>2. mine[q] = mine[p] /\ mine[p] \in RunIds
    BY <1>5, <2>1 DEF Attempt, TypeOK, Run
  <2> QED
    BY <2>1, <2>2 DEF MineIsRunning
<1> QED
  BY <1>1, <1>4, <1>5

(* An empty state directory is one without attempts.                       *)
LEMMA InitAttempts == Init => A!Init
BY DEF Init, A!Init, Begun, InProgress, Outcome, Result, NoSnapshot

(* What p is about to be busy with when it claims.                         *)
Aim(p) == IF pc[p] = "claimCatalog" THEN NoFunc ELSE fn[p]

(* Every step is one of the attempts, or none: a claim opens one, and only *)
(* a claim does.                                                           *)
LEMMA StepIsAttempt ==
  ASSUME TypeOK, MineIsRunning, [Next]_vars
  PROVE  \/ A!End \/ UNCHANGED A!vars
         \/ \E p \in Procs : \E r \in RunIds : Claim(p) /\ A!Open(r, Aim(p))
<1>0. NoRun \notin RunIds
  BY ConstantsOK
<1>1. ASSUME runs' = runs, snapshot' = snapshot, InProgress' = InProgress
      PROVE  UNCHANGED A!vars
  BY <1>1 DEF A!vars, Begun, Outcome, Result
<1>2. ASSUME NEW p \in Procs, Quiet(p), OthersKeep(p)
      PROVE  UNCHANGED A!vars
  <2>1. mine[p] = NoRun /\ mine'[p] = NoRun
    <3>1. mine[p] \notin RunIds /\ mine'[p] \notin RunIds
      BY <1>2, QuietPlaces DEF MineIsRunning
    <3>2. TypeOK'
      BY TypeStep
    <3> QED
      BY <3>1, <3>2 DEF TypeOK, Run
  <2>2. InProgress' = InProgress
    BY <1>2, <2>1, WorkOfOne
  <2> QED
    BY <1>1, <1>2, <2>2, QuietRuns
<1>3. ASSUME NEW p \in Procs, Break(p), OthersKeep(p)
      PROVE  UNCHANGED A!vars
  <2>1. runs' = runs /\ snapshot' = snapshot /\ mine' = mine
    BY <1>3 DEF Break, CatalogBreaks, AnalysisBreaks, db
  <2>2. Attempt(p)' = Attempt(p)
    BY <1>3
    DEF Break, CatalogBreaks, AnalysisBreaks, Goto, Attempt, Subject, TypeOK
  <2>3. InProgress' = InProgress
    BY <1>3, <2>1, <2>2, WorkOfOne
  <2> QED
    BY <1>1, <2>1, <2>3
<1>4. ASSUME NEW p \in Procs, Claim(p), OthersKeep(p)
      PROVE  \E r \in RunIds : A!Open(r, Aim(p))
  <2>1. PICK r \in RunIds :
            /\ runs[r] = "unused" /\ runs' = [runs EXCEPT ![r] = "running"]
            /\ mine'[p] = r /\ snapshot' = snapshot
            /\ pc'[p] = IF ClaimCatalog(p) THEN "catalog" ELSE "analyze"
            /\ fn'[p] = fn[p] /\ pc[p] \notin Working
    BY <1>4, ClaimPlaces
  <2>7. pc'[p] = IF pc[p] = "claimCatalog" THEN "catalog" ELSE "analyze"
    BY <1>4, <2>1 DEF Claim, ClaimCatalog, ClaimFunction
  <2>2. Attempt(p)' = [attempt |-> r, subject |-> Aim(p)]
    BY <2>1, <2>7 DEF Attempt, Subject, Aim
  <2>3. mine[p] = NoRun
    BY <2>1 DEF MineIsRunning, TypeOK, Run
  <2>4. InProgress' = InProgress \cup {[attempt |-> r, subject |-> Aim(p)]}
    BY <1>0, <1>4, <2>1, <2>2, <2>3, WorkOfOne
  <2>5. /\ r \notin Begun /\ Begun' = Begun \cup {r}
        /\ Outcome' = Outcome /\ Result' = Result
    BY <2>1 DEF Begun, Outcome, Result, TypeOK
  <2>6. A!Open(r, Aim(p))
    BY <2>4, <2>5 DEF A!Open
  <2> QED
    BY <2>6
<1>5. ASSUME NEW p \in Procs, End(p), OthersKeep(p)
      PROVE  A!End
  <2>1. /\ mine[p] \in RunIds /\ mine'[p] = NoRun /\ pc[p] \in Working
        /\ runs[mine[p]] = "running"
    BY <1>5, EndPlaces DEF MineIsRunning
  <2>2. Attempt(p) \in InProgress /\ InProgress' = InProgress \ {Attempt(p)}
    BY <1>0, <1>5, <2>1, WorkOfOne
  <2>3. Begun' = Begun
    BY <1>5, <2>1, EndPlaces DEF Begun, TypeOK
  <2>4. CASE FailCatalog(p) \/ FailFunction(p)
    <3>1. runs' = [runs EXCEPT ![mine[p]] = "failed"] /\ snapshot' = snapshot
      BY <2>4 DEF FailCatalog, FailFunction, EndRun
    <3>2. Outcome' = [Outcome EXCEPT ![mine[p]] = "failed"] /\ Result' = Result
      BY <2>1, <3>1 DEF Outcome, Result, TypeOK
    <3>3. A!Fail(Attempt(p))
      BY <2>2, <2>3, <3>2 DEF A!Fail, A!Close, Attempt
    <3> QED
      BY <2>2, <3>3 DEF A!End
  <2>5. CASE CommitCatalog(p) \/ CommitFunction(p)
    <3>1. runs' = [runs EXCEPT ![mine[p]] = "success"]
      BY <2>5 DEF CommitCatalog, CommitFunction, EndRun
    <3>2. Outcome' = [Outcome EXCEPT ![mine[p]] = "success"]
      BY <2>1, <3>1 DEF Outcome, TypeOK
    <3>3. Result' = [f \in Funcs |-> IF f = Subject(p) THEN mine[p]
                                     ELSE Result[f]]
      <4>1. CASE CommitCatalog(p)
        <5>1. snapshot' = snapshot /\ Subject(p) \notin Funcs
          BY <4>1, ConstantsOK DEF CommitCatalog, Subject
        <5> QED
          BY <5>1 DEF Result
      <4>2. CASE CommitFunction(p)
        <5>1. Subject(p) = fn[p]
          BY <4>2 DEF CommitFunction, Subject
        <5>2. snapshot' = [snapshot EXCEPT ![fn[p]] = [run |-> mine[p],
                                                       ver |-> Build[p]]]
          BY <4>2 DEF CommitFunction
        <5>3. \A f \in Funcs : snapshot'[f].run =
                 IF f = fn[p] THEN mine[p] ELSE snapshot[f].run
          BY <5>2 DEF TypeOK
        <5> QED
          BY <5>1, <5>3 DEF Result
      <4> QED
        BY <2>5, <4>1, <4>2
    <3>4. A!Publish(Attempt(p))
      BY <2>2, <2>3, <3>2, <3>3 DEF A!Publish, A!Close, Attempt
    <3> QED
      BY <2>2, <3>4 DEF A!End
  <2> QED
    BY <1>5, <2>4, <2>5 DEF End
<1>6. ASSUME NEW p \in Procs, Crash(p), OthersKeep(p)
      PROVE  A!End \/ UNCHANGED A!vars
  <2>1. mine'[p] = NoRun /\ runs' = runs /\ snapshot' = snapshot
    BY <1>6 DEF Crash, Exit, db, TypeOK
  <2>2. CASE mine[p] = NoRun
    <3>1. InProgress' = InProgress
      BY <1>6, <2>1, <2>2, WorkOfOne
    <3> QED
      BY <1>1, <2>1, <3>1
  <2>3. CASE mine[p] # NoRun
    <3>1. Attempt(p) \in InProgress /\ InProgress' = InProgress \ {Attempt(p)}
      BY <1>6, <2>1, <2>3, WorkOfOne
    <3>2. A!Abandon(Attempt(p))
      BY <2>1, <3>1 DEF A!Abandon, A!Close, Begun, Outcome, Result
    <3> QED
      BY <3>1, <3>2 DEF A!End
  <2> QED
    BY <2>2, <2>3
<1>7. CASE Expire \/ UNCHANGED vars
  <2>1. /\ runs' = runs /\ snapshot' = snapshot
        /\ pc' = pc /\ fn' = fn /\ mine' = mine
    BY <1>7 DEF Expire, ExpireCatalog, ExpireFunction, vars, db, locals
  <2>2. InProgress' = InProgress
    BY <2>1 DEF InProgress, Attempt, Subject
  <2> QED
    BY <1>1, <2>1, <2>2
<1> QED
  BY <1>2, <1>3, <1>4, <1>5, <1>6, <1>7, StepsAreLocal, StepKinds
  DEF Next, OutOfRuns

(* Hence every step is one that Attempts allows.                           *)
LEMMA AttemptsStep ==
  ASSUME TypeOK, MineIsRunning, [Next]_vars
  PROVE  [A!Next]_(A!vars)
<1>1. ASSUME NEW p \in Procs, Claim(p)
      PROVE  Aim(p) \in Funcs \cup {NoFunc}
  BY <1>1 DEF Aim, TypeOK
<1> QED
  BY <1>1, StepIsAttempt DEF A!Next

(* The protocol implements what Attempts promises, whatever the processes,  *)
(* builds, kills and expiries: each stored snapshot is the result of one    *)
(* attempt, stored as that attempt succeeds.                               *)
THEOREM AttemptsAreImplemented == Spec => ImplementsAttempts
<1>1. Init => A!Init
  BY InitAttempts
<1>2. TypeOK /\ MineIsRunning /\ [Next]_vars => [A!Next]_(A!vars)
  BY AttemptsStep
<1> QED
  BY <1>1, <1>2, TypeCorrect, PTL DEF Spec, ImplementsAttempts, A!Spec
-----------------------------------------------------------------------------
(* What the quiet steps write of the artifact's row: its levels, and       *)
(* "stored" when the row is inserted.                                      *)
LEMMA QuietArtifact ==
  ASSUME TypeOK, NEW p \in Procs, Quiet(p)
  PROVE  /\ artifact'.owner = artifact.owner
         /\ artifact'.status = "cataloging" <=> artifact.status = "cataloging"
         /\ artifact'.status = "catalog_ready" => artifact.status = "catalog_ready"
         /\ artifact'.completed = artifact.completed \/ CompleteFull(p)
<1>1. CASE StoreArtifact(p)
  BY <1>1 DEF StoreArtifact, TypeOK, ArtifactRow
<1>2. CASE RequestFull(p)
  BY <1>2 DEF RequestFull, TypeOK, ArtifactRow
<1>3. CASE CompleteFull(p)
  BY <1>3 DEF CompleteFull, TypeOK, ArtifactRow
<1>4. CASE ~(StoreArtifact(p) \/ RequestFull(p) \/ CompleteFull(p))
  <2>1. artifact' = artifact
    BY <1>4
    DEF Quiet, Start, StartIngest, StartMaterialize, StartQuery, CheckCatalog,
        CatalogBusy, CollectFunctions, NextFunction, ReadRow, ReadManifest,
        FunctionBusy, Query, EnsureRow, EnsureManifest, ReadRelations, db
  <2> QED
    BY <2>1
<1> QED
  BY <1>1, <1>2, <1>3, <1>4

(* Claims and the work they are for.                                       *)
Claims == ClaimsStayPut /\ ClaimsBelongToRunningRuns

(* Claims survive a step that leaves them, their runs and the work of those *)
(* who hold them as they are.                                              *)
LEMMA ClaimsKept ==
  ASSUME TypeOK, MineIsRunning, Claims, NEW p \in Procs, OthersKeep(p),
         artifact'.owner = artifact.owner,
         artifact'.status = "cataloging" => artifact.status = "cataloging",
         mat' = mat, runs' = runs,
         mine'[p] \in RunIds => mine'[p] = mine[p] /\ fn'[p] = fn[p],
         mine'[p] \in RunIds /\ pc[p] \in {"catalog", "catalogFail"}
            => pc'[p] \in {"catalog", "catalogFail"},
         mine'[p] \in RunIds /\ pc[p] \in {"analyze", "analyzeFail"}
            => pc'[p] \in {"analyze", "analyzeFail"}
  PROVE  Claims'
BY DEF Claims, ClaimsStayPut, ClaimsBelongToRunningRuns, OthersKeep

(* A claim belongs to a run that is still running: the transaction that    *)
(* ends the run (EndPlaces) is the one that gives the claim up, and a      *)
(* commit that no longer holds the row leaves it to its new owner.         *)
LEMMA ClaimsStep ==
  ASSUME TypeOK, MineIsRunning, Claims, [Next]_vars
  PROVE  Claims'
<1> USE DEF Claims, ClaimsStayPut, ClaimsBelongToRunningRuns
<1>0. NoRun \notin RunIds
  BY ConstantsOK
<1>1. ASSUME NEW p \in Procs, Quiet(p), OthersKeep(p)
      PROVE  Claims'
  BY <1>1, QuietArtifact, QuietRuns, QuietPlaces, ClaimsKept
<1>2. ASSUME NEW p \in Procs, Break(p), OthersKeep(p)
      PROVE  Claims'
  <2>1. /\ artifact' = artifact /\ mat' = mat /\ runs' = runs
        /\ mine' = mine /\ fn' = fn
        /\ \/ pc[p] = "catalog" /\ pc'[p] = "catalogFail"
           \/ pc[p] = "analyze" /\ pc'[p] = "analyzeFail"
    BY <1>2 DEF Break, CatalogBreaks, AnalysisBreaks, Goto, db, TypeOK
  <2> QED
    BY <1>2, <2>1, ClaimsKept
<1>3. ASSUME NEW p \in Procs, ClaimCatalog(p), OthersKeep(p)
      PROVE  Claims'
  <2>1. PICK r \in RunIds :
            /\ runs[r] = "unused" /\ runs' = [runs EXCEPT ![r] = "running"]
            /\ mine'[p] = r /\ pc'[p] = "catalog"
    BY <1>3, ClaimPlaces DEF Claim
  <2>2. /\ artifact'.owner = r /\ mat' = mat
    BY <1>3, <2>1 DEF ClaimCatalog, TypeOK, ArtifactRow
  <2> QED
    BY <1>3, <2>1, <2>2 DEF OthersKeep, MineIsRunning, TypeOK
<1>4. ASSUME NEW p \in Procs, ClaimFunction(p), OthersKeep(p)
      PROVE  Claims'
  <2>1. PICK r \in RunIds :
            /\ runs[r] = "unused" /\ runs' = [runs EXCEPT ![r] = "running"]
            /\ mine'[p] = r /\ mine' = [mine EXCEPT ![p] = r]
            /\ mat' = [mat EXCEPT ![fn[p]] = [@ EXCEPT !.status = "materializing",
                                                  !.owner = r,
                                                  !.stale = FALSE]]
    BY <1>4 DEF ClaimFunction, TypeOK
  <2>2. /\ artifact' = artifact /\ fn' = fn /\ fn[p] \in Funcs
        /\ pc'[p] = "analyze"
    BY <1>4 DEF ClaimFunction, Goto, MineIsRunning, AtFunction, TypeOK
  <2>3. /\ mat'[fn[p]].owner = r
        /\ \A f \in Funcs \ {fn[p]} : mat'[f] = mat[f]
    BY <2>1, <2>2 DEF TypeOK, MatRow
  <2> QED
    BY <1>4, <2>1, <2>2, <2>3 DEF OthersKeep, MineIsRunning, TypeOK
<1>5. ASSUME NEW p \in Procs, FailCatalog(p) \/ CommitCatalog(p), OthersKeep(p)
      PROVE  Claims'
  <2>1. /\ mine[p] \in RunIds /\ mine'[p] = NoRun
        /\ \A r \in RunIds \ {mine[p]} : runs'[r] = runs[r]
    BY <1>5, EndPlaces DEF End, TypeOK
  <2>2. artifact'.status # "cataloging"
    BY <1>5 DEF FailCatalog, CommitCatalog, TypeOK, ArtifactRow
  <2>3. /\ pc[p] \in {"catalog", "catalogFail"}
        /\ \A f \in Funcs : mat'[f] = mat[f] \/ mat'[f].status # "materializing"
    <3>1. CASE FailCatalog(p)
      BY <3>1 DEF FailCatalog
    <3>2. CASE CommitCatalog(p)
      <4>1. \A f \in Funcs : mat'[f].status = CatalogLevel(f)
        BY <3>2 DEF CommitCatalog, TypeOK, MatRow
      <4>2. \A f \in Funcs : CatalogLevel(f) # "materializing"
        BY DEF CatalogLevel
      <4>3. pc[p] \in {"catalog", "catalogFail"}
        BY <3>2 DEF CommitCatalog
      <4> QED
        BY <3>2, <4>1, <4>2, <4>3
    <3> QED
      BY <1>5, <3>1, <3>2
  <2> QED
    BY <1>0, <1>5, <2>1, <2>2, <2>3 DEF OthersKeep, MineIsRunning, TypeOK
<1>6. ASSUME NEW p \in Procs, FailFunction(p) \/ CommitFunction(p), OthersKeep(p)
      PROVE  Claims'
  <2>1. /\ mine[p] \in RunIds /\ mine'[p] = NoRun
        /\ \A r \in RunIds \ {mine[p]} : runs'[r] = runs[r]
    BY <1>6, EndPlaces DEF End, TypeOK
  <2>2. /\ artifact' = artifact /\ fn[p] \in Funcs
        /\ pc[p] \in {"analyze", "analyzeFail"}
    BY <1>6 DEF FailFunction, CommitFunction, MineIsRunning, AtFunction
  <2>3. \A f \in Funcs :
           \/ mat'[f] = mat[f] /\ (f = fn[p] => mat[f].owner # mine[p])
           \/ mat'[f].status # "materializing"
    <3>1. CASE HoldsRow(p)
      <4>1. mat'[fn[p]].status # "materializing"
        <5>1. CASE FailFunction(p)
          BY <2>2, <3>1, <5>1 DEF FailFunction, TypeOK, MatRow
        <5>2. CASE CommitFunction(p)
          BY <2>2, <3>1, <5>2 DEF CommitFunction, TypeOK
        <5> QED
          BY <1>6, <5>1, <5>2
      <4>2. \A f \in Funcs \ {fn[p]} : mat'[f] = mat[f]
        BY <1>6, <3>1 DEF FailFunction, CommitFunction, TypeOK
      <4> QED
        BY <4>1, <4>2
    <3>2. CASE ~HoldsRow(p)
      BY <1>6, <3>2 DEF FailFunction, CommitFunction, HoldsRow
    <3> QED
      BY <3>1, <3>2
  <2> QED
    BY <1>0, <1>6, <2>1, <2>2, <2>3 DEF OthersKeep, MineIsRunning, TypeOK
<1>7. ASSUME NEW p \in Procs, Crash(p), OthersKeep(p)
      PROVE  Claims'
  <2>1. artifact' = artifact /\ mat' = mat /\ runs' = runs /\ mine'[p] = NoRun
    BY <1>7 DEF Crash, Exit, db, TypeOK
  <2> QED
    BY <1>0, <1>7, <2>1, ClaimsKept
<1>8. CASE ExpireCatalog
  <2>1. /\ artifact'.owner = artifact.owner
        /\ artifact'.status = artifact.status
    BY <1>8 DEF ExpireCatalog, TypeOK, ArtifactRow
  <2> QED
    BY <1>8, <2>1 DEF ExpireCatalog, locals
<1>9. ASSUME NEW f \in Funcs, ExpireFunction(f)
      PROVE  Claims'
  <2>1. \A g \in Funcs : /\ mat'[g].owner = mat[g].owner
                         /\ mat'[g].status = mat[g].status
    BY <1>9 DEF ExpireFunction, TypeOK, MatRow
  <2> QED
    BY <1>9, <2>1 DEF ExpireFunction, locals
<1>10. CASE UNCHANGED vars
  BY <1>10 DEF vars, db, locals
<1> QED
  BY <1>1, <1>2, <1>3, <1>4, <1>5, <1>6, <1>7, <1>8, <1>9, <1>10,
     StepsAreLocal, StepKinds DEF Next, Claim, End, Expire, OutOfRuns
-----------------------------------------------------------------------------
(* What a refresh of the catalog writes of each function's row.            *)
LEMMA CatalogRows ==
  ASSUME TypeOK, NEW p \in Procs, CommitCatalog(p), NEW f \in Funcs
  PROVE  /\ mat'[f].status = CatalogLevel(f) /\ mat'[f].run = mat[f].run
         /\ mat'[f].owner = NoRun
         /\ entity'[f] = CatalogLevel(f)
  BY DEF CommitCatalog, TypeOK, MatRow

(* What materialize writes of the rows, whoever owns the claim.            *)
LEMMA FunctionRows ==
  ASSUME TypeOK, MineIsRunning, NEW p \in Procs,
         ClaimFunction(p) \/ FailFunction(p) \/ CommitFunction(p),
         NEW f \in Funcs
  PROVE  \/ mat'[f] = mat[f]
         \/ /\ f = fn[p] /\ mat'[f].run = mat[f].run
            /\ mat'[f].status \in {"materializing", "failed"}
         \/ /\ f = fn[p] /\ CommitFunction(p) /\ HoldsRow(p)
            /\ mat'[f].status = "structure_ready" /\ mat'[f].owner = NoRun
            /\ mat'[f].run = mine[p] /\ mat'[f].ver = Build[p]
<1>1. fn[p] \in Funcs
  BY DEF ClaimFunction, FailFunction, CommitFunction, MineIsRunning, AtFunction
<1>2. CASE ClaimFunction(p)
  <2>1. PICK r \in RunIds :
            mat' = [mat EXCEPT ![fn[p]] = [@ EXCEPT !.status = "materializing",
                                                  !.owner = r,
                                                  !.stale = FALSE]]
    BY <1>2 DEF ClaimFunction
  <2>2. /\ mat'[fn[p]].status = "materializing"
        /\ mat'[fn[p]].run = mat[fn[p]].run
    BY <1>1, <2>1 DEF TypeOK, MatRow
  <2>3. f # fn[p] => mat'[f] = mat[f]
    BY <1>1, <2>1 DEF TypeOK
  <2> QED
    BY <2>2, <2>3
<1>3. CASE FailFunction(p)
  <2>1. CASE HoldsRow(p)
    BY <1>1, <1>3, <2>1 DEF FailFunction, TypeOK, MatRow
  <2>2. CASE ~HoldsRow(p)
    BY <1>3, <2>2 DEF FailFunction
  <2> QED
    BY <2>1, <2>2
<1>4. CASE CommitFunction(p)
  BY <1>1, <1>4 DEF CommitFunction, TypeOK
<1> QED
  BY <1>2, <1>3, <1>4

(* Expiry writes nothing that readers look at.                             *)
LEMMA ExpiryRows ==
  ASSUME TypeOK, Expire
  PROVE  /\ \A f \in Funcs : /\ mat'[f].status = mat[f].status
                             /\ mat'[f].run = mat[f].run
                             /\ mat'[f].owner = mat[f].owner
                             /\ mat'[f].ver = mat[f].ver
         /\ artifact'.status = artifact.status /\ artifact'.run = artifact.run
         /\ artifact'.owner = artifact.owner
         /\ artifact'.completed = artifact.completed
         /\ entity' = entity /\ snapshot' = snapshot /\ runs' = runs
         /\ UNCHANGED locals
<1>1. CASE ExpireCatalog
  BY <1>1 DEF ExpireCatalog, TypeOK, ArtifactRow
<1>2. ASSUME NEW f \in Funcs, ExpireFunction(f)
      PROVE  /\ \A g \in Funcs : /\ mat'[g].status = mat[g].status
                                 /\ mat'[g].run = mat[g].run
                                 /\ mat'[g].owner = mat[g].owner
                                 /\ mat'[g].ver = mat[g].ver
             /\ artifact' = artifact
             /\ entity' = entity /\ snapshot' = snapshot /\ runs' = runs
             /\ UNCHANGED locals
  BY <1>2 DEF ExpireFunction, TypeOK, MatRow
<1> QED
  BY <1>1, <1>2 DEF Expire

(* What every step does to the database, seen by a reader: a snapshot is   *)
(* never taken away, an entity never unpublished.                          *)
LEMMA DatabaseGrows ==
  ASSUME TypeOK, MineIsRunning, [Next]_vars, NEW f \in Funcs
  PROVE  /\ snapshot'[f] = snapshot[f] \/ snapshot'[f].run \in RunIds
         /\ entity[f] # "none" => entity'[f] # "none"
<1>1. ASSUME NEW p \in Procs, Quiet(p) PROVE snapshot' = snapshot /\ entity' = entity
  BY <1>1, QuietRuns
<1>2. ASSUME NEW p \in Procs,
             Break(p) \/ Claim(p) \/ FailCatalog(p) \/ FailFunction(p) \/ Crash(p)
      PROVE  snapshot' = snapshot /\ entity' = entity
  BY <1>2 DEF Break, CatalogBreaks, AnalysisBreaks, Claim, ClaimCatalog,
     ClaimFunction, FailCatalog, FailFunction, Crash, db
<1>3. ASSUME NEW p \in Procs, CommitCatalog(p)
      PROVE  snapshot' = snapshot /\ entity'[f] # "none"
  <2>1. CatalogLevel(f) # "none"
    BY DEF CatalogLevel
  <2> QED
    BY <1>3, <2>1, CatalogRows DEF CommitCatalog
<1>4. ASSUME NEW p \in Procs, CommitFunction(p)
      PROVE  /\ snapshot'[f] = snapshot[f] \/ snapshot'[f].run \in RunIds
             /\ entity[f] # "none" => entity'[f] # "none"
  <2>1. mine[p] \in RunIds
    BY <1>4, EndPlaces DEF End
  <2> QED
    BY <1>4, <2>1 DEF CommitFunction, TypeOK
<1>5. CASE Expire \/ UNCHANGED vars
  BY <1>5, ExpiryRows DEF vars, db
<1> QED
  BY <1>1, <1>2, <1>3, <1>4, <1>5, StepKinds DEF Next, End, OutOfRuns

(* A row becomes structure_ready only in CommitFunction, beside the        *)
(* snapshot, and keeps its run when the status is taken away again.        *)
LEMMA ReadyStep ==
  ASSUME TypeOK, MineIsRunning, ReadyHasSnapshot, [Next]_vars
  PROVE  ReadyHasSnapshot'
<1>0. NoRun \notin RunIds
  BY ConstantsOK
<1> SUFFICES ASSUME NEW f \in Funcs, mat'[f].status = "structure_ready"
             PROVE  mat'[f].run # NoRun /\ snapshot'[f].run # NoRun
  BY DEF ReadyHasSnapshot
<1>1. ASSUME mat[f].status = "structure_ready", mat'[f].run = mat[f].run
      PROVE  mat'[f].run # NoRun /\ snapshot'[f].run # NoRun
  BY <1>0, <1>1, DatabaseGrows DEF ReadyHasSnapshot
<1>2. ASSUME NEW p \in Procs, Quiet(p) \/ Break(p) \/ ClaimCatalog(p)
                              \/ FailCatalog(p) \/ Crash(p)
      PROVE  mat' = mat
  BY <1>2, QuietRuns DEF Break, CatalogBreaks, AnalysisBreaks, ClaimCatalog,
     FailCatalog, Crash, db
<1>3. ASSUME NEW p \in Procs, CommitCatalog(p) PROVE FALSE
  BY <1>3, CatalogRows DEF CatalogLevel
<1>4. ASSUME NEW p \in Procs,
             ClaimFunction(p) \/ FailFunction(p) \/ CommitFunction(p)
      PROVE  mat'[f].run # NoRun /\ snapshot'[f].run # NoRun
  <2>1. CASE mat'[f] = mat[f]
    BY <1>1, <2>1
  <2>2. CASE mat'[f] # mat[f]
    <3>1. f = fn[p] /\ CommitFunction(p) /\ mat'[f].run = mine[p]
      <4>1. mat'[f].status \notin {"materializing", "failed"}
        OBVIOUS
      <4> QED
        BY <1>4, <2>2, <4>1, FunctionRows
    <3>2. mine[p] \in RunIds
      BY <3>1, EndPlaces DEF End
    <3>3. snapshot'[f].run = mine[p]
      BY <3>1 DEF CommitFunction, TypeOK
    <3> QED
      BY <1>0, <3>1, <3>2, <3>3
  <2> QED
    BY <2>1, <2>2
<1>5. CASE Expire \/ UNCHANGED vars
  BY <1>1, <1>5, ExpiryRows DEF vars, db
<1> QED
  BY <1>1, <1>2, <1>3, <1>4, <1>5, StepKinds DEF Next, Claim, End, OutOfRuns

(* What a full ingest relies on when it skips the catalog.                 *)
LEMMA PublishStep ==
  ASSUME TypeOK, MineIsRunning, CatalogPublishes, [Next]_vars
  PROVE  CatalogPublishes'
<1>0. NoRun \notin RunIds
  BY ConstantsOK
<1>1. ASSUME NEW f \in Funcs, mat'[f].status = "declaration_only"
      PROVE  f \in Decls
  <2>1. ASSUME NEW p \in Procs, Quiet(p) \/ Break(p) \/ ClaimCatalog(p)
                                \/ FailCatalog(p) \/ Crash(p)
        PROVE  mat' = mat
    BY <2>1, QuietRuns DEF Break, CatalogBreaks, AnalysisBreaks, ClaimCatalog,
       FailCatalog, Crash, db
  <2>2. ASSUME NEW p \in Procs, CommitCatalog(p) PROVE f \in Decls
    BY <1>1, <2>2, CatalogRows DEF CatalogLevel
  <2>3. ASSUME NEW p \in Procs,
               ClaimFunction(p) \/ FailFunction(p) \/ CommitFunction(p)
        PROVE  mat'[f] = mat[f]
    <3>1. mat'[f].status \notin {"materializing", "failed", "structure_ready"}
      BY <1>1
    <3> QED
      BY <2>3, <3>1, FunctionRows
  <2>4. CASE Expire \/ UNCHANGED vars
    BY <1>1, <2>4, ExpiryRows DEF vars, db, CatalogPublishes
  <2> QED
    BY <1>1, <2>1, <2>2, <2>3, <2>4, StepKinds
    DEF Next, Claim, End, OutOfRuns, CatalogPublishes
<1>2. ASSUME NEW f \in Funcs, snapshot'[f].ver # NoVersion
      PROVE  snapshot'[f].run # NoRun
  BY <1>0, <1>2, DatabaseGrows DEF CatalogPublishes
<1> DEFINE all == \A f \in Funcs : entity[f] # "none"
           all1 == \A f \in Funcs : entity'[f] # "none"
<1>3. all => all1
  BY DatabaseGrows
<1>4. ASSUME NEW p \in Procs, CommitCatalog(p) PROVE all1
  BY <1>4, CatalogRows DEF CatalogLevel
<1>5. artifact'.status = "catalog_ready" => all1
  <2>1. ASSUME NEW p \in Procs, Quiet(p)
        PROVE  artifact'.status = "catalog_ready" => artifact.status = "catalog_ready"
    BY <2>1, QuietArtifact
  <2>2. ASSUME NEW p \in Procs, Break(p) \/ ClaimFunction(p) \/ FailFunction(p)
                                \/ CommitFunction(p) \/ Crash(p)
        PROVE  artifact' = artifact
    BY <2>2 DEF Break, CatalogBreaks, AnalysisBreaks, ClaimFunction,
       FailFunction, CommitFunction, Crash, db
  <2>3. ASSUME NEW p \in Procs, ClaimCatalog(p) \/ FailCatalog(p)
        PROVE  artifact'.status # "catalog_ready"
    BY <2>3 DEF ClaimCatalog, FailCatalog, TypeOK, ArtifactRow
  <2>4. CASE Expire \/ UNCHANGED vars
    BY <1>3, <2>4, ExpiryRows DEF vars, db, CatalogPublishes
  <2> QED
    BY <1>3, <1>4, <2>1, <2>2, <2>3, <2>4, StepKinds
    DEF Next, Claim, End, OutOfRuns, CatalogPublishes
<1>6. ASSUME NEW q \in Procs, SkipsCatalog(q)' PROVE all1
  <2>1. ASSUME SkipsCatalog(q) PROVE all1
    BY <1>3, <2>1 DEF CatalogPublishes
  <2>2. ASSUME NEW p \in Procs, OthersKeep(p), p # q PROVE SkipsCatalog(q)
    BY <1>6, <2>2 DEF SkipsCatalog, OthersKeep
  <2>3. CASE Start(q) \/ StoreArtifact(q) \/ CompleteFull(q) \/ CatalogBusy(q)
             \/ FailCatalog(q) \/ CollectFunctions(q) \/ NextFunction(q)
             \/ CatalogBreaks(q) \/ ClaimCatalog(q) \/ Crash(q)
    BY <1>6, <2>3
    DEF SkipsCatalog, Start, StartIngest, StartMaterialize, StartQuery,
       StoreArtifact, CompleteFull, CatalogBusy, FailCatalog, CollectFunctions,
       NextFunction, CatalogBreaks, ClaimCatalog, Crash, Exit, Goto, TypeOK
  <2>4. CASE Materialize(q) \/ Query(q)
    BY <1>6, <2>4
    DEF SkipsCatalog, Materialize, ReadRow, ReadManifest, ClaimFunction,
       FunctionBusy, AnalysisBreaks, FailFunction, CommitFunction, Query,
       EnsureRow, EnsureManifest, ReadRelations, Return, AfterMaterialize,
       Exit, Goto, TypeOK
  <2>5. CASE RequestFull(q)
    BY <1>6, <2>1, <2>5 DEF SkipsCatalog, RequestFull, Goto, TypeOK
  <2>6. CASE CheckCatalog(q)
    <3>1. artifact.status = "catalog_ready"
      <4>1. pc'[q] = "request" /\ ~cmd'[q].refresh
        BY <1>6, <2>6 DEF SkipsCatalog, CheckCatalog, Exit, Goto, TypeOK
      <4>2. cmd' = [cmd EXCEPT ![q].refresh =
                       cmd[q].refresh \/ ~CatalogCurrent(q)]
        BY <2>6, <4>1 DEF CheckCatalog, Exit, Goto, TypeOK
      <4>3. cmd'[q].refresh = (cmd[q].refresh \/ ~CatalogCurrent(q))
        BY <4>2 DEF TypeOK, Command
      <4> QED
        BY <4>1, <4>3 DEF CatalogCurrent
    <3> QED
      BY <1>3, <3>1 DEF CatalogPublishes
  <2>7. CASE CommitCatalog(q)
    BY <1>4, <2>7
  <2>8. CASE Expire \/ UNCHANGED vars
    <3>1. pc' = pc /\ cmd' = cmd
      BY <2>8, ExpiryRows DEF vars, locals
    <3> QED
      BY <1>6, <2>1, <3>1 DEF SkipsCatalog
  <2> QED
    BY <2>1, <2>2, <2>3, <2>4, <2>5, <2>6, <2>7, <2>8, StepsAreLocal
    DEF Next, Step, Ingest, OutOfRuns
<1>7. \A q \in Procs : SkipsCatalog(q)' => all1
  BY <1>6
<1>8. /\ \A f \in Funcs : mat'[f].status = "declaration_only" => f \in Decls
      /\ \A f \in Funcs : snapshot'[f].ver # NoVersion => snapshot'[f].run # NoRun
  BY <1>1, <1>2
<1> QED
  BY <1>5, <1>7, <1>8 DEF CatalogPublishes
-----------------------------------------------------------------------------
(* A full ingest in its loop has f on its list, in hand, or analyzed.      *)
Covered(p, f) ==
    \/ f \in todo[p]
    \/ pc[p] # "next" /\ fn[p] = f
    \/ snapshot[f].run # NoRun

(* LoopCovers, by that name.                                               *)
LEMMA LoopIsCovered ==
  LoopCovers <=> \A p \in Procs : InLoop(p) => \A f \in Funcs \ Decls : Covered(p, f)
  BY DEF LoopCovers, Covered

(* The steps inside materialize, before it returns or gives up.            *)
LEMMA InsideMaterialize ==
  ASSUME TypeOK, MineIsRunning, NEW q \in Procs,
         Materialize(q) \/ Query(q), InLoop(q)'
  PROVE  /\ InLoop(q) /\ pc[q] # "next"
         /\ todo'[q] = todo[q] /\ fn'[q] = fn[q]
         /\ pc'[q] = "next" =>
               \/ ReadRow(q) /\ mat[fn[q]].status = "declaration_only"
               \/ ReadManifest(q) /\ ManifestCurrent(q, fn[q])
               \/ CommitFunction(q)
<1> USE DEF InLoop, AtFunction
<1>1. CASE ReadRow(q)
  <2>1. CASE mat[fn[q]].status = "declaration_only" /\ Return(q)
    <3>1. pc[q] = "row"
      BY <1>1 DEF ReadRow
    <3>2. CASE Exit(q)
      BY <3>2 DEF Exit, Goto, TypeOK
    <3>3. CASE ~Exit(q)
      <4>1. /\ pc'[q] = AfterMaterialize(q)
            /\ UNCHANGED <<cmd, fn, todo>>
        BY <2>1, <3>3 DEF Return, Goto, TypeOK
      <4>2. /\ AfterMaterialize(q) \in {"next", "read", "idle"}
            /\ AfterMaterialize(q) = "next" => cmd[q].op = "ingest"
            /\ AfterMaterialize(q) = "read" => cmd[q].op # "ingest"
        BY DEF AfterMaterialize
      <4>3. InLoop(q) /\ pc[q] # "next"
        BY <3>1, <4>1, <4>2
      <4>4. todo'[q] = todo[q] /\ fn'[q] = fn[q]
        BY <4>1
      <4> HIDE DEF InLoop
      <4> QED
        BY <1>1, <2>1, <4>3, <4>4
    <3> QED
      BY <3>2, <3>3
  <2>2. CASE /\ pc'[q] \in {"manifest", "claim"}
             /\ UNCHANGED <<cmd, fn, todo, mine>>
    BY <1>1, <2>2 DEF ReadRow
  <2> QED
    BY <1>1, <2>1, <2>2 DEF ReadRow, Goto, TypeOK
<1>2. CASE ReadManifest(q)
  BY <1>2
  DEF ReadManifest, Return, AfterMaterialize, Exit, Goto, TypeOK, Command,
     NoCommand
<1>3. CASE ClaimFunction(q) \/ AnalysisBreaks(q)
  BY <1>3 DEF ClaimFunction, AnalysisBreaks, Goto, TypeOK
<1>4. CASE FunctionBusy(q) \/ FailFunction(q)
  BY <1>4 DEF FunctionBusy, FailFunction, Exit, Goto, TypeOK
<1>5. CASE CommitFunction(q)
  BY <1>5
  DEF CommitFunction, Return, AfterMaterialize, Exit, Goto, TypeOK, Command,
     NoCommand
<1>6. CASE Query(q)
  BY <1>6
  DEF Query, EnsureRow, EnsureManifest, ReadRelations, Exit, Goto, TypeOK
<1> QED
  BY <1>1, <1>2, <1>3, <1>4, <1>5, <1>6 DEF Materialize

(* Whichever way materialize returns to the loop of a full ingest, the     *)
(* function in hand is a declaration or has a snapshot by then.            *)
LEMMA LoopStep ==
  ASSUME TypeOK, MineIsRunning, CatalogPublishes, LoopCovers, [Next]_vars
  PROVE  LoopCovers'
<1>0. NoRun \notin RunIds
  BY ConstantsOK
<1> SUFFICES ASSUME NEW q \in Procs, InLoop(q)', NEW f \in Funcs \ Decls
             PROVE  Covered(q, f)'
  BY LoopIsCovered DEF LoopCovers, Covered
<1>1. InLoop(q) => Covered(q, f)
  BY LoopIsCovered
<1>2. snapshot[f].run # NoRun => snapshot'[f].run # NoRun
  BY <1>0, DatabaseGrows
<1>3. ASSUME NEW p \in Procs, OthersKeep(p), p # q PROVE Covered(q, f)'
  BY <1>1, <1>2, <1>3 DEF OthersKeep, InLoop, Covered
<1>4. CASE Start(q) \/ StoreArtifact(q) \/ CheckCatalog(q) \/ RequestFull(q)
           \/ ClaimCatalog(q) \/ CatalogBusy(q) \/ CatalogBreaks(q)
           \/ FailCatalog(q) \/ CommitCatalog(q) \/ CompleteFull(q) \/ Crash(q)
  <2>1. CASE Start(q)
    <3>1. pc'[q] = "store" \/ (cmd'[q].op # "ingest" /\ pc'[q] # "next")
      BY <2>1 DEF Start, StartIngest, StartMaterialize, StartQuery, NoCommand,
         Goto, TypeOK
    <3> QED
      BY <3>1 DEF InLoop, AtFunction
  <2>2. CASE ~Start(q)
    BY <1>4, <2>2 DEF StoreArtifact, CheckCatalog, RequestFull, ClaimCatalog,
       CatalogBusy, CatalogBreaks, FailCatalog, CommitCatalog, CompleteFull,
       Crash, Exit, Goto, TypeOK, InLoop, AtFunction
  <2> QED
    BY <2>1, <2>2
<1>5. CASE CollectFunctions(q)
  BY <1>5 DEF CollectFunctions, CatalogPublishes, SkipsCatalog, Covered, TypeOK
<1>6. CASE NextFunction(q)
  BY <1>1, <1>2, <1>6 DEF NextFunction, Goto, InLoop, Covered, TypeOK
<1>7. CASE Materialize(q) \/ Query(q)
  <2>1. /\ Covered(q, f) /\ pc[q] # "next"
        /\ todo'[q] = todo[q] /\ fn'[q] = fn[q]
    BY <1>1, <1>7, InsideMaterialize
  <2>2. CASE pc'[q] # "next" \/ fn[q] # f
    BY <1>2, <2>1, <2>2 DEF Covered
  <2>3. CASE pc'[q] = "next" /\ fn[q] = f
    <3>1. \/ mat[f].status = "declaration_only"
          \/ ManifestCurrent(q, f)
          \/ CommitFunction(q)
      BY <1>7, <2>3, InsideMaterialize
    <3>2. snapshot[f].run # NoRun \/ CommitFunction(q)
      BY <3>1 DEF CatalogPublishes, ManifestCurrent
    <3>3. CommitFunction(q) => snapshot'[f].run \in RunIds
      <4> SUFFICES ASSUME CommitFunction(q) PROVE snapshot'[f].run \in RunIds
        OBVIOUS
      <4>1. mine[q] \in RunIds
        BY EndPlaces DEF End
      <4> QED
        BY <2>3, <4>1 DEF CommitFunction, TypeOK
    <3> QED
      BY <1>0, <1>2, <3>2, <3>3 DEF Covered
  <2> QED
    BY <2>2, <2>3
<1>8. CASE Expire \/ UNCHANGED vars
  <2>1. pc' = pc /\ cmd' = cmd /\ todo' = todo /\ fn' = fn
    BY <1>8, ExpiryRows DEF vars, locals
  <2> QED
    BY <1>1, <1>2, <2>1 DEF InLoop, Covered
<1> QED
  BY <1>3, <1>4, <1>5, <1>6, <1>7, <1>8, StepsAreLocal
  DEF Next, Step, Ingest, OutOfRuns

(* completed_index_level is set to full when the loop has nothing left.    *)
LEMMA FullStep ==
  ASSUME TypeOK, MineIsRunning, LoopCovers, FullMeansAnalyzed, [Next]_vars
  PROVE  FullMeansAnalyzed'
<1>0. NoRun \notin RunIds
  BY ConstantsOK
<1> SUFFICES ASSUME artifact'.completed = "full", NEW f \in Funcs \ Decls
             PROVE  snapshot'[f].run # NoRun
  BY DEF FullMeansAnalyzed
<1>1. snapshot[f].run # NoRun => snapshot'[f].run # NoRun
  BY <1>0, DatabaseGrows
<1>2. CASE artifact.completed = "full"
  BY <1>1, <1>2 DEF FullMeansAnalyzed
<1>3. ASSUME NEW p \in Procs, CompleteFull(p) PROVE snapshot[f].run # NoRun
  <2>1. InLoop(p) /\ pc[p] = "next" /\ todo[p] = {}
    BY <1>3 DEF CompleteFull, InLoop
  <2> QED
    BY <2>1 DEF LoopCovers
<1>4. ASSUME NEW p \in Procs, ~CompleteFull(p),
             Quiet(p) \/ Break(p) \/ Claim(p) \/ End(p) \/ Crash(p)
      PROVE  artifact.completed = "full"
  <2>1. CASE Quiet(p)
    BY <1>4, <2>1, QuietArtifact
  <2>2. CASE ClaimCatalog(p) \/ FailCatalog(p) \/ CommitCatalog(p)
    BY <2>2 DEF ClaimCatalog, FailCatalog, CommitCatalog, TypeOK, ArtifactRow
  <2>3. CASE Break(p) \/ ClaimFunction(p) \/ FailFunction(p)
             \/ CommitFunction(p) \/ Crash(p)
    BY <2>3 DEF Break, CatalogBreaks, AnalysisBreaks, ClaimFunction,
       FailFunction, CommitFunction, Crash, db
  <2> QED
    BY <1>4, <2>1, <2>2, <2>3 DEF Claim, End
<1>5. CASE Expire \/ UNCHANGED vars
  BY <1>2, <1>5, ExpiryRows DEF vars, db
<1> QED
  BY <1>1, <1>2, <1>3, <1>4, <1>5, StepKinds DEF Next, OutOfRuns

(* An empty state directory satisfies the invariant.                       *)
LEMMA InitInvariant == Init => IInv
<1> SUFFICES ASSUME Init PROVE IInv
  OBVIOUS
<1>1. /\ artifact.status = "absent" /\ artifact.completed = "none"
      /\ \A f \in Funcs : /\ mat[f].status = "none"
                          /\ snapshot[f].ver = NoVersion
      /\ \A p \in Procs : pc[p] = "idle" /\ mine[p] = NoRun
  BY DEF Init, NoSnapshot
<1>2. NoRun \notin RunIds
  BY ConstantsOK
<1> QED
  BY <1>1, <1>2, InitHolds
  DEF IInv, ClaimsStayPut, ClaimsBelongToRunningRuns, ReadyHasSnapshot,
      CatalogPublishes, SkipsCatalog, LoopCovers, InLoop, AtFunction,
      FullMeansAnalyzed

(* The inductive invariant of the protocol.                                *)
THEOREM InvariantHolds == Spec => []IInv
<1>1. Init => IInv
  BY InitInvariant
<1>2. TypeOK /\ IInv /\ [Next]_vars => IInv'
  BY MineStep, EvidenceStep, ClaimsStep, ReadyStep, PublishStep, LoopStep,
     FullStep DEF IInv, Claims
<1> QED
  BY <1>1, <1>2, TypeCorrect, PTL DEF Spec

(* No claim is left behind by a run that has ended, whoever crashes and     *)
(* whosever claim is erased (ingest, materialize: service.cpp:392-470,     *)
(* 724-940).                                                               *)
THEOREM ClaimsAreAccountedFor == Spec => []ClaimsBelongToRunningRuns
  BY InvariantHolds, PTL DEF IInv

(* A row that says structure_ready has a snapshot behind it.               *)
THEOREM ReadyMeansAnalyzed == Spec => []ReadyHasSnapshot
  BY InvariantHolds, PTL DEF IInv

(* completed_index_level full means that every function with a body has    *)
(* been analyzed, although nothing is looked at when it is written.        *)
THEOREM FullIsFull == Spec => []FullMeansAnalyzed
  BY InvariantHolds, PTL DEF IInv
-----------------------------------------------------------------------------
(* How a claim that is not stale can go: its owner ends its work, or the   *)
(* catalog is committed.                                                   *)
LEMMA ReleaseStep ==
  ASSUME TypeOK, MineIsRunning, [Next]_vars, NEW f \in Funcs,
         mat[f].status = "materializing", ~mat[f].stale,
         mat'[f].owner # mat[f].owner
  PROVE  \E p \in Procs : \/ mine[p] = mat[f].owner /\ mine'[p] = NoRun
                          \/ pc[p] = "catalog" /\ pc'[p] # "catalog"
<1>1. ASSUME NEW p \in Procs, Quiet(p) \/ Break(p) \/ ClaimCatalog(p)
                              \/ FailCatalog(p) \/ Crash(p)
      PROVE  mat' = mat
  BY <1>1, QuietRuns DEF Break, CatalogBreaks, AnalysisBreaks, ClaimCatalog,
     FailCatalog, Crash, db
<1>2. ASSUME NEW p \in Procs, ClaimFunction(p) PROVE FALSE
  <2>1. f # fn[p]
    BY <1>2 DEF ClaimFunction, Claimable
  <2>2. mat'[f] = mat[f]
    BY <1>2, <2>1 DEF ClaimFunction, TypeOK
  <2> QED
    BY <2>2
<1>3. ASSUME NEW p \in Procs, FailFunction(p) \/ CommitFunction(p)
      PROVE  mine[p] = mat[f].owner /\ mine'[p] = NoRun
  <2>1. HoldsRow(p)
    BY <1>3 DEF FailFunction, CommitFunction
  <2>2. f = fn[p]
    BY <1>3, <2>1 DEF FailFunction, CommitFunction, TypeOK
  <2> QED
    BY <1>3, <2>1, <2>2, EndPlaces DEF HoldsRow, End
<1>4. ASSUME NEW p \in Procs, CommitCatalog(p)
      PROVE  pc[p] = "catalog" /\ pc'[p] # "catalog"
  BY <1>4, EndPlaces DEF CommitCatalog, End, Working
<1>5. ~(Expire \/ UNCHANGED vars)
  BY ExpiryRows DEF vars, db
<1> QED
  BY <1>1, <1>2, <1>3, <1>4, <1>5, StepKinds DEF Next, Claim, End, OutOfRuns

(* Nobody but its owner, or a refresh of the catalog, takes a claim that   *)
(* is younger than ten minutes (`WHERE ... AND claim_owner=?`).            *)
THEOREM OnlyTheOwnerReleasesHolds == Spec => OnlyTheOwnerReleases
<1>1. TypeOK /\ MineIsRunning /\ [Next]_vars
      => [\A f \in Funcs :
            (mat[f].status = "materializing" /\ ~mat[f].stale
               /\ mat'[f].owner # mat[f].owner)
            => \E p \in Procs : \/ mine[p] = mat[f].owner /\ mine'[p] = NoRun
                                \/ pc[p] = "catalog" /\ pc'[p] # "catalog"]_vars
  BY ReleaseStep
<1> QED
  BY <1>1, TypeCorrect, PTL DEF Spec, OnlyTheOwnerReleases
-----------------------------------------------------------------------------
(* The hypothesis of the runs `catalog` and `leases`: no live process      *)
(* outlasts its own claim of ten minutes.                                  *)
LeasesRespected == ~SlowWork

(* p is building the catalog.                                              *)
Cataloging(p) == pc[p] \in {"catalog", "catalogFail"}

(* The catalog is in the hands of the process that builds it.              *)
CatalogHeld ==
    \A p \in Procs : Cataloging(p) =>
        /\ artifact.status = "cataloging" /\ ~artifact.stale
        /\ artifact.owner = mine[p] /\ artifact.run = mine[p]

(* The run a ready catalog names is a run that succeeded.                  *)
CatalogKnown ==
    artifact.status = "catalog_ready" =>
        artifact.run \in RunIds /\ runs[artifact.run] = "success"

(* As long as leases are respected, the artifact's row stays under the     *)
(* claim of the process that builds the catalog.                           *)
LEMMA CatalogHeldStep ==
  ASSUME LeasesRespected, TypeOK, MineIsRunning, CatalogHeld, [Next]_vars
  PROVE  CatalogHeld'
<1> USE DEF Cataloging
<1>0. ASSUME NEW p \in Procs, NEW q \in Procs, Cataloging(p), Cataloging(q)
      PROVE  p = q
  BY <1>0 DEF CatalogHeld, MineIsRunning, Working
<1> SUFFICES ASSUME NEW q \in Procs, Cataloging(q)'
             PROVE  /\ artifact'.status = "cataloging" /\ ~artifact'.stale
                    /\ artifact'.owner = mine'[q] /\ artifact'.run = mine'[q]
  BY DEF CatalogHeld
<1>1. ASSUME Cataloging(q), mine'[q] = mine[q],
             artifact'.status = artifact.status, artifact'.stale = artifact.stale,
             artifact'.owner = artifact.owner, artifact'.run = artifact.run
      PROVE  /\ artifact'.status = "cataloging" /\ ~artifact'.stale
             /\ artifact'.owner = mine'[q] /\ artifact'.run = mine'[q]
  BY <1>1 DEF CatalogHeld
<1>2. ASSUME NEW p \in Procs, OthersKeep(p), p # q
      PROVE  Cataloging(q) /\ mine'[q] = mine[q]
  BY <1>2 DEF OthersKeep
<1>3. ASSUME NEW p \in Procs, OthersKeep(p), Quiet(p)
      PROVE  /\ artifact'.status = "cataloging" /\ ~artifact'.stale
             /\ artifact'.owner = mine'[q] /\ artifact'.run = mine'[q]
  <2>1. p # q
    BY <1>3, QuietPlaces DEF Working
  <2>2. artifact.status = "cataloging"
    BY <1>2, <1>3, <2>1 DEF CatalogHeld
  <2>3. /\ artifact'.status = artifact.status /\ artifact'.stale = artifact.stale
        /\ artifact'.owner = artifact.owner /\ artifact'.run = artifact.run
    <3>1. CASE StoreArtifact(p) \/ RequestFull(p) \/ CompleteFull(p)
      BY <2>2, <3>1
      DEF StoreArtifact, RequestFull, CompleteFull, TypeOK, ArtifactRow
    <3>2. CASE ~(StoreArtifact(p) \/ RequestFull(p) \/ CompleteFull(p))
      BY <1>3, <3>2
      DEF Quiet, Start, StartIngest, StartMaterialize, StartQuery,
          CheckCatalog,
          CatalogBusy, CollectFunctions, NextFunction, ReadRow, ReadManifest,
          FunctionBusy, Query, EnsureRow, EnsureManifest, ReadRelations, db
    <3> QED
      BY <3>1, <3>2
  <2> QED
    BY <1>1, <1>2, <1>3, <2>1, <2>3
<1>4. ASSUME NEW p \in Procs, OthersKeep(p),
             Break(p) \/ ClaimFunction(p) \/ FailFunction(p)
             \/ CommitFunction(p) \/ Crash(p)
      PROVE  /\ artifact'.status = "cataloging" /\ ~artifact'.stale
             /\ artifact'.owner = mine'[q] /\ artifact'.run = mine'[q]
  <2>1. artifact' = artifact
    BY <1>4 DEF Break, CatalogBreaks, AnalysisBreaks, ClaimFunction,
       FailFunction, CommitFunction, Crash, db
  <2>2. Cataloging(q) /\ mine'[q] = mine[q]
    <3>1. CASE p # q
      BY <1>2, <1>4, <3>1
    <3>2. CASE p = q
      <4>1. Break(p)
        BY <1>4, <3>2, EndPlaces DEF ClaimFunction, Crash, Exit, Goto, End,
           Working, TypeOK
      <4> QED
        BY <3>2, <4>1 DEF Break, CatalogBreaks, AnalysisBreaks, Goto, TypeOK
    <3> QED
      BY <3>1, <3>2
  <2> QED
    BY <1>1, <2>1, <2>2
<1>5. ASSUME NEW p \in Procs, OthersKeep(p), ClaimCatalog(p)
      PROVE  /\ artifact'.status = "cataloging" /\ ~artifact'.stale
             /\ artifact'.owner = mine'[q] /\ artifact'.run = mine'[q]
  <2>1. p = q
    <3>1. ASSUME p # q PROVE FALSE
      BY <1>2, <1>5, <3>1 DEF ClaimCatalog, CatalogClaimable, CatalogHeld
    <3> QED
      BY <3>1
  <2>2. PICK r \in RunIds : /\ artifact' = [artifact EXCEPT !.status = "cataloging",
                                          !.owner = r,
                                          !.stale = FALSE,
                                          !.run = r,
                                          !.requested = cmd[p].index]
                            /\ mine' = [mine EXCEPT ![p] = r]
    BY <1>5 DEF ClaimCatalog
  <2> QED
    BY <2>1, <2>2 DEF TypeOK, ArtifactRow
<1>6. ASSUME NEW p \in Procs, OthersKeep(p), FailCatalog(p) \/ CommitCatalog(p)
      PROVE  FALSE
  <2>1. Cataloging(p) /\ ~Cataloging(p)'
    <3>1. Cataloging(p)
      BY <1>6 DEF FailCatalog, CommitCatalog
    <3> QED
      BY <1>6, <3>1, EndPlaces DEF End, Working
  <2> QED
    BY <1>0, <1>2, <1>6, <2>1
<1>7. ASSUME ExpireCatalog PROVE FALSE
  <2>1. Cataloging(q)
    BY <1>7 DEF ExpireCatalog, locals
  <2>2. HeldByLive(artifact.owner)
    BY <2>1 DEF HeldByLive, CatalogHeld
  <2> QED
    BY <1>7, <2>2 DEF ExpireCatalog, LeasesRespected
<1>8. CASE UNCHANGED vars \/ \E f \in Funcs : ExpireFunction(f)
  BY <1>1, <1>8 DEF ExpireFunction, vars, db, locals
<1> QED
  BY <1>3, <1>4, <1>5, <1>6, <1>7, <1>8, StepsAreLocal, StepKinds
  DEF Next, Claim, End, Expire, OutOfRuns

(* A catalog becomes ready in the transaction that ends its run well.      *)
LEMMA CatalogKnownStep ==
  ASSUME TypeOK, MineIsRunning, CatalogHeld, CatalogKnown, [Next]_vars
  PROVE  CatalogKnown'
<1> SUFFICES ASSUME artifact'.status = "catalog_ready"
             PROVE  artifact'.run \in RunIds /\ runs'[artifact'.run] = "success"
  BY DEF CatalogKnown
<1>1. ASSUME artifact.status = "catalog_ready", artifact'.run = artifact.run
      PROVE  artifact'.run \in RunIds /\ runs'[artifact'.run] = "success"
  BY <1>1, FinishedStays DEF CatalogKnown
<1>2. ASSUME NEW p \in Procs, Quiet(p) \/ Break(p) \/ ClaimFunction(p)
               \/ FailFunction(p) \/ CommitFunction(p) \/ Crash(p)
      PROVE  artifact.status = "catalog_ready" /\ artifact'.run = artifact.run
  <2>1. CASE StoreArtifact(p) \/ RequestFull(p) \/ CompleteFull(p)
    BY <2>1 DEF StoreArtifact, RequestFull, CompleteFull, TypeOK, ArtifactRow
  <2>2. CASE ~(StoreArtifact(p) \/ RequestFull(p) \/ CompleteFull(p))
    <3>1. artifact' = artifact
      BY <1>2, <2>2
      DEF Quiet, Start, StartIngest, StartMaterialize, StartQuery,
          CheckCatalog,
          CatalogBusy, CollectFunctions, NextFunction, ReadRow, ReadManifest,
          FunctionBusy, Query, EnsureRow, EnsureManifest, ReadRelations, db,
          Break, CatalogBreaks, AnalysisBreaks, ClaimFunction, FailFunction,
          CommitFunction, Crash
    <3> QED
      BY <3>1
  <2> QED
    BY <2>1, <2>2
<1>3. ASSUME NEW p \in Procs, ClaimCatalog(p) \/ FailCatalog(p) PROVE FALSE
  BY <1>3 DEF ClaimCatalog, FailCatalog, TypeOK, ArtifactRow
<1>4. ASSUME NEW p \in Procs, CommitCatalog(p)
      PROVE  artifact'.run \in RunIds /\ runs'[artifact'.run] = "success"
  <2>1. mine[p] \in RunIds /\ artifact.run = mine[p]
    BY <1>4 DEF CommitCatalog, CatalogHeld, Cataloging, MineIsRunning, Working
  <2>2. artifact'.run = artifact.run
    BY <1>4 DEF CommitCatalog, TypeOK, ArtifactRow
  <2> QED
    BY <1>4, <2>1, <2>2 DEF CommitCatalog, EndRun, TypeOK
<1>5. CASE Expire \/ UNCHANGED vars
  BY <1>1, <1>5, ExpiryRows DEF vars, db
<1> QED
  BY <1>1, <1>2, <1>3, <1>4, <1>5, StepKinds DEF Next, Claim, End, OutOfRuns

(* Both, for every reachable state.                                        *)
THEOREM CatalogIsHeld ==
  ASSUME LeasesRespected
  PROVE  Spec => [](CatalogHeld /\ CatalogKnown)
<1>1. Init => CatalogHeld /\ CatalogKnown
  BY DEF Init, CatalogHeld, CatalogKnown, Cataloging
<1>2. TypeOK /\ MineIsRunning /\ CatalogHeld /\ CatalogKnown /\ [Next]_vars
      => (CatalogHeld /\ CatalogKnown)'
  BY CatalogHeldStep, CatalogKnownStep
<1> QED
  BY <1>1, <1>2, TypeCorrect, PTL DEF Spec

(* No two processes build the catalog at once, for any number of builds,   *)
(* crashes and refreshes, if no live process outlasts its claim.           *)
THEOREM SingleCatalogerHolds ==
  ASSUME LeasesRespected
  PROVE  Spec => []SingleCataloger
<1>1. MineIsRunning /\ CatalogHeld => SingleCataloger
  BY DEF SingleCataloger, CatalogHeld, Cataloging, MineIsRunning, Working
<1>2. Spec => []CatalogHeld
  BY CatalogIsHeld, PTL
<1> QED
  BY <1>1, <1>2, TypeCorrect, PTL

(* Under the same hypothesis the run that a ready catalog names succeeded. *)
THEOREM CatalogRunSucceededHolds ==
  ASSUME LeasesRespected
  PROVE  Spec => []CatalogRunSucceeded
<1>1. CatalogKnown => CatalogRunSucceeded
  BY DEF CatalogKnown, CatalogRunSucceeded
<1>2. Spec => []CatalogKnown
  BY CatalogIsHeld, PTL
<1> QED
  BY <1>1, <1>2, PTL
-----------------------------------------------------------------------------
(* The other hypothesis of the run `leases`: one process ingests, and it   *)
(* never asks for a refresh.                                               *)
CatalogBuiltOnce ==
    /\ Refreshes \subseteq {FALSE}
    /\ \A p, q \in Ingesters : p = q

(* The steps of ingest outside materialize.                                *)
IngestPhase == {"store", "check", "request", "claimCatalog", "catalog",
                "catalogFail", "collect", "next"}

(* Who can be there.                                                       *)
OnlyIngesters ==
    \A p \in Procs : pc[p] \in IngestPhase \/ cmd[p].op = "ingest" => p \in Ingesters

(* A catalog has been committed.                                           *)
Published == \E f \in Funcs : entity[f] # "none"

(* Once published, a catalog is not built again.                           *)
CatalogStands ==
    Published =>
        /\ artifact.status = "catalog_ready"
        /\ \A p \in Ingesters : artifact.ver = Build[p]
        /\ \A p \in Procs :
              /\ pc[p] \notin {"claimCatalog", "catalog", "catalogFail"}
              /\ pc[p] \in {"store", "check", "request"} => ~cmd[p].refresh

(* Nobody works on a function that is not in the catalog.                  *)
WorkIsPublished ==
    \A p \in Procs :
        /\ pc[p] \in AtFunction => entity[fn[p]] # "none"
        /\ \A f \in todo[p] : entity[f] # "none"

(* A function is in the hands of the process that analyzes it.             *)
FunctionHeld ==
    \A p \in Procs, f \in Funcs : Analyzing(p, f) =>
        mat[f].status = "materializing" /\ ~mat[f].stale /\ mat[f].owner = mine[p]

(* Only a process that was told to ingest does the work of ingest.         *)
LEMMA OnlyIngestersStep ==
  ASSUME TypeOK, OnlyIngesters, [Next]_vars
  PROVE  OnlyIngesters'
<1> SUFFICES ASSUME NEW q \in Procs, pc'[q] \in IngestPhase \/ cmd'[q].op = "ingest"
             PROVE  q \in Ingesters
  BY DEF OnlyIngesters
<1>1. ASSUME NEW p \in Procs, OthersKeep(p), p # q PROVE q \in Ingesters
  BY <1>1 DEF OthersKeep, OnlyIngesters
<1>2. CASE Start(q)
  <2>1. CASE StartIngest(q)
    BY <2>1 DEF StartIngest
  <2>2. CASE StartMaterialize(q) \/ StartQuery(q)
    BY <2>2
    DEF StartMaterialize, StartQuery, Goto, NoCommand, IngestPhase, TypeOK
  <2> QED
    BY <1>2, <2>1, <2>2 DEF Start
<1>3. CASE Ingest(q)
  <2>1. pc[q] \in IngestPhase
    BY <1>3 DEF Ingest, StoreArtifact, CheckCatalog, RequestFull, ClaimCatalog,
       CatalogBusy, CatalogBreaks, FailCatalog, CommitCatalog, CollectFunctions,
       NextFunction, CompleteFull, IngestPhase
  <2> QED
    BY <2>1 DEF OnlyIngesters
<1>4. CASE Materialize(q) \/ Query(q) \/ Crash(q)
  <2>1. CASE Exit(q)
    BY <2>1 DEF Exit, Goto, NoCommand, IngestPhase, TypeOK
  <2>2. CASE ~Exit(q)
    <3>1. cmd' = cmd
      BY <1>4, <2>2 DEF Materialize, ReadRow, ReadManifest, ClaimFunction,
         FunctionBusy, AnalysisBreaks, FailFunction, CommitFunction, Return,
         Query, EnsureRow, EnsureManifest, ReadRelations, Crash
    <3>2. pc'[q] \in IngestPhase => pc[q] \in IngestPhase \/ cmd[q].op = "ingest"
      BY <1>4, <2>2 DEF Materialize, ReadRow, ReadManifest, ClaimFunction,
         FunctionBusy, AnalysisBreaks, FailFunction, CommitFunction, Return,
         AfterMaterialize, Goto, IngestPhase, Query, EnsureRow, EnsureManifest,
         ReadRelations, Crash, TypeOK
    <3> QED
      BY <3>1, <3>2 DEF OnlyIngesters
  <2> QED
    BY <2>1, <2>2
<1>5. CASE Expire \/ UNCHANGED vars
  <2>1. pc' = pc /\ cmd' = cmd
    BY <1>5, ExpiryRows DEF vars, locals
  <2> QED
    BY <2>1 DEF OnlyIngesters
<1> QED
  BY <1>1, <1>2, <1>3, <1>4, <1>5, StepsAreLocal DEF Next, Step, OutOfRuns

(* Handles come from the catalog: of commands, of queries and of the loop. *)
LEMMA WorkIsPublishedStep ==
  ASSUME TypeOK, MineIsRunning, WorkIsPublished, [Next]_vars
  PROVE  WorkIsPublished'
<1>1. \A f \in Funcs : entity[f] # "none" => entity'[f] # "none"
  BY DatabaseGrows
<1>2. ASSUME NEW q \in Procs, todo'[q] \subseteq todo[q],
             pc'[q] \in AtFunction =>
                fn'[q] \in Funcs /\ entity[fn'[q]] # "none"
      PROVE  /\ pc'[q] \in AtFunction => entity'[fn'[q]] # "none"
             /\ \A f \in todo'[q] : entity'[f] # "none"
  BY <1>1, <1>2 DEF WorkIsPublished, TypeOK
<1> SUFFICES ASSUME NEW q \in Procs
             PROVE  /\ pc'[q] \in AtFunction => entity'[fn'[q]] # "none"
                    /\ \A f \in todo'[q] : entity'[f] # "none"
  BY DEF WorkIsPublished
<1>3. ASSUME todo'[q] = todo[q], fn'[q] = fn[q],
             pc'[q] \in AtFunction => pc[q] \in AtFunction
      PROVE  /\ pc'[q] \in AtFunction => entity'[fn'[q]] # "none"
             /\ \A f \in todo'[q] : entity'[f] # "none"
  BY <1>2, <1>3 DEF WorkIsPublished, MineIsRunning
<1>4. ASSUME NEW p \in Procs, OthersKeep(p), p # q
      PROVE  /\ pc'[q] \in AtFunction => entity'[fn'[q]] # "none"
             /\ \A f \in todo'[q] : entity'[f] # "none"
  BY <1>3, <1>4 DEF OthersKeep
<1>5. CASE Exit(q)
  <2>1. pc'[q] = "idle" /\ todo'[q] = {}
    BY <1>5 DEF Exit, Goto, TypeOK
  <2> QED
    BY <2>1 DEF AtFunction
<1>6. CASE Start(q)
  BY <1>2, <1>6
  DEF Start, StartIngest, StartMaterialize, StartQuery, Goto, AtFunction,
      TypeOK
<1>7. CASE Ingest(q) /\ ~Exit(q)
  <2>1. CASE CollectFunctions(q)
    <3>1. /\ pc'[q] = "next"
          /\ todo'[q] = {f \in Funcs \ Decls : entity[f] # "none"}
      BY <2>1 DEF CollectFunctions, Goto, TypeOK
    <3> QED
      BY <1>1, <3>1 DEF AtFunction
  <2>2. CASE NextFunction(q)
    <3>1. todo'[q] \subseteq todo[q] /\ fn'[q] \in todo[q]
      BY <2>2 DEF NextFunction, TypeOK
    <3> QED
      BY <1>2, <3>1 DEF WorkIsPublished, TypeOK
  <2>3. CASE ~CollectFunctions(q) /\ ~NextFunction(q)
    <3>1. todo'[q] = todo[q] /\ fn'[q] = fn[q] /\ pc'[q] \notin AtFunction
      BY <1>7, <2>3 DEF Ingest, StoreArtifact, CheckCatalog, RequestFull,
         ClaimCatalog, CatalogBusy, CatalogBreaks, FailCatalog, CommitCatalog,
         CompleteFull, Goto, AtFunction, TypeOK
    <3> QED
      BY <1>3, <3>1
  <2> QED
    BY <2>1, <2>2, <2>3
<1>8. CASE (Materialize(q) \/ Query(q) \/ Crash(q)) /\ ~Exit(q)
  <2>1. todo'[q] = todo[q] /\ fn'[q] = fn[q] /\ pc[q] \in AtFunction
    BY <1>8 DEF Materialize, ReadRow, ReadManifest, ClaimFunction,
       FunctionBusy, AnalysisBreaks, FailFunction, CommitFunction, Return,
       Query, EnsureRow, EnsureManifest, ReadRelations, Crash, AtFunction
  <2> QED
    BY <1>3, <2>1
<1>9. CASE Expire \/ UNCHANGED vars
  BY <1>3, <1>9, ExpiryRows DEF vars, locals
<1> QED
  BY <1>4, <1>5, <1>6, <1>7, <1>8, <1>9, StepsAreLocal
  DEF Next, Step, OutOfRuns

(* A published catalog of the one ingesting build is current for it, so no *)
(* later ingest of that build claims it again.                             *)
LEMMA CatalogStandsStep ==
  ASSUME CatalogBuiltOnce, TypeOK, MineIsRunning, OnlyIngesters,
         WorkIsPublished, CatalogStands, [Next]_vars
  PROVE  CatalogStands'
<1> DEFINE row == /\ artifact.status = "catalog_ready"
                  /\ \A p \in Ingesters : artifact.ver = Build[p]
           row1 == /\ artifact'.status = "catalog_ready"
                   /\ \A p \in Ingesters : artifact'.ver = Build[p]
           calm(p) == /\ pc[p] \notin {"claimCatalog", "catalog", "catalogFail"}
                      /\ pc[p] \in {"store", "check", "request"} => ~cmd[p].refresh
           calm1(p) == /\ pc'[p] \notin {"claimCatalog", "catalog", "catalogFail"}
                       /\ pc'[p] \in {"store", "check", "request"} => ~cmd'[p].refresh
<1>1. ASSUME NEW p \in Procs, CommitCatalog(p)
      PROVE  row1 /\ \A q \in Procs : calm1(q)
  <2>1. p \in Ingesters
    BY <1>1 DEF CommitCatalog, OnlyIngesters, IngestPhase
  <2>2. row1
    <3>1. artifact'.status = "catalog_ready" /\ artifact'.ver = Build[p]
      BY <1>1 DEF CommitCatalog, TypeOK, ArtifactRow
    <3> QED
      BY <2>1, <3>1 DEF CatalogBuiltOnce
  <2>3. calm1(p)
    BY <1>1 DEF CommitCatalog, Exit, Goto, TypeOK
  <2>4. ASSUME NEW q \in Procs \ {p} PROVE calm1(q)
    <3>1. pc'[q] = pc[q] /\ q \notin Ingesters
      BY <1>1, <2>1, StepsAreLocal
      DEF Step, Ingest, OthersKeep, CatalogBuiltOnce
    <3>2. pc[q] \notin IngestPhase
      BY <3>1 DEF OnlyIngesters
    <3> QED
      BY <3>1, <3>2 DEF IngestPhase
  <2> QED
    BY <2>2, <2>3, <2>4
<1>2. ASSUME NEW p \in Procs, CommitFunction(p) PROVE Published
  BY <1>2
  DEF CommitFunction, WorkIsPublished, AtFunction, Published, MineIsRunning
<1>3. ASSUME Published', ~Published
      PROVE  \E p \in Procs : CommitCatalog(p)
  <2>1. entity' # entity
    BY <1>3 DEF Published
  <2>2. ASSUME NEW p \in Procs,
               Quiet(p) \/ Break(p) \/ Claim(p) \/ FailCatalog(p)
               \/ FailFunction(p) \/ Crash(p)
        PROVE  FALSE
    BY <2>1, <2>2, QuietRuns DEF Break, CatalogBreaks, AnalysisBreaks, Claim,
       ClaimCatalog, ClaimFunction, FailCatalog, FailFunction, Crash, db
  <2>3. ~(Expire \/ UNCHANGED vars)
    BY <2>1, ExpiryRows DEF vars, db
  <2> QED
    BY <1>2, <1>3, <2>2, <2>3, StepKinds DEF Next, End, OutOfRuns
<1>4. ASSUME Published, NEW p \in Procs, ~CommitCatalog(p),
             Start(p) \/ Step(p) \/ Crash(p)
      PROVE  row1 /\ calm1(p)
  <2>1. row /\ calm(p)
    BY <1>4 DEF CatalogStands
  <2>2. CASE Start(p)
    <3>1. artifact' = artifact
      BY <2>2 DEF Start, StartIngest, StartMaterialize, StartQuery, db
    <3>2. calm1(p)
      <4>1. CASE StartIngest(p)
        <5>1. PICK index \in {"catalog", "full"}, refresh \in Refreshes :
                 cmd' = [cmd EXCEPT ![p] = [op |-> "ingest", index |-> index,
                                            refresh |-> refresh]]
          BY <4>1 DEF StartIngest
        <5>2. refresh = FALSE /\ cmd'[p].refresh = refresh
          BY <5>1 DEF CatalogBuiltOnce, TypeOK
        <5>3. pc'[p] = "store"
          BY <4>1 DEF StartIngest, Goto, TypeOK
        <5> QED
          BY <5>2, <5>3
      <4>2. CASE StartMaterialize(p) \/ StartQuery(p)
        BY <4>2 DEF StartMaterialize, StartQuery, Goto, TypeOK
      <4> QED
        BY <2>2, <4>1, <4>2 DEF Start
    <3> QED
      BY <2>1, <3>1, <3>2
  <2>3. CASE StoreArtifact(p)
    BY <2>1, <2>3 DEF StoreArtifact, Goto, TypeOK
  <2>4. CASE CheckCatalog(p)
    <3>1. CatalogCurrent(p) /\ cmd[p].refresh = FALSE
      <4>1. p \in Ingesters /\ pc[p] = "check"
        BY <2>4 DEF CheckCatalog, OnlyIngesters, IngestPhase
      <4>2. cmd[p].refresh \in BOOLEAN
        BY DEF TypeOK, Command
      <4> QED
        BY <2>1, <4>1, <4>2 DEF CatalogCurrent
    <3>2. artifact' = artifact
      BY <2>4 DEF CheckCatalog, db
    <3>3. \/ Exit(p)
          \/ /\ pc' = [pc EXCEPT ![p] = "request"]
             /\ cmd' = [cmd EXCEPT ![p].refresh = FALSE]
      BY <2>4, <3>1 DEF CheckCatalog, Goto
    <3>4. calm1(p)
      BY <3>3 DEF Exit, Goto, TypeOK, Command
    <3> QED
      BY <2>1, <3>2, <3>4
  <2>5. CASE RequestFull(p)
    <3>1. artifact'.status = artifact.status /\ artifact'.ver = artifact.ver
      BY <2>5 DEF RequestFull, TypeOK, ArtifactRow
    <3>2. pc'[p] = "collect"
      BY <2>1, <2>5 DEF RequestFull, Goto, TypeOK
    <3> QED
      BY <2>1, <3>1, <3>2
  <2>6. CASE CompleteFull(p)
    <3>1. artifact'.status = artifact.status /\ artifact'.ver = artifact.ver
      BY <2>6 DEF CompleteFull, TypeOK, ArtifactRow
    <3>2. pc'[p] = "idle"
      BY <2>6 DEF CompleteFull, Exit, Goto, TypeOK
    <3> QED
      BY <2>1, <3>1, <3>2
  <2>7. CASE ClaimCatalog(p) \/ CatalogBusy(p) \/ CatalogBreaks(p) \/ FailCatalog(p)
    BY <2>1, <2>7 DEF ClaimCatalog, CatalogBusy, CatalogBreaks, FailCatalog
  <2>8. CASE CollectFunctions(p) \/ NextFunction(p)
    BY <2>1, <2>8 DEF CollectFunctions, NextFunction, Goto, db, TypeOK
  <2>9. CASE Materialize(p) \/ Query(p) \/ Crash(p)
    <3>1. artifact' = artifact
      BY <2>9 DEF Materialize, ReadRow, ReadManifest, ClaimFunction,
         FunctionBusy, AnalysisBreaks, FailFunction, CommitFunction, Query,
         EnsureRow, EnsureManifest, ReadRelations, Crash, db
    <3>2. pc'[p] \in AtFunction \cup {"idle", "next"}
      BY <2>9 DEF Materialize, ReadRow, ReadManifest, ClaimFunction,
         FunctionBusy, AnalysisBreaks, FailFunction, CommitFunction, Query,
         EnsureRow, EnsureManifest, ReadRelations, Crash, Exit, Return,
         AfterMaterialize, Goto, AtFunction, TypeOK
    <3> QED
      BY <2>1, <3>1, <3>2 DEF AtFunction
  <2> QED
    BY <1>4, <2>2, <2>3, <2>4, <2>5, <2>6, <2>7, <2>8, <2>9 DEF Step, Ingest
<1>5. ASSUME Published, NEW p \in Procs, Start(p) \/ Step(p) \/ Crash(p),
             ~CommitCatalog(p)
      PROVE  \A q \in Procs : calm1(q)
  <2>1. OthersKeep(p) /\ \A q \in Procs : calm(q)
    BY <1>5, StepsAreLocal DEF CatalogStands
  <2> QED
    BY <1>4, <1>5, <2>1 DEF OthersKeep
<1>6. ASSUME Published, Expire \/ UNCHANGED vars
      PROVE  row1 /\ \A q \in Procs : calm1(q)
  <2>1. row /\ \A q \in Procs : calm(q)
    BY <1>6 DEF CatalogStands
  <2>2. artifact'.status = artifact.status /\ artifact'.ver = artifact.ver
    <3>1. CASE ExpireCatalog
      BY <3>1 DEF ExpireCatalog, TypeOK, ArtifactRow
    <3>2. CASE ~ExpireCatalog
      BY <1>6, <3>2 DEF Expire, ExpireFunction, vars, db
    <3> QED
      BY <3>1, <3>2
  <2>3. pc' = pc /\ cmd' = cmd
    BY <1>6, ExpiryRows DEF vars, locals
  <2> QED
    BY <2>1, <2>2, <2>3
<1>7. ASSUME Published' PROVE row1 /\ \A q \in Procs : calm1(q)
  <2> HIDE DEF row1, calm1
  <2>1. CASE \E p \in Procs : CommitCatalog(p)
    BY <1>1, <2>1
  <2>2. CASE ~\E p \in Procs : CommitCatalog(p)
    BY <1>3, <1>4, <1>5, <1>6, <1>7, <2>2 DEF Next, OutOfRuns
  <2> QED
    BY <2>1, <2>2
<1> QED
  BY <1>7 DEF CatalogStands

(* No claim on a function is taken from a live process: not by expiry, by  *)
(* another claim, or by a commit of the catalog.                           *)
LEMMA FunctionHeldStep ==
  ASSUME LeasesRespected, TypeOK, MineIsRunning, WorkIsPublished,
         CatalogStands, FunctionHeld, [Next]_vars
  PROVE  FunctionHeld'
<1> SUFFICES ASSUME NEW q \in Procs, NEW f \in Funcs, Analyzing(q, f)'
             PROVE  /\ mat'[f].status = "materializing" /\ ~mat'[f].stale
                    /\ mat'[f].owner = mine'[q]
  BY DEF FunctionHeld
<1> DEFINE held == /\ mat'[f].status = "materializing" /\ ~mat'[f].stale
                   /\ mat'[f].owner = mine'[q]
<1>1. ASSUME mat'[f] = mat[f], mine'[q] = mine[q], Analyzing(q, f)
      PROVE  held
  BY <1>1 DEF FunctionHeld
<1>2. ASSUME NEW p \in Procs, OthersKeep(p), p # q
      PROVE  Analyzing(q, f) /\ mine'[q] = mine[q]
  BY <1>2 DEF OthersKeep, Analyzing
<1>3. ASSUME NEW p \in Procs, OthersKeep(p), Quiet(p) \/ Break(p)
             \/ ClaimCatalog(p) \/ FailCatalog(p) \/ Crash(p)
      PROVE  held
  <2>1. mat' = mat
    BY <1>3, QuietRuns DEF Break, CatalogBreaks, AnalysisBreaks, ClaimCatalog,
       FailCatalog, Crash, db
  <2>2. CASE p = q
    <3>1. Break(p)
      BY <1>3, <2>2, QuietPlaces, EndPlaces
      DEF ClaimCatalog, End, Crash, Exit, Goto,
         Analyzing, Working, TypeOK
    <3>2. mine'[q] = mine[q] /\ Analyzing(q, f)
      BY <2>2, <3>1
      DEF Break, CatalogBreaks, AnalysisBreaks, Goto, Analyzing, TypeOK
    <3> QED
      BY <1>1, <2>1, <3>2
  <2> QED
    BY <1>1, <1>2, <1>3, <2>1, <2>2
<1>4. ASSUME NEW p \in Procs, OthersKeep(p), ClaimFunction(p)
      PROVE  held
  <2>1. PICK r \in RunIds :
            /\ mine' = [mine EXCEPT ![p] = r]
            /\ mat' = [mat EXCEPT ![fn[p]] = [@ EXCEPT !.status = "materializing",
                                                  !.owner = r,
                                                  !.stale = FALSE]]
    BY <1>4 DEF ClaimFunction
  <2>2. CASE p = q
    <3>1. fn[p] = f
      BY <1>4, <2>2 DEF ClaimFunction, Analyzing
    <3> QED
      BY <2>1, <2>2, <3>1 DEF TypeOK, MatRow
  <2>3. CASE p # q
    <3>1. fn[p] # f
      BY <1>2, <1>4, <2>3 DEF ClaimFunction, Claimable, FunctionHeld
    <3>2. mat'[f] = mat[f]
      BY <2>1, <3>1 DEF TypeOK
    <3> QED
      BY <1>1, <1>2, <1>4, <2>3, <3>2
  <2> QED
    BY <2>2, <2>3
<1>5. ASSUME NEW p \in Procs, OthersKeep(p), FailFunction(p) \/ CommitFunction(p)
      PROVE  held
  <2>1. p # q /\ mine[p] \in RunIds
    BY <1>5, EndPlaces DEF End, Analyzing, Working
  <2>2. Analyzing(q, f) /\ mine'[q] = mine[q]
    BY <1>2, <1>5, <2>1
  <2>3. mat[f].owner = mine[q] /\ mine[q] # mine[p]
    BY <2>1, <2>2 DEF FunctionHeld, MineIsRunning
  <2>4. mat'[f] = mat[f]
    BY <1>5, <2>3 DEF FailFunction, CommitFunction, HoldsRow, TypeOK
  <2> QED
    BY <1>1, <2>2, <2>4
<1>6. ASSUME NEW p \in Procs, OthersKeep(p), CommitCatalog(p)
      PROVE  FALSE
  <2>1. p # q
    BY <1>6, EndPlaces DEF End, Analyzing, Working
  <2>2. Analyzing(q, f)
    BY <1>2, <1>6, <2>1
  <2>3. Published
    BY <2>2 DEF Analyzing, WorkIsPublished, AtFunction, Published
  <2> QED
    BY <1>6, <2>3 DEF CatalogStands, CommitCatalog
<1>7. ASSUME NEW g \in Funcs, ExpireFunction(g) PROVE held
  <2>1. Analyzing(q, f) /\ mine' = mine
    BY <1>7 DEF ExpireFunction, locals, Analyzing
  <2>2. HeldByLive(mat[f].owner)
    BY <2>1 DEF HeldByLive, FunctionHeld
  <2>3. g # f
    BY <1>7, <2>2 DEF ExpireFunction, LeasesRespected
  <2>4. mat'[f] = mat[f]
    BY <1>7, <2>3 DEF ExpireFunction, TypeOK
  <2> QED
    BY <1>1, <2>1, <2>4
<1>8. CASE ExpireCatalog \/ UNCHANGED vars
  <2>1. mat' = mat /\ mine' = mine /\ pc' = pc /\ fn' = fn
    BY <1>8 DEF ExpireCatalog, vars, db, locals
  <2>2. Analyzing(q, f)
    BY <2>1 DEF Analyzing
  <2> QED
    BY <1>1, <2>1, <2>2
<1> QED
  BY <1>3, <1>4, <1>5, <1>6, <1>7, <1>8, StepsAreLocal, StepKinds
  DEF Next, Claim, End, Expire, OutOfRuns

(* CommitFunction, holding its row, writes row and snapshot alike.         *)
LEMMA RowNamesStep ==
  ASSUME TypeOK, MineIsRunning, FunctionHeld, RowNamesItsSnapshot, [Next]_vars
  PROVE  RowNamesItsSnapshot'
<1> SUFFICES ASSUME NEW f \in Funcs, mat'[f].status = "structure_ready"
             PROVE  snapshot'[f] = [run |-> mat'[f].run, ver |-> mat'[f].ver]
  BY DEF RowNamesItsSnapshot
<1>1. ASSUME mat[f].status = "structure_ready", mat'[f].run = mat[f].run,
             mat'[f].ver = mat[f].ver, snapshot'[f] = snapshot[f]
      PROVE  snapshot'[f] = [run |-> mat'[f].run, ver |-> mat'[f].ver]
  BY <1>1 DEF RowNamesItsSnapshot
<1>2. ASSUME NEW p \in Procs, Quiet(p) \/ Break(p) \/ ClaimCatalog(p)
                              \/ FailCatalog(p) \/ Crash(p)
      PROVE  mat' = mat /\ snapshot' = snapshot
  BY <1>2, QuietRuns DEF Break, CatalogBreaks, AnalysisBreaks, ClaimCatalog,
     FailCatalog, Crash, db
<1>3. ASSUME NEW p \in Procs, CommitCatalog(p) PROVE FALSE
  BY <1>3, CatalogRows DEF CatalogLevel
<1>4. ASSUME NEW p \in Procs, ClaimFunction(p) \/ FailFunction(p)
      PROVE  mat'[f] = mat[f] /\ snapshot' = snapshot
  <2>1. mat'[f].status \notin {"materializing", "failed"} /\ ~CommitFunction(p)
    BY <1>4 DEF ClaimFunction, FailFunction, CommitFunction
  <2>2. mat'[f] = mat[f]
    BY <1>4, <2>1, FunctionRows
  <2> QED
    BY <1>4, <2>2 DEF ClaimFunction, FailFunction
<1>5. ASSUME NEW p \in Procs, CommitFunction(p)
      PROVE  snapshot'[f] = [run |-> mat'[f].run, ver |-> mat'[f].ver]
  <2>1. HoldsRow(p) /\ fn[p] \in Funcs
    BY <1>5 DEF CommitFunction, HoldsRow, FunctionHeld, Analyzing,
       MineIsRunning, AtFunction
  <2>2. CASE f = fn[p]
    <3>1. snapshot'[f] = [run |-> mine[p], ver |-> Build[p]]
      BY <1>5, <2>1, <2>2 DEF CommitFunction, TypeOK
    <3>2. mat'[f].run = mine[p] /\ mat'[f].ver = Build[p]
      BY <1>5, <2>1, <2>2 DEF CommitFunction, TypeOK
    <3> QED
      BY <3>1, <3>2
  <2>3. CASE f # fn[p]
    <3>1. mat'[f] = mat[f] /\ snapshot'[f] = snapshot[f]
      BY <1>5, <2>1, <2>3 DEF CommitFunction, TypeOK
    <3> QED
      BY <1>1, <3>1
  <2> QED
    BY <2>2, <2>3
<1>6. CASE Expire \/ UNCHANGED vars
  BY <1>1, <1>6, ExpiryRows DEF vars, db
<1> QED
  BY <1>1, <1>2, <1>3, <1>4, <1>5, <1>6, StepKinds
  DEF Next, Claim, End, OutOfRuns
-----------------------------------------------------------------------------
(* What holds while no claim is ever lost.                                 *)
Leased == /\ CatalogHeld /\ OnlyIngesters /\ WorkIsPublished /\ CatalogStands
          /\ FunctionHeld /\ RowNamesItsSnapshot

(* The inductive invariant of the protocol under both hypotheses.          *)
THEOREM LeasesHold ==
  ASSUME LeasesRespected, CatalogBuiltOnce
  PROVE  Spec => []Leased
<1>1. Init => Leased
  <2>1. Init => /\ \A f \in Funcs : mat[f].status = "none" /\ entity[f] = "none"
                /\ \A p \in Procs : /\ pc[p] = "idle" /\ cmd[p].op = "none"
                                    /\ todo[p] = {}
    BY DEF Init, NoCommand
  <2> QED
    BY <2>1 DEF Leased, CatalogHeld, Cataloging, OnlyIngesters, IngestPhase,
       WorkIsPublished, AtFunction, CatalogStands, Published, FunctionHeld,
       Analyzing, RowNamesItsSnapshot
<1>2. TypeOK /\ MineIsRunning /\ Leased /\ [Next]_vars => Leased'
  BY CatalogHeldStep, OnlyIngestersStep, WorkIsPublishedStep,
     CatalogStandsStep,
     FunctionHeldStep, RowNamesStep DEF Leased
<1> QED
  BY <1>1, <1>2, TypeCorrect, PTL DEF Spec

(* What a current row says of its analysis is true of the stored snapshot. *)
THEOREM RowNamesItsSnapshotHolds ==
  ASSUME LeasesRespected, CatalogBuiltOnce
  PROVE  Spec => []RowNamesItsSnapshot
  BY LeasesHold, PTL DEF Leased

(* A cache hit of a build serves the analysis of that build.               *)
THEOREM CurrentIsOwnGenerationHolds ==
  ASSUME LeasesRespected, CatalogBuiltOnce
  PROVE  Spec => []CurrentIsOwnGeneration
<1>1. RowNamesItsSnapshot => CurrentIsOwnGeneration
  <2> SUFFICES ASSUME RowNamesItsSnapshot, NEW p \in Procs, NEW f \in Funcs,
                      RowCurrent(p, f)
               PROVE  snapshot[f].ver = Build[p]
    BY DEF CurrentIsOwnGeneration
  <2>1. snapshot[f] = [run |-> mat[f].run, ver |-> mat[f].ver]
    BY DEF RowNamesItsSnapshot, RowCurrent
  <2> QED
    BY <2>1 DEF RowCurrent
<1> QED
  BY <1>1, RowNamesItsSnapshotHolds, PTL

(* Nobody opens an attempt on what somebody is busy with.                  *)
LEMMA ExclusiveStep ==
  ASSUME TypeOK, MineIsRunning, CatalogHeld, FunctionHeld, [Next]_vars
  PROVE  [A!ExclusiveNext]_(A!vars)
<1>1. ASSUME NEW p \in Procs, Claim(p)
      PROVE  Aim(p) \in Funcs \cup {NoFunc} /\ A!Vacant(Aim(p))
  <2> SUFFICES ASSUME NEW q \in Procs, mine[q] # NoRun, Subject(q) = Aim(p)
               PROVE  FALSE
    BY DEF A!Vacant, InProgress, Attempt, Aim, TypeOK
  <2>1. pc[q] \in Working /\ (~Cataloging(q) => fn[q] \in Funcs)
    BY DEF MineIsRunning, TypeOK, Run, Working, AtFunction, Cataloging
  <2>2. CASE ClaimCatalog(p)
    <3>1. Aim(p) = NoFunc /\ CatalogClaimable
      BY <2>2 DEF ClaimCatalog, Aim
    <3>2. Cataloging(q)
      BY <2>1, <3>1, ConstantsOK DEF Subject, Cataloging
    <3> QED
      BY <3>1, <3>2 DEF CatalogHeld, CatalogClaimable
  <2>3. CASE ClaimFunction(p)
    <3>1. Aim(p) = fn[p] /\ fn[p] \in Funcs /\ Claimable(fn[p])
      BY <2>3 DEF ClaimFunction, Aim, MineIsRunning, AtFunction
    <3>2. Analyzing(q, fn[p])
      BY <2>1, <3>1, ConstantsOK DEF Subject, Cataloging, Analyzing, Working
    <3> QED
      BY <3>1, <3>2 DEF FunctionHeld, Claimable
  <2> QED
    BY <1>1, <2>2, <2>3 DEF Claim
<1> QED
  BY <1>1, StepIsAttempt DEF A!ExclusiveNext

(* Under both hypotheses the claims do what they are for: the protocol     *)
(* implements Attempts with exclusive access to each subject.              *)
THEOREM ExclusiveHolds ==
  ASSUME LeasesRespected, CatalogBuiltOnce
  PROVE  Spec => ImplementsExclusive
<1>1. Init => A!Init
  BY InitAttempts
<1>2. TypeOK /\ MineIsRunning /\ Leased /\ [Next]_vars
      => [A!ExclusiveNext]_(A!vars)
  BY ExclusiveStep DEF Leased
<1> QED
  BY <1>1, <1>2, TypeCorrect, LeasesHold, PTL
  DEF Spec, ImplementsExclusive, A!ExclusiveSpec
=============================================================================

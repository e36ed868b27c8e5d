SPECIFICATION Spec
CONSTANTS
    p1 = p1  p2 = p2  f1 = f1  f2 = f2
    r1 = r1  r2 = r2  r3 = r3  r4 = r4  old = old  new = new
    Procs = {p1, p2}
    Funcs = {f1}
    Decls = {}
    RunIds = {r1, r2, r3, r4}
    Versions = {old, new}
    Build <- MixedBuild
    Contract <- SameContract
    Ingesters = {p1, p2}
    SlowWork = TRUE
    Refreshes = {TRUE, FALSE}
    MaxCrashes = 1
    NoRun = NoRun  NoFunc = NoFunc  NoVersion = NoVersion
SYMMETRY RunSymmetry
INVARIANTS
    EvidenceSucceeded
    ClaimsBelongToRunningRuns
    ReadyHasSnapshot
    FullMeansAnalyzed
PROPERTIES
    RunsEndOnce
    ImplementsAttempts
    OnlyTheOwnerReleases

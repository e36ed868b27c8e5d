----------------------------- MODULE MCAnalysis -----------------------------
(* Instances of Analysis for TLC.                                          *)
EXTENDS Analysis, TLC

CONSTANTS p1, p2, f1, f2, r1, r2, r3, r4, old, new

\* One build everywhere, and an old and a new build side by side; the two
\* write the same capability set (contract.h lists names and precisions).
SameBuild == [p \in Procs |-> new]
MixedBuild == p1 :> old @@ p2 :> new
SameContract == [v \in Versions |-> "contract"]

\* Run ids, and processes of the same build, are interchangeable.
RunSymmetry == Permutations(RunIds)
Symmetry == Permutations(RunIds) \cup Permutations(Procs)
=============================================================================

-------------------------- MODULE MCStateDirectory --------------------------
(* An instance of StateDirectory for TLC.                                  *)
EXTENDS StateDirectory, TLC

CONSTANTS p1, p2, c1, c2, c3, bc, i1, i2

\* The digests of c2 and c3 have the same first digits.
SharedPrefix == [c \in Contents |-> c = c1]

\* No database yet, or one of the schema before this one.
MCDatabases ==
    {NoDatabase} \cup [version : {"1"}, tables : {{"kMigration1"}},
                       investigations : {{i} : i \in Ids}]

\* Nothing tells these apart.
Symmetry == Permutations(Procs) \cup Permutations({c2, c3}) \cup Permutations(Ids)
=============================================================================

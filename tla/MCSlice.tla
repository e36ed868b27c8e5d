------------------------------ MODULE MCSlice ------------------------------
(* Instances of Slice for TLC.                                             *)
EXTENDS Slice, TLC

CONSTANTS t, a, b, c, d

Edge(n, m) == [src |-> n, dst |-> m]

\* Every graph on three nodes, loops and two-way relations included.
Small == SUBSET [src : {t, a, b}, dst : {t, a, b}]

\* A short and a long way to d, a cross relation and a cycle: the subgraphs
\* of five nodes in which the order of the visits matters.
TwoWays == {Edge(t, a), Edge(t, b), Edge(b, c), Edge(c, d), Edge(a, d),
            Edge(d, t), Edge(a, b), Edge(b, a), Edge(a, a)}

\* What analyses by different builds may have stored for the same function.
Generations == {{Edge(t, a), Edge(t, b), Edge(b, c), Edge(c, d)},
                {Edge(a, d), Edge(d, t), Edge(t, b)},
                {Edge(t, b), Edge(b, t)}, {}}

SmallOrTwoWays == Small \cup SUBSET TwoWays \cup Generations
=============================================================================

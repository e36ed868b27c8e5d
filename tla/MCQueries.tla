----------------------------- MODULE MCQueries -----------------------------
(* Instances of Queries for TLC.                                           *)
EXTENDS Queries

CONSTANTS arg, call, phi, store, ret1, ret2, null, f, g

MCNodes == {arg, call, phi, store, ret1, ret2, null}
MCOrdinals == <<arg, call, phi, store, ret1, ret2>>

MCOpcode ==
    (arg :> "other" @@ null :> "other" @@ phi :> "other" @@ call :> "call" @@ store :> "store" @@
     ret1 :> "ret" @@ ret2 :> "ret")

MCCallees == [n \in MCNodes |-> IF n = call THEN {f, g} ELSE {}]

Edge(n, m) == [src |-> n, dst |-> m]

\* Two returns whose values go through a call in a loop: with a budget of
\* three nodes and a depth of two, one site exceeds the nodes and the other
\* the depth.
Values == {Edge(ret1, call), Edge(ret2, phi), Edge(phi, call), Edge(call, arg),
           Edge(call, phi), Edge(store, call), Edge(store, arg)}

\* Results leave through the store.
Kernel == {Edge(ret1, null), Edge(ret2, null), Edge(store, call),
           Edge(call, arg), Edge(store, arg)}

\* The first return has more behind it than the second.
Mixed == {Edge(ret1, phi), Edge(phi, call), Edge(phi, null), Edge(ret2, arg)}

\* Returns void.
Void == {Edge(store, arg)}

MCGraphs == {Values, Kernel, Mixed, Void}

Traced ==
    [command : {"trace-return"}, target : {All, ret2, store},
     nodes : {0, 3, 7}, depth : {0, 2, 7}]
    \cup [command : {"trace-stores"}, target : {All},
          nodes : {1, 3, 7}, depth : {1, 7}]
    \cup [command : {"context"}, target : {call, ret1},
          nodes : {1, 7}, depth : {12}]

ListedRequests ==
    [command : {"uses"}, target : {arg, call}, nodes : 0 .. 3, depth : {0}]
    \cup [command : {"children"}, target : {"ret", "call"}, nodes : 0 .. 3,
          depth : {0}]

MCRequests == Traced \cup ListedRequests
=============================================================================

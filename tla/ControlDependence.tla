------------------------- MODULE ControlDependence -------------------------
(***************************************************************************)
(* Control dependence as the adapter computes it from the post-dominator   *)
(* tree (adapter::function_graph, src/adapter.cpp), and what the term      *)
(* means.  The tree is LLVM's: it is external, and defined here by paths.  *)
(*                                                                         *)
(* A control-flow graph is a function from blocks to the sequence of their *)
(* successors; a block without any leaves the function.  Terminators are   *)
(* identified with their blocks.                                           *)
(***************************************************************************)
EXTENDS Naturals, Sequences, Functions

CONSTANT Exit   \* the virtual root of the tree

IsCFG(cfg) == cfg \in Seq(Seq(DOMAIN cfg))

\* S cannot be left but for what is in T.
ClosedBut(cfg, S, T) == \A x \in S : Range(cfg[x]) \subseteq S \cup T

\* b is on, or is the start of, some path from a.
Leads(cfg, a, b) ==
    \A S \in SUBSET DOMAIN cfg : a \in S /\ ClosedBut(cfg, S, {}) => b \in S

\* Blocks from which nothing but themselves and each other can be reached.
Trap(cfg, a) ==
    {b \in DOMAIN cfg : Leads(cfg, a, b) /\ Leads(cfg, b, a)}

Trapped(cfg, a) ==
    /\ ClosedBut(cfg, Trap(cfg, a), {})
    /\ \A b \in Trap(cfg, a) : cfg[b] # <<>>

\* Where paths are taken to end: at blocks without successors, and at one
\* block of each loop that has no way out.  LLVM picks some; any will do.
Ends(cfg) ==
    {b \in DOMAIN cfg : cfg[b] = <<>>}
    \cup {b \in DOMAIN cfg : Trapped(cfg, b)
                             /\ b = CHOOSE a \in Trap(cfg, b) : TRUE}

\* The blocks that are on every path from b to an end, for each b.
PostDominators(cfg) ==
    LET ends == Ends(cfg)
        avoid(a, b) == \E S \in SUBSET (DOMAIN cfg \ {a}) :
                          b \in S /\ ClosedBut(cfg, S, {a}) /\ S \cap ends = {}
    IN  [b \in DOMAIN cfg |-> {a \in DOMAIN cfg : a = b \/ avoid(a, b)}]

\* The parent of b in the tree: of those that post-dominate it, the nearest.
ImmediatePostDominator(pdom, b) ==
    LET strict == pdom[b] \ {b}
        nearest == {a \in strict : strict \subseteq pdom[a]}
    IN  IF nearest = {} THEN Exit ELSE CHOOSE a \in nearest : TRUE

Edges(cfg) ==
    {e \in [branch : DOMAIN cfg,
            successor : UNION {DOMAIN cfg[b] : b \in DOMAIN cfg}] :
        e.successor \in DOMAIN cfg[e.branch]}
-----------------------------------------------------------------------------
WalkedToTheRoot(idom, from, stop) ==
    LET walk[b \in DOMAIN idom \cup {Exit}] ==
            IF b = Exit THEN {} ELSE {b} \cup walk[idom[b]]
    IN  walk[from]

WalkedOneBlock(idom, from, stop) == {from}

\* The blocks that Runner passes on its way from a successor up the tree to
\* the parent of the branch, which is left out.
Walked(idom, from, stop) ==
    LET walk[b \in DOMAIN idom \cup {Exit}] ==
            IF b \in {stop, Exit} THEN {} ELSE {b} \cup walk[idom[b]]
    IN  walk[from]

\* The relations emitted: block is controlled by the successor-th edge out of
\* branch.  A branch is never reported as controlling its own block.
Emitted(cfg) ==
    LET pdom == PostDominators(cfg)
        idom == [b \in DOMAIN cfg |-> ImmediatePostDominator(pdom, b)]
    IN  UNION {LET to == cfg[e.branch][e.successor]
               IN  IF to \in pdom[e.branch] THEN {}
                   ELSE [block : Walked(idom, to, idom[e.branch]) \ {e.branch},
                         branch : {e.branch}, successor : {e.successor}] :
               e \in Edges(cfg)}
-----------------------------------------------------------------------------
\* What the term means (Ferrante, Ottenstein and Warren): taking that edge
\* makes sure that the block is reached, the branch alone does not.
Dependences(cfg) ==
    LET pdom == PostDominators(cfg)
    IN  {d \in [block : DOMAIN cfg, branch : DOMAIN cfg,
                successor : UNION {DOMAIN cfg[b] : b \in DOMAIN cfg}] :
            /\ d.successor \in DOMAIN cfg[d.branch]
            /\ d.block \in pdom[cfg[d.branch][d.successor]]
            /\ ~(d.block # d.branch /\ d.block \in pdom[d.branch])}
=============================================================================

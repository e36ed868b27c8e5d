--------------------------- MODULE FunctionGraph ---------------------------
(***************************************************************************)
(* What a materialization stores: the records adapter::function_graph      *)
(* emits for one function (src/adapter.cpp), and the transaction in which  *)
(* Service::materialize replaces that function's snapshot with them        *)
(* (src/service.cpp), over the tables entities and relations that all      *)
(* functions of a module share; and guards, which reads them back.         *)
(*                                                                         *)
(* The claim around it is the matter of module Analysis.  Of the inner     *)
(* entities, arguments and instructions are left out: a relation of an     *)
(* instruction is one of its block.                                        *)
(***************************************************************************)
EXTENDS ControlDependence, Sequences, FiniteSets

CONSTANTS
    Modules,   \* sequences of functions; position i stands for the key f<i-1>
    Versions,  \* adapter versions of the installed builds
    Emits,     \* Emits[v]: the kinds of relations build v emits
    NoFunc

\* The handle of an entity is made of its local key, which for blocks and
\* constants names the function they were found in.
Handle(kind, fn, id) == [kind |-> kind, fn |-> fn, id |-> id]
FunctionHandle(f) == Handle("function", f, 0)

\* What LLVM's verifier makes sure of: blocks branch to blocks, and local
\* keys of constants name the function they were found in.
ASSUME FunctionGraphConstants ==
    /\ \A m \in Modules :
          /\ m \in Seq(Range(m))
          /\ \A f \in DOMAIN m :
                /\ IsCFG(m[f].cfg)
                /\ DOMAIN m[f].uses = DOMAIN m[f].cfg
                /\ \A b \in DOMAIN m[f].uses : \A h \in m[f].uses[b] :
                      \/ h.kind \in {"function", "global"}
                      \/ h.kind = "constant" /\ h.fn = f
    /\ NoFunc \notin Nat /\ NoFunc \notin Versions
    /\ Exit \notin Nat

VARIABLES
    module,     \* the stored module: functions with name, cfg and uses
    owner,      \* table entities: the function_id of every handle in it
    relations,  \* table relations
    built       \* built[f]: the build that materialized f, or NoFunc

vars == <<module, owner, relations, built>>

Functions == DOMAIN module
Declared(f) == module[f].cfg = <<>>

\* The catalog has published the handles of all functions.
Init ==
    /\ module \in Modules
    /\ owner = [h \in {FunctionHandle(f) : f \in Functions} |-> NoFunc]
    /\ relations = {}
    /\ built = [f \in Functions |-> NoFunc]
-----------------------------------------------------------------------------
(* The adapter.                                                            *)

\* The first function in the module that has the key, or has it as its name.
Selected(key) ==
    CHOOSE f \in Functions :
        /\ f = key \/ module[f].name = key
        /\ \A g \in 1..(f - 1) : g # key /\ module[g].name # key

Blocks(f) == {Handle("block", f, b) : b \in DOMAIN module[f].cfg}

\* What the function's instructions refer to: functions, globals, constants.
Operands(f, v) ==
    IF "uses" \in Emits[v] THEN UNION Range(module[f].uses) ELSE {}

Inner(f, v) ==
    Blocks(f) \cup {h \in Operands(f, v) : h.kind = "constant"}

Declares(f, v) == {FunctionHandle(f)} \cup Blocks(f) \cup Operands(f, v)

Body(f) ==
    LET cfg == module[f].cfg
        block(b) == Handle("block", f, b)
    IN  {[kind |-> "contains", src |-> FunctionHandle(f), dst |-> block(b),
          ordinal |-> 0] : b \in DOMAIN cfg}
        \cup (UNION {{[kind |-> "cfg", src |-> block(b), dst |-> block(cfg[b][s]),
                       ordinal |-> s] : s \in DOMAIN cfg[b]} : b \in DOMAIN cfg})
        \cup {[kind |-> "control", src |-> block(d.block),
               dst |-> block(d.branch), ordinal |-> d.successor] :
                 d \in Emitted(cfg)}
        \cup (UNION {{[kind |-> "uses", src |-> block(b), dst |-> h,
                       ordinal |-> 0] : h \in module[f].uses[b]} :
                     b \in DOMAIN cfg})

Graph(f, v) == {r \in Body(f) : r.kind \in Emits[v]}
-----------------------------------------------------------------------------
(* The transaction.                                                        *)

GoneKept(f) == {}

\* A refresh replaces the snapshot: what the function owned is deleted, with
\* every relation and source location that touches it.
Gone(f) == {h \in DOMAIN owner : owner[h] = f}

OwnerOfAll(f, v, h) ==
    IF h.kind # "function" THEN f
    ELSE IF h \in DOMAIN owner THEN owner[h] ELSE NoFunc

\* Functions and globals belong to the module.
OwnerOf(f, v, h) ==
    IF h \in Inner(Selected(f), v) THEN f
    ELSE IF h \in DOMAIN owner THEN owner[h] ELSE NoFunc

\* A relation of the graph is stored under the function asked for.
Rows(f, graph) ==
    {[owner |-> f, kind |-> r.kind, src |-> r.src, dst |-> r.dst,
      ordinal |-> r.ordinal] : r \in graph}

\* Every endpoint has been declared or is in the table, so this cannot fail.
Materialize(f, v) ==
    /\ ~Declared(f)
    /\ owner' = [h \in (DOMAIN owner \ Gone(f)) \cup Declares(Selected(f), v) |->
                    IF h \in Declares(Selected(f), v) THEN OwnerOf(f, v, h)
                    ELSE owner[h]]
    /\ relations' = {r \in relations : r.owner # f /\ r.src \notin Gone(f)
                                       /\ r.dst \notin Gone(f)}
                    \cup Rows(f, Graph(Selected(f), v))
    /\ built' = [built EXCEPT ![f] = v]
    /\ UNCHANGED module

Next == \E f \in Functions, v \in Versions : Materialize(f, v)

Spec == Init /\ [][Next]_vars
-----------------------------------------------------------------------------
(* guards on a block of f.                                                 *)

\* The capability row says whether control dependence has been analyzed.
Analyzed(f) == built[f] # NoFunc /\ "control" \in Emits[built[f]]

\* The branches the block depends on, or else those that jump to it; the cut
\* of a long answer (LIMIT budget + 1) is left out.
Guards(f, b) ==
    IF Analyzed(f)
    THEN {[branch |-> r.dst, successor |-> r.ordinal] :
             r \in {r \in relations : r.kind = "control"
                                      /\ r.src = Handle("block", f, b)}}
    ELSE {[branch |-> r.src, successor |-> r.ordinal] :
             r \in {r \in relations : r.kind = "cfg"
                                      /\ r.dst = Handle("block", f, b)}}
-----------------------------------------------------------------------------
(* What must hold.                                                         *)

\* After any sequence of materializations by any builds, what is stored under
\* a function is what its latest analysis emitted for that function's body,
\* no more, no less: generations are not mixed, nor are functions.
SnapshotIsTheBody ==
    \A f \in Functions : built[f] # NoFunc =>
        /\ {h \in DOMAIN owner : owner[h] = f} = Inner(f, built[f])
        /\ {r \in relations : r.owner = f} = Rows(f, Graph(f, built[f]))

\* Materializing one function changes nothing of what is stored for another,
\* although they refer to the same globals and to each other.
OthersUntouched ==
    [][\A f \in Functions : built'[f] = built[f] =>
          /\ {r \in relations' : r.owner = f} = {r \in relations : r.owner = f}
          /\ {h \in DOMAIN owner' : owner'[h] = f}
             = {h \in DOMAIN owner : owner[h] = f}]_vars

\* "The guards of a block are exactly the branches it is control-dependent
\* on" (service.cpp:1404), those of the block itself excepted: whatever the
\* graph, with loops that have no way out and blocks that cannot be reached.
GuardsAreExact ==
    \A f \in Functions : Analyzed(f) =>
        LET dependences == Dependences(module[f].cfg)
        IN  \A b \in DOMAIN module[f].cfg :
                Guards(f, b) =
                    {[branch |-> Handle("block", f, d.branch),
                      successor |-> d.successor] :
                         d \in {d \in dependences : d.block = b /\ d.branch # b}}

\* "A block that post-dominates its region correctly reports no guards"
\* (docs/PROGRESS.md:833), and only such a block: one that can be reached and has
\* no guards is on every path through the function.
UnguardedIsUnconditional ==
    \A f \in Functions : Analyzed(f) =>
        LET pdom == PostDominators(module[f].cfg)
        IN  \A b \in DOMAIN module[f].cfg :
                Guards(f, b) = {} /\ Leads(module[f].cfg, 1, b) => b \in pdom[1]
=============================================================================

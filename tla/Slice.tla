------------------------------- MODULE Slice -------------------------------
(***************************************************************************)
(* The bounded walk over one function's relations behind slice, graph,     *)
(* context and the two trace commands (Service::slice_on, src/service.cpp).*)
(*                                                                         *)
(* The walk holds no transaction: every adjacency query and the final      *)
(* fetch of the entities see the database as it is at that moment, and     *)
(* another process may replace the function's snapshot in between (the     *)
(* commit of materialize, module Analysis).                                *)
(*                                                                         *)
(* The relation kinds asked for are abstracted: a relation here is one of  *)
(* a kind the walk follows.                                                *)
(***************************************************************************)
EXTENDS Naturals, Sequences, FiniteSets

CONSTANTS
    Nodes,            \* handles of entities
    Graphs,           \* the sets of relations an analysis may have stored
    Rewritable,       \* bound: those that are replaced, by one another
    Targets,          \* handles that slices are asked for
    Directions,       \* directions that slices are asked for
    NodeBudgets,      \* --budget-nodes
    DepthBudgets,     \* --budget-depth
    MaxReplacements   \* bound on snapshots committed during the walk

Relation == [src : Nodes, dst : Nodes]

ASSUME SliceConstants ==
    /\ IsFiniteSet(Nodes)
    /\ Graphs \subseteq SUBSET Relation
    /\ Rewritable \subseteq Graphs
    /\ Targets \subseteq Nodes
    /\ Directions \subseteq {"backward", "forward"}
    /\ NodeBudgets \subseteq Nat
    /\ DepthBudgets \subseteq Nat

VARIABLES
    relations,    \* the rows of table relations
    entities,     \* the ids in table entities
    generation,   \* how many snapshots have been committed since the walk began
    request,      \* the arguments of slice_on
    pc,           \* "walk", "done"
    queue,        \* the deque of nodes to visit, with their depths
    at,           \* the node being visited, with its depth
    rows,         \* the relations of that node still to be looked at
    seen,         \* nodes visited
    known,        \* nodes visited or enqueued
    selected,     \* relations of the answer
    boundaries,   \* nodes left out
    reason,       \* why the first of them was
    nodes         \* entities of the answer

database == <<relations, entities, generation>>
answer == <<seen, known, selected, boundaries, reason>>
vars == <<database, request, pc, queue, at, rows, answer, nodes>>

Place == [node : Nodes, depth : Nat]

\* The column the adjacency query selects on, and the other one.
Near(e) == IF request.direction = "backward" THEN e.src ELSE e.dst
Far(e) == IF request.direction = "backward" THEN e.dst ELSE e.src

Endpoints(edges) == {e.src : e \in edges} \cup {e.dst : e \in edges}

TypeOK ==
    /\ relations \in Graphs
    /\ Endpoints(relations) \subseteq entities
    /\ entities \subseteq Nodes
    /\ generation \in Nat
    /\ request \in [target : Targets, direction : Directions,
                    nodes : NodeBudgets, depth : DepthBudgets]
    /\ pc \in {"walk", "done"}
    /\ queue \in Seq(Place)
    /\ at \in Place
    /\ rows \subseteq Relation
    /\ seen \subseteq Nodes
    /\ known \subseteq Nodes
    /\ selected \subseteq Relation
    /\ boundaries \subseteq Nodes
    /\ reason \in {"none", "node_budget", "depth_budget"}
    /\ nodes \subseteq Nodes

\* ensure_materialized and the lookup of the target are behind us.  A target
\* that belongs to no function, or a request whose only kind is not available,
\* walks as if there were no relations.
Init ==
    /\ relations \in Graphs
    /\ entities = Nodes
    /\ generation = 0
    /\ request \in [target : Targets, direction : Directions,
                    nodes : NodeBudgets, depth : DepthBudgets]
    /\ pc = "walk"
    /\ queue = <<[node |-> request.target, depth |-> 0]>>
    /\ at = [node |-> request.target, depth |-> 0]
    /\ rows = {}
    /\ seen = {}
    /\ known = {request.target}
    /\ selected = {}
    /\ boundaries = {}
    /\ reason = "none"
    /\ nodes = {}
-----------------------------------------------------------------------------
VisitLast ==
    /\ pc = "walk" /\ rows = {} /\ queue # <<>>
    /\ at' = queue[Len(queue)]
    /\ queue' = SubSeq(queue, 1, Len(queue) - 1)
    /\ seen' = seen \cup {at'.node}
    /\ rows' = {e \in relations : Near(e) = at'.node}
    /\ UNCHANGED <<database, request, pc, known, selected, boundaries, reason,
                   nodes>>

VisitPeek ==
    /\ pc = "walk" /\ rows = {} /\ queue # <<>>
    /\ at' = Head(queue)
    /\ seen' = seen \cup {at'.node}
    /\ rows' = {e \in relations : Near(e) = at'.node}
    /\ UNCHANGED <<database, request, pc, queue, known, selected, boundaries,
                   reason, nodes>>

\* The next node of the deque is visited: its relations are read.
Visit ==
    /\ pc = "walk" /\ rows = {} /\ queue # <<>>
    /\ at' = Head(queue)
    /\ queue' = Tail(queue)
    /\ seen' = seen \cup {at'.node}
    /\ rows' = {e \in relations : Near(e) = at'.node}
    /\ UNCHANGED <<database, request, pc, known, selected, boundaries, reason,
                   nodes>>

AtMaximumDepthLate == at.depth > request.depth

AtMaximumDepth == at.depth >= request.depth

FullLate == Cardinality(known) > request.nodes

Full == Cardinality(known) >= request.nodes

\* The first cut gives the reason.
CutReason ==
    IF reason # "none" THEN reason
    ELSE IF AtMaximumDepth THEN "depth_budget" ELSE "node_budget"

\* An unknown node at the far end of a relation is left out.
LeaveOut(e) ==
    /\ Far(e) \notin known
    /\ AtMaximumDepth \/ Full
    /\ boundaries' = boundaries \cup {Far(e)}
    /\ reason' = CutReason
    /\ UNCHANGED <<queue, known, selected>>

\* The relation to a node that is known is part of the answer, at maximum
\* depth too.
FollowKnownUnlessDeep(e) ==
    /\ Far(e) \in known
    /\ selected' = IF AtMaximumDepth THEN selected ELSE selected \cup {e}
    /\ UNCHANGED <<queue, known, boundaries, reason>>

FollowKnown(e) ==
    /\ Far(e) \in known
    /\ selected' = selected \cup {e}
    /\ UNCHANGED <<queue, known, boundaries, reason>>

FollowNewUnselected(e) ==
    /\ Far(e) \notin known
    /\ ~AtMaximumDepth
    /\ ~Full
    /\ known' = known \cup {Far(e)}
    /\ queue' = Append(queue, [node |-> Far(e), depth |-> at.depth + 1])
    /\ UNCHANGED <<selected, boundaries, reason>>

FollowNew(e) ==
    /\ Far(e) \notin known
    /\ ~AtMaximumDepth
    /\ ~Full
    /\ selected' = selected \cup {e}
    /\ known' = known \cup {Far(e)}
    /\ queue' = Append(queue, [node |-> Far(e), depth |-> at.depth + 1])
    /\ UNCHANGED <<boundaries, reason>>

\* The rows come ordered by kind and ordinal, which are abstracted: any order.
Look(e) ==
    /\ pc = "walk"
    /\ e \in rows
    /\ rows' = rows \ {e}
    /\ LeaveOut(e) \/ FollowKnown(e) \/ FollowNew(e)
    /\ UNCHANGED <<database, request, pc, at, seen, nodes>>

FetchEntitiesButLast ==
    /\ pc = "walk" /\ rows = {} /\ queue = <<>>
    /\ nodes' = (seen \ {at.node}) \cap entities
    /\ pc' = "done"
    /\ UNCHANGED <<database, request, queue, at, rows, answer>>

\* The entities of the visited nodes are fetched (in batches of 500); a node
\* whose entity is gone is dropped without a word.
FetchEntities ==
    /\ pc = "walk" /\ rows = {} /\ queue = <<>>
    /\ nodes' = seen \cap entities
    /\ pc' = "done"
    /\ UNCHANGED <<database, request, queue, at, rows, answer>>

\* A new snapshot of the function is committed: its relations and entities are
\* deleted and inserted again in one transaction.
NewSnapshot ==
    /\ generation < MaxReplacements
    /\ generation' = generation + 1
    /\ relations \in Rewritable
    /\ relations' \in Rewritable
    /\ \E gone \in SUBSET (Nodes \ Endpoints(relations')) :
          entities' = Nodes \ gone

\* Another process commits one during the walk.
Replace ==
    /\ pc = "walk"
    /\ NewSnapshot
    /\ UNCHANGED <<request, pc, queue, at, rows, answer, nodes>>
-----------------------------------------------------------------------------
Walk == Visit \/ (\E e \in rows : Look(e)) \/ FetchEntities

\* The answer is out.
Answered == pc = "done" /\ UNCHANGED vars

Next == Walk \/ Replace \/ Answered

Spec == Init /\ [][Next]_vars

FairSpec == Spec /\ WF_vars(Walk)
-----------------------------------------------------------------------------
(* What an answer promises.                                                *)

\* A set that the relations do not lead out of.
Closed(S) == \A e \in relations : Near(e) \in S => Far(e) \in S

Reachable ==
    {n \in Nodes : \A S \in SUBSET Nodes :
        request.target \in S /\ Closed(S) => n \in S}

\* Nodes at most d relations away from the target.
Ball[d \in Nat] ==
    IF d = 0 THEN {request.target}
    ELSE Ball[d - 1]
         \cup {Far(e) : e \in {e \in relations : Near(e) \in Ball[d - 1]}}

Undisturbed == generation = 0

\* "Anything the store cannot prove appears in unknowns, never as silence":
\* an answer that is not marked as truncated has everything that can be
\* reached, and every relation that leads there.
UntruncatedIsComplete ==
    pc = "done" /\ boundaries = {} /\ Undisturbed =>
        /\ seen = Reachable
        /\ selected = {e \in relations : Near(e) \in seen}

\* "Reaching an already-known node at maximum depth is not truncation": what
\* is reported as left out is not in the answer, also when the depth budget
\* cut it off first and a shorter way led to it later, and when the snapshot
\* was replaced in between.
BoundariesAreLeftOut == boundaries \cap known = {}

\* Unless the node budget was used up, the depth budget alone decides: the
\* answer is the ball of that radius around the target.
DepthBudgetIsARadius ==
    pc = "done" /\ Undisturbed /\ Cardinality(seen) < request.nodes =>
        seen = Ball[request.depth]

\* The node budget is never overdrawn, but the target itself is free.
WithinBudget ==
    Cardinality(known) <= request.nodes \/ known = {request.target}

\* Every node of the answer is connected to the target by relations of the
\* answer, whatever was committed during the walk.
AnswerIsConnected ==
    \A S \in SUBSET Nodes :
        /\ request.target \in S
        /\ \A e \in selected : Near(e) \in S => Far(e) \in S
        => known \subseteq S

\* The relations of an answer are between its nodes.
RelationsJoinNodes ==
    pc = "done" /\ Undisturbed => Endpoints(selected) \subseteq nodes

\* Every walk ends, in cyclic graphs and under replacement.
Termination == <>(pc = "done")
=============================================================================

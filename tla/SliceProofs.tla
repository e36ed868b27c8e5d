---------------------------- MODULE SliceProofs ----------------------------
(* Proofs about Slice, for every graph, budget and number of replacements. *)
EXTENDS Slice, LeastElements

(* A relation joins two nodes, read in either direction (the frontier      *)
(* column of the adjacency query).                                         *)
LEMMA EndsAreNodes ==
  ASSUME NEW e \in Relation
  PROVE  Near(e) \in Nodes /\ Far(e) \in Nodes
  BY DEF Near, Far, Relation

(* The types of a walk, whatever asked for it.                             *)
WalkTypes ==
    /\ relations \in Graphs
    /\ Endpoints(relations) \subseteq entities
    /\ entities \subseteq Nodes
    /\ generation \in Nat
    /\ request.target \in Nodes
    /\ pc \in {"walk", "done"}
    /\ queue \in Seq(Place)
    /\ at \in Place
    /\ rows \subseteq Relation
    /\ seen \subseteq Nodes
    /\ known \subseteq Nodes
    /\ selected \subseteq Relation
    /\ boundaries \subseteq Nodes
    /\ reason \in {"none", "node_budget", "depth_budget"}
    /\ nodes \subseteq Nodes

(* A slice is asked for with a target that is a node.                      *)
LEMMA TypesOfAWalk == TypeOK => WalkTypes
BY SliceConstants DEF TypeOK, WalkTypes

(* Each step of the walk, and each commit beside it, keeps the types.      *)
LEMMA WalkTypesStep ==
  ASSUME WalkTypes, [Next]_vars
  PROVE  WalkTypes'
<1> USE SliceConstants DEF WalkTypes
<1>1. CASE Visit
  <2>1. Head(queue) \in Place /\ Tail(queue) \in Seq(Place)
    BY <1>1 DEF Visit
  <2>2. at' \in Place /\ queue' \in Seq(Place) /\ at'.node \in Nodes
    BY <1>1, <2>1 DEF Visit, Place
  <2>3. rows' \subseteq Relation /\ seen' \subseteq Nodes
    BY <1>1, <2>2 DEF Visit
  <2> QED
    BY <1>1, <2>2, <2>3 DEF Visit, database
<1>2. ASSUME NEW e \in rows, Look(e)
      PROVE  WalkTypes'
  <2>1. e \in Relation /\ Far(e) \in Nodes
    BY EndsAreNodes
  <2>2. CutReason \in {"none", "node_budget", "depth_budget"}
    BY DEF CutReason
  <2>3. /\ boundaries' \subseteq Nodes /\ known' \subseteq Nodes
        /\ selected' \subseteq Relation
        /\ reason' \in {"none", "node_budget", "depth_budget"}
    BY <1>2, <2>1, <2>2 DEF Look, LeaveOut, FollowKnown, FollowNew
  <2>4. queue' \in Seq(Place)
    <3>1. [node |-> Far(e), depth |-> at.depth + 1] \in Place
      BY <2>1 DEF Place
    <3> QED
      BY <1>2, <3>1 DEF Look, LeaveOut, FollowKnown, FollowNew
  <2> QED
    BY <1>2, <2>3, <2>4 DEF Look, database
<1>3. CASE FetchEntities
  BY <1>3 DEF FetchEntities, database, answer
<1>4. CASE Replace
  <2>1. relations' \in Graphs /\ generation' \in Nat
    BY <1>4 DEF Replace, NewSnapshot
  <2>2. Endpoints(relations)' \subseteq Nodes
    BY <2>1 DEF Endpoints, Relation
  <2>3. Endpoints(relations)' \subseteq entities' /\ entities' \subseteq Nodes
    BY <1>4, <2>2 DEF Replace, NewSnapshot, Endpoints
  <2> QED
    BY <1>4, <2>1, <2>3 DEF Replace, NewSnapshot, answer
<1>5. CASE UNCHANGED vars
  BY <1>5 DEF vars, database, answer, Endpoints
<1> QED
  BY <1>1, <1>2, <1>3, <1>4, <1>5 DEF Next, Walk, Answered

(* It keeps the request, too.                                              *)
LEMMA TypeStep ==
  ASSUME TypeOK, [Next]_vars
  PROVE  TypeOK'
<1>1. WalkTypes'
  BY TypesOfAWalk, WalkTypesStep
<1>2. request' = request
  <2>1. ASSUME NEW e \in rows, Look(e) PROVE request' = request
    BY <2>1 DEF Look
  <2> QED
    BY <2>1 DEF Next, Walk, Visit, FetchEntities, Replace, Answered, vars
<1> QED
  BY <1>1, <1>2 DEF TypeOK, WalkTypes

(* A walk starts with its target in the deque.                             *)
LEMMA TypeInit == Init => TypeOK
<1> SUFFICES ASSUME Init PROVE TypeOK
  OBVIOUS
<1>1. request.target \in Nodes
  BY SliceConstants DEF Init
<1>2. [node |-> request.target, depth |-> 0] \in Place
  BY <1>1 DEF Place
<1>3. Endpoints(relations) \subseteq entities
  BY SliceConstants DEF Init, Endpoints, Relation
<1> QED
  BY <1>1, <1>2, <1>3 DEF Init, TypeOK

(* What is being walked always is a walk over this function's entities.    *)
THEOREM SliceTypes == Spec => []TypeOK
<1>1. TypeOK /\ [Next]_vars => TypeOK'
  BY TypeStep
<1> QED
  BY <1>1, TypeInit, PTL DEF Spec
-----------------------------------------------------------------------------
(* The deque is ordered by depth, at most one step deeper than the node    *)
(* being visited; so once a node has been left out, for either reason, no  *)
(* further node becomes known.                                             *)
Order ==
    /\ \A i \in 1..Len(queue) :
          at.depth <= queue[i].depth /\ queue[i].depth <= at.depth + 1
    /\ \A i, j \in 1..Len(queue) : i <= j => queue[i].depth <= queue[j].depth
    /\ boundaries # {} => AtMaximumDepth \/ Full

(* A place in the deque has a depth, and so has the node being visited.    *)
LEMMA DepthsAreNumbers ==
  ASSUME TypeOK
  PROVE  /\ at.depth \in Nat /\ request.depth \in Nat /\ request.nodes \in Nat
         /\ \A i \in 1..Len(queue) : queue[i].depth \in Nat
<1>1. queue \in Seq(Place) /\ at \in Place
  BY DEF TypeOK
<1>2. \A i \in 1..Len(queue) : queue[i] \in Place
  BY <1>1
<1>3. request.depth \in DepthBudgets /\ request.nodes \in NodeBudgets
  BY DEF TypeOK
<1> QED
  BY <1>1, <1>2, <1>3, SliceConstants DEF Place

(* The order of the deque survives every step (queue.pop_front and         *)
(* emplace_back of slice_on).                                              *)
LEMMA OrderStep ==
  ASSUME TypeOK, Order, [Next]_vars
  PROVE  Order'
<1> USE DEF TypeOK
<1>1. CASE Visit
  <2> DEFINE n == Len(queue)
  <2>1. n \in Nat /\ n >= 1 /\ at' = queue[1]
    BY <1>1 DEF Visit
  <2>2. /\ queue' = Tail(queue) /\ Len(queue') = n - 1
        /\ \A i \in 1..(n - 1) : queue'[i] = queue[i + 1]
    BY <1>1, <2>1 DEF Visit
  <2>3. \A i \in 1..n : queue[i].depth \in Nat
    BY DepthsAreNumbers
  <2>4. at.depth \in Nat /\ at'.depth \in Nat /\ at.depth <= at'.depth
    BY <2>1, <2>3, DepthsAreNumbers DEF Order
  <2> HIDE DEF n
  <2>5. \A i \in 1..(n - 1) :
          /\ at'.depth <= queue'[i].depth
          /\ queue'[i].depth <= at.depth + 1
    <3> SUFFICES ASSUME NEW i \in 1..(n - 1)
                 PROVE  /\ at'.depth <= queue'[i].depth
                        /\ queue'[i].depth <= at.depth + 1
      OBVIOUS
    <3>1. /\ 1 \in 1..n /\ i + 1 \in 1..n /\ 1 <= i + 1
          /\ queue'[i] = queue[i + 1]
      BY <2>1, <2>2
    <3>2. /\ queue[1].depth <= queue[i + 1].depth
          /\ queue[i + 1].depth <= at.depth + 1
      BY <3>1 DEF Order, n
    <3> QED
      BY <2>1, <3>1, <3>2
  <2>6. \A i, j \in 1..(n - 1) : i <= j => queue'[i].depth <= queue'[j].depth
    BY <2>1, <2>2, <2>3 DEF Order, n
  <2>7. request.depth \in Nat /\ boundaries' = boundaries /\ known' = known
        /\ request' = request
    BY <1>1, SliceConstants DEF Visit
  <2>8. AtMaximumDepth => AtMaximumDepth'
    BY <2>4, <2>7 DEF AtMaximumDepth
  <2>9. \A i \in 1..(n - 1) : queue'[i].depth \in Nat
    BY <2>1, <2>2, <2>3
  <2>10. ASSUME NEW i \in 1..Len(queue')
         PROVE  at'.depth <= queue'[i].depth
                /\ queue'[i].depth <= at'.depth + 1
    <3>1. i \in 1..(n - 1)
      BY <2>2
    <3>2. /\ at'.depth <= queue'[i].depth /\ queue'[i].depth <= at.depth + 1
          /\ queue'[i].depth \in Nat
      BY <2>5, <2>9, <3>1
    <3> QED
      BY <2>4, <3>2
  <2> QED
    BY <2>2, <2>6, <2>7, <2>8, <2>10 DEF Order, Full
<1>2. ASSUME NEW e \in rows, Look(e)
      PROVE  Order'
  <2>1. at' = at /\ request' = request
    BY <1>2 DEF Look
  <2>2. CASE LeaveOut(e)
    BY <2>1, <2>2 DEF LeaveOut, Order, AtMaximumDepth, Full
  <2>3. CASE FollowKnown(e)
    BY <2>1, <2>3 DEF FollowKnown, Order, AtMaximumDepth, Full
  <2>4. CASE FollowNew(e)
    <3> DEFINE n == Len(queue)
               new == [node |-> Far(e), depth |-> at.depth + 1]
    <3>1. /\ queue' = Append(queue, new) /\ n \in Nat
          /\ Len(queue') = n + 1 /\ queue'[n + 1] = new
          /\ \A i \in 1..n : queue'[i] = queue[i]
      BY <2>4 DEF FollowNew
    <3>2. at.depth \in Nat /\ \A i \in 1..n : queue[i].depth \in Nat
      BY DepthsAreNumbers
    <3>3. boundaries' = {}
      BY <2>4 DEF FollowNew, Order
    <3>4. \A i \in 1..(n + 1) :
            at.depth <= queue'[i].depth /\ queue'[i].depth <= at.depth + 1
      BY <3>1, <3>2 DEF Order
    <3>5. \A i, j \in 1..(n + 1) : i <= j => queue'[i].depth <= queue'[j].depth
      <4> SUFFICES ASSUME NEW i \in 1..(n + 1), NEW j \in 1..(n + 1), i <= j
                   PROVE  queue'[i].depth <= queue'[j].depth
        OBVIOUS
      <4>1. CASE j = n + 1
        BY <3>1, <3>4, <4>1
      <4>2. CASE j # n + 1
        <5>1. i \in 1..n /\ j \in 1..n
          BY <3>1, <4>2
        <5> QED
          BY <3>1, <5>1 DEF Order
      <4> QED
        BY <4>1, <4>2
    <3> QED
      BY <2>1, <3>1, <3>3, <3>4, <3>5 DEF Order
  <2> QED
    BY <1>2, <2>2, <2>3, <2>4 DEF Look
<1>3. CASE FetchEntities
  BY <1>3 DEF FetchEntities, answer, Order, AtMaximumDepth, Full
<1>4. CASE Replace
  BY <1>4 DEF Replace, NewSnapshot, answer, Order, AtMaximumDepth, Full
<1>5. CASE UNCHANGED vars
  BY <1>5 DEF vars, answer, Order, AtMaximumDepth, Full
<1> QED
  BY <1>1, <1>2, <1>3, <1>4, <1>5 DEF Next, Walk, Answered

(* Nothing that an answer reports as left out is in it: a node cut off by  *)
(* the depth budget is never reached on a shorter way later on, because    *)
(* the deque is served in the order of depth.                              *)
THEOREM BoundariesHold == Spec => []BoundariesAreLeftOut
<1>1. Init => Order /\ BoundariesAreLeftOut
  BY DEF Init, Order, BoundariesAreLeftOut
<1>2. TypeOK /\ Order /\ BoundariesAreLeftOut /\ [Next]_vars
      => Order' /\ BoundariesAreLeftOut'
  <2> SUFFICES ASSUME TypeOK, Order, BoundariesAreLeftOut, [Next]_vars
               PROVE  BoundariesAreLeftOut'
    BY OrderStep
  <2>1. ASSUME NEW e \in rows, Look(e)
        PROVE  BoundariesAreLeftOut'
    BY <2>1
    DEF Look, LeaveOut, FollowKnown, FollowNew, Order, BoundariesAreLeftOut
  <2>2. CASE Visit \/ FetchEntities \/ Replace \/ UNCHANGED vars
    BY <2>2
    DEF Visit, FetchEntities, Replace, NewSnapshot, vars, answer,
        BoundariesAreLeftOut
  <2> QED
    BY <2>1, <2>2 DEF Next, Walk, Answered
<1> QED
  BY <1>1, <1>2, SliceTypes, PTL DEF Spec

(* The number of nodes of an answer is within --budget-nodes, the target   *)
(* alone excepted.                                                         *)
THEOREM BudgetHolds == Spec => []WithinBudget
<1>1. Init => WithinBudget
  BY DEF Init, WithinBudget
<1>2. TypeOK /\ WithinBudget /\ [Next]_vars => WithinBudget'
  <2> SUFFICES ASSUME TypeOK, WithinBudget, [Next]_vars
               PROVE  WithinBudget'
    OBVIOUS
  <2>1. ASSUME NEW e \in rows, Look(e), FollowNew(e)
        PROVE  WithinBudget'
    <3>1. IsFiniteSet(known) /\ Far(e) \notin known /\ request' = request
      BY <2>1, FS_Subset, SliceConstants DEF TypeOK, FollowNew, Look
    <3>2. /\ Cardinality(known \cup {Far(e)}) = Cardinality(known) + 1
          /\ Cardinality(known) \in Nat
      BY <3>1, FS_AddElement, FS_CardinalityType
    <3>3. request.nodes \in Nat
      BY DepthsAreNumbers
    <3>4. ~(Cardinality(known) >= request.nodes)
      BY <2>1 DEF FollowNew, Full
    <3> QED
      BY <2>1, <3>1, <3>2, <3>3, <3>4 DEF FollowNew, WithinBudget
  <2>2. ASSUME NEW e \in rows, Look(e), LeaveOut(e) \/ FollowKnown(e)
        PROVE  WithinBudget'
    BY <2>2 DEF Look, LeaveOut, FollowKnown, WithinBudget
  <2>3. CASE Visit \/ FetchEntities \/ Replace \/ UNCHANGED vars
    BY <2>3
    DEF Visit, FetchEntities, Replace, NewSnapshot, vars, answer, WithinBudget
  <2> QED
    BY <2>1, <2>2, <2>3 DEF Next, Walk, Answered, Look
<1> QED
  BY <1>1, <1>2, SliceTypes, PTL DEF Spec
-----------------------------------------------------------------------------
(* The deque and the node being visited hold known nodes only, and the     *)
(* relations being looked at leave that node.                              *)
Linked ==
    /\ request.target \in known
    /\ at.node \in known
    /\ \A i \in 1..Len(queue) : queue[i].node \in known
    /\ seen \subseteq known
    /\ \A e \in rows : Near(e) = at.node
    /\ AnswerIsConnected

(* Following a relation keeps everything known connected to the target;    *)
(* nothing depends on what the database holds by now.                      *)
LEMMA LinkedStep ==
  ASSUME WalkTypes, Linked, [Next]_vars
  PROVE  Linked'
<1>1. CASE Visit
  <2>0. queue \in Seq(Place)
    BY DEF WalkTypes
  <2>1. /\ Len(queue) \in Nat /\ Len(queue) >= 1 /\ at' = queue[1]
        /\ Len(queue') = Len(queue) - 1
        /\ \A i \in 1..Len(queue') : queue'[i] = queue[i + 1]
    BY <1>1, <2>0 DEF Visit
  <2>2. at'.node \in known /\ \A i \in 1..Len(queue') : queue'[i].node \in known
    BY <2>1 DEF Linked
  <2>3. request' = request /\ known' = known /\ selected' = selected
    BY <1>1 DEF Visit
  <2>4. seen' \subseteq known
    BY <1>1, <2>2 DEF Visit, Linked
  <2>5. \A e \in rows' : Near(e)' = at'.node
    BY <1>1 DEF Visit, Near
  <2> QED
    BY <2>2, <2>3, <2>4, <2>5 DEF Linked, AnswerIsConnected, Near, Far
<1>2. ASSUME NEW e \in rows, Look(e)
      PROVE  Linked'
  <2>1. /\ at' = at /\ request' = request /\ seen' = seen /\ rows' \subseteq rows
        /\ Near(e) = at.node
    BY <1>2 DEF Look, Linked
  <2>2. CASE LeaveOut(e)
    BY <2>1, <2>2 DEF LeaveOut, Linked, AnswerIsConnected, Near, Far
  <2>3. CASE FollowKnown(e)
    <3>1. queue' = queue /\ known' = known /\ selected \subseteq selected'
      BY <2>3 DEF FollowKnown
    <3> QED
      BY <2>1, <3>1 DEF Linked, AnswerIsConnected, Near, Far
  <2>4. CASE FollowNew(e)
    <3>1. /\ known' = known \cup {Far(e)} /\ selected' = selected \cup {e}
          /\ queue' = Append(queue, [node |-> Far(e), depth |-> at.depth + 1])
      BY <2>4 DEF FollowNew
    <3>2. \A i \in 1..Len(queue') : queue'[i].node \in known'
      <4>1. queue \in Seq(Place)
        BY DEF WalkTypes
      <4>2. ASSUME NEW i \in 1..Len(queue')
            PROVE  queue'[i].node \in known'
        <5>1. CASE i \in 1..Len(queue)
          BY <3>1, <4>1, <5>1 DEF Linked
        <5>2. CASE i = Len(queue) + 1
          BY <3>1, <4>1, <5>2
        <5> QED
          BY <3>1, <4>1, <5>1, <5>2
      <4> QED
        BY <4>2
    <3>3. ASSUME NEW S \in SUBSET Nodes, request.target \in S,
                 \A x \in selected' : Near(x) \in S => Far(x) \in S
          PROVE  known' \subseteq S
      <4>1. known \subseteq S
        BY <3>1, <3>3 DEF Linked, AnswerIsConnected
      <4>2. Far(e) \in S
        BY <2>1, <3>1, <3>3, <4>1 DEF Linked
      <4> QED
        BY <3>1, <4>1, <4>2
    <3>4. AnswerIsConnected'
      BY <2>1, <3>3 DEF AnswerIsConnected, Near, Far
    <3> QED
      BY <2>1, <3>1, <3>2, <3>4 DEF Linked, Near
  <2> QED
    BY <1>2, <2>2, <2>3, <2>4 DEF Look
<1>3. CASE FetchEntities \/ Replace \/ UNCHANGED vars
  <2>1. UNCHANGED <<request, queue, at, rows, seen, known, selected>>
    BY <1>3 DEF FetchEntities, Replace, NewSnapshot, vars, answer
  <2> QED
    BY <2>1 DEF Linked, AnswerIsConnected, Near, Far
<1> QED
  BY <1>1, <1>2, <1>3 DEF Next, Walk, Answered

(* Every node of an answer is connected to the target by relations of the  *)
(* answer, even when the snapshot was replaced during the walk.            *)
THEOREM AnswersAreConnected == Spec => []AnswerIsConnected
<1>1. Init => Linked
  <2> SUFFICES ASSUME Init PROVE Linked
    OBVIOUS
  <2>1. AnswerIsConnected
    BY DEF Init, AnswerIsConnected
  <2> QED
    BY <2>1 DEF Init, Linked
<1>2. TypeOK /\ Linked /\ [Next]_vars => Linked'
  BY LinkedStep, TypesOfAWalk
<1>3. Linked => AnswerIsConnected
  BY DEF Linked
<1> QED
  BY <1>1, <1>2, <1>3, SliceTypes, PTL DEF Spec
-----------------------------------------------------------------------------
(* What the walk has done so far, as long as nobody replaced the snapshot: *)
(* a known node has been visited or waits in the deque, and a relation of  *)
(* a visited node is in the answer, leads to a node left out, or is still  *)
(* to be looked at.                                                        *)
Waiting == {queue[i].node : i \in 1..Len(queue)}

Covered ==
    /\ pc = "done" => rows = {} /\ queue = <<>>
    /\ Undisturbed =>
         /\ rows \subseteq relations
         /\ selected \subseteq relations
         /\ known \subseteq seen \cup Waiting
         /\ rows # {} => at.node \in seen
         /\ \A e \in selected : Near(e) \in seen
         /\ \A e \in relations : Near(e) \in seen =>
               e \in rows \/ e \in selected \/ Far(e) \in boundaries
         /\ \A e \in selected : Far(e) \in known

(* The walk leaves no relation of a visited node unaccounted for.          *)
LEMMA CoveredStep ==
  ASSUME WalkTypes, Linked, Covered, [Next]_vars
  PROVE  Covered'
<1>0. generation \in Nat /\ queue \in Seq(Place)
  BY DEF WalkTypes
<1>1. CASE Visit
  <2>1. /\ Len(queue) \in Nat /\ Len(queue) >= 1 /\ at' = queue[1]
        /\ Len(queue') = Len(queue) - 1
        /\ \A i \in 1..Len(queue') : queue'[i] = queue[i + 1]
    BY <1>0, <1>1 DEF Visit
  <2>2. /\ seen' = seen \cup {at'.node} /\ rows = {} /\ pc' = "walk"
        /\ rows' = {e \in relations : Near(e) = at'.node}
        /\ UNCHANGED <<relations, generation, request, known, selected,
                       boundaries>>
    BY <1>1 DEF Visit, database
  <2>3. Waiting \subseteq Waiting' \cup {at'.node}
    <3> SUFFICES ASSUME NEW i \in 1..Len(queue)
                 PROVE  queue[i].node \in Waiting' \cup {at'.node}
      BY DEF Waiting
    <3>1. CASE i = 1
      BY <2>1, <3>1
    <3>2. CASE i # 1
      <4>1. i - 1 \in 1..Len(queue') /\ queue'[i - 1] = queue[(i - 1) + 1]
            /\ (i - 1) + 1 = i
        BY <2>1, <3>2
      <4> QED
        BY <4>1 DEF Waiting
    <3> QED
      BY <3>1, <3>2
  <2>4. \A e \in Relation : Near(e)' = Near(e) /\ Far(e)' = Far(e)
    BY <2>2 DEF Near, Far
  <2>5. ASSUME Undisturbed'
        PROVE  /\ rows' \subseteq relations'
               /\ selected' \subseteq relations'
               /\ known' \subseteq seen' \cup Waiting'
               /\ rows' # {} => at'.node \in seen'
    BY <2>2, <2>3, <2>5 DEF Covered, Undisturbed
  <2>6. ASSUME Undisturbed'
        PROVE  /\ \A e \in selected' : Near(e)' \in seen'
               /\ \A e \in selected' : Far(e)' \in known'
               /\ \A e \in relations' : Near(e)' \in seen' =>
                     \/ e \in rows' \/ e \in selected'
                     \/ Far(e)' \in boundaries'
    BY <2>2, <2>6 DEF Covered, Undisturbed, Near, Far
  <2> QED
    BY <2>2, <2>5, <2>6 DEF Covered
<1>2. ASSUME NEW e \in rows, Look(e)
      PROVE  Covered'
  <2>1. /\ pc' = pc /\ pc = "walk" /\ rows' = rows \ {e}
        /\ UNCHANGED <<relations, generation, request, at, seen>>
        /\ Near(e) = at.node
    BY <1>2 DEF Look, database, Linked
  <2>2. CASE LeaveOut(e)
    <3>1. /\ queue' = queue /\ known' = known /\ selected' = selected
          /\ boundaries' = boundaries \cup {Far(e)}
      BY <2>2 DEF LeaveOut
    <3> QED
      BY <2>1, <3>1 DEF Covered, Undisturbed, Waiting, Near, Far
  <2>3. CASE FollowKnown(e)
    <3>1. /\ queue' = queue /\ known' = known /\ Far(e) \in known
          /\ selected' = selected \cup {e} /\ boundaries' = boundaries
      BY <2>3 DEF FollowKnown
    <3> QED
      BY <2>1, <3>1 DEF Covered, Undisturbed, Waiting, Near, Far
  <2>4. CASE FollowNew(e)
    <3>1. /\ known' = known \cup {Far(e)} /\ selected' = selected \cup {e}
          /\ queue' = Append(queue, [node |-> Far(e), depth |-> at.depth + 1])
          /\ boundaries' = boundaries
      BY <2>4 DEF FollowNew
    <3>2. Waiting \cup {Far(e)} \subseteq Waiting'
      <4>1. /\ Len(queue) \in Nat /\ Len(queue') = Len(queue) + 1
            /\ queue'[Len(queue) + 1].node = Far(e)
            /\ \A i \in 1..Len(queue) : queue'[i] = queue[i]
        BY <1>0, <3>1
      <4>2. /\ Len(queue) + 1 \in 1..Len(queue')
            /\ 1..Len(queue) \subseteq 1..Len(queue')
        BY <4>1
      <4> QED
        BY <4>1, <4>2 DEF Waiting
    <3>3. Undisturbed' => known' \subseteq seen' \cup Waiting'
      BY <2>1, <3>1, <3>2 DEF Covered, Undisturbed
    <3>4. ASSUME Undisturbed'
          PROVE  /\ rows' \subseteq relations' /\ selected' \subseteq relations'
                 /\ rows' # {} => at'.node \in seen'
                 /\ \A x \in selected' : Near(x)' \in seen'
                 /\ \A x \in selected' : Far(x)' \in known'
                 /\ \A x \in relations' : Near(x)' \in seen' =>
                       \/ x \in rows' \/ x \in selected'
                       \/ Far(x)' \in boundaries'
      BY <2>1, <3>1, <3>4 DEF Covered, Undisturbed, Near, Far
    <3> QED
      BY <2>1, <3>3, <3>4 DEF Covered
  <2> QED
    BY <1>2, <2>2, <2>3, <2>4 DEF Look
<1>3. CASE FetchEntities
  <2>1. rows = {} /\ queue = <<>>
        /\ UNCHANGED <<relations, generation, request, queue, at, rows, seen,
                       known, selected, boundaries>>
    BY <1>3 DEF FetchEntities, database, answer
  <2> QED
    BY <2>1 DEF Covered, Undisturbed, Waiting, Near, Far
<1>4. CASE Replace
  <2>1. ~Undisturbed' /\ pc' = "walk"
    BY <1>0, <1>4 DEF Replace, NewSnapshot, Undisturbed
  <2> QED
    BY <2>1 DEF Covered
<1>5. CASE UNCHANGED vars
  <2>1. UNCHANGED <<relations, generation, request, pc, queue, at, rows, seen,
                    known, selected, boundaries>>
    BY <1>5 DEF vars, database, answer
  <2> QED
    BY <2>1 DEF Covered, Undisturbed, Waiting, Near, Far
<1> QED
  BY <1>1, <1>2, <1>3, <1>4, <1>5 DEF Next, Walk, Answered

(* Both hold all along the walk.                                           *)
LEMMA CoveredHolds == Spec => [](Linked /\ Covered)
<1>1. Init => Linked /\ Covered
  <2> SUFFICES ASSUME Init PROVE Linked /\ Covered
    OBVIOUS
  <2>1. AnswerIsConnected
    BY DEF Init, AnswerIsConnected
  <2>2. Linked
    BY <2>1 DEF Init, Linked
  <2>3. request.target \in Waiting
    <3>1. Len(queue) = 1 /\ queue[1].node = request.target
      BY DEF Init
    <3> QED
      BY <3>1 DEF Waiting
  <2> QED
    BY <2>2, <2>3 DEF Init, Covered
<1>2. TypeOK /\ Linked /\ Covered /\ [Next]_vars => Linked' /\ Covered'
  BY LinkedStep, CoveredStep, TypesOfAWalk
<1> QED
  BY <1>1, <1>2, SliceTypes, PTL DEF Spec

(* When the walk stops, what it knows is what it has visited.              *)
LEMMA DoneIsCovered ==
  ASSUME WalkTypes, Linked, Covered, pc = "done", Undisturbed
  PROVE  rows = {} /\ known = seen
<1>1. rows = {} /\ Len(queue) = 0
  BY DEF Covered
<1>2. Waiting = {}
  BY <1>1 DEF Waiting
<1> QED
  BY <1>1, <1>2 DEF Covered, Linked

(* What the walk has covered when it stops is everything: a set that the   *)
(* relations do not lead out of holds the answer, and the answer of an     *)
(* untruncated walk is such a set.                                         *)
LEMMA CoveredIsComplete ==
  ASSUME WalkTypes, Linked, Covered
  PROVE  UntruncatedIsComplete
<1> SUFFICES ASSUME pc = "done", boundaries = {}, Undisturbed
             PROVE  /\ seen = Reachable
                    /\ selected = {e \in relations : Near(e) \in seen}
  BY DEF UntruncatedIsComplete
<1>1. rows = {} /\ known = seen /\ seen \in SUBSET Nodes
  BY DoneIsCovered DEF WalkTypes
<1>2. selected = {e \in relations : Near(e) \in seen}
  BY <1>1 DEF Covered
<1>3. Closed(seen)
  BY <1>1, <1>2 DEF Covered, Closed
<1>4. Reachable \subseteq seen
  BY <1>1, <1>3 DEF Reachable, Linked
<1>5. ASSUME NEW S \in SUBSET Nodes, request.target \in S, Closed(S)
      PROVE  seen \subseteq S
  <2>1. \A e \in selected : Near(e) \in S => Far(e) \in S
    BY <1>2, <1>5 DEF Closed
  <2> QED
    BY <1>1, <1>5, <2>1 DEF Linked, AnswerIsConnected
<1>6. seen \subseteq Reachable
  BY <1>1, <1>5 DEF Reachable
<1> QED
  BY <1>2, <1>4, <1>6

(* An answer that is not marked as truncated is the whole backward or      *)
(* forward closure of the target, with every relation in it, unless the    *)
(* snapshot was replaced during the walk.                                  *)
THEOREM UntruncatedAnswersAreComplete == Spec => []UntruncatedIsComplete
<1>1. TypeOK /\ Linked /\ Covered => UntruncatedIsComplete
  BY CoveredIsComplete, TypesOfAWalk
<1> QED
  BY <1>1, SliceTypes, CoveredHolds, PTL DEF Spec
-----------------------------------------------------------------------------
(* As long as nobody replaced the snapshot, the entities are all there, and *)
(* those of the visited nodes are the ones that are fetched.               *)
Fetched ==
    /\ Undisturbed => entities = Nodes
    /\ pc = "done" /\ Undisturbed => nodes = seen

(* Only a commit of somebody else takes entities away.                     *)
LEMMA FetchedStep ==
  ASSUME WalkTypes, Fetched, [Next]_vars
  PROVE  Fetched'
<1>1. CASE Visit
  BY <1>1 DEF Visit, database, Fetched, Undisturbed
<1>2. ASSUME NEW e \in rows, Look(e) PROVE Fetched'
  BY <1>2 DEF Look, database, Fetched, Undisturbed
<1>3. CASE FetchEntities
  BY <1>3 DEF FetchEntities, database, answer, Fetched, Undisturbed, WalkTypes
<1>4. CASE Replace
  BY <1>4 DEF Replace, NewSnapshot, Fetched, Undisturbed, WalkTypes
<1>5. CASE UNCHANGED vars
  BY <1>5 DEF vars, database, answer, Fetched, Undisturbed
<1> QED
  BY <1>1, <1>2, <1>3, <1>4, <1>5 DEF Next, Walk, Answered

(* The relations of an answer join entities that the answer contains: no   *)
(* dangling end, unless the snapshot was replaced during the walk.         *)
THEOREM RelationsJoinNodesHolds == Spec => []RelationsJoinNodes
<1>1. Init => Fetched
  BY DEF Init, Fetched
<1>2. TypeOK /\ Fetched /\ [Next]_vars => Fetched'
  BY FetchedStep, TypesOfAWalk
<1>3. TypeOK /\ Linked /\ Covered /\ Fetched => RelationsJoinNodes
  <2> SUFFICES ASSUME TypeOK, Linked, Covered, Fetched, pc = "done", Undisturbed,
                      NEW e \in selected
               PROVE  e.src \in nodes /\ e.dst \in nodes
    BY DEF RelationsJoinNodes, Endpoints
  <2>1. Near(e) \in seen /\ Far(e) \in seen /\ nodes = seen
    BY DoneIsCovered, TypesOfAWalk DEF Covered, Fetched
  <2> QED
    BY <2>1 DEF Near, Far
<1> QED
  BY <1>1, <1>2, <1>3, SliceTypes, CoveredHolds, PTL DEF Spec

-----------------------------------------------------------------------------
(* What a set of nodes becomes when the relations that leave it are        *)
(* followed once.                                                          *)
Grown(S) == S \cup {Far(e) : e \in {e \in relations : Near(e) \in S}}

(* Nodes that a path of d steps leads to; a step may stay where it is.     *)
Walks(d) == {s \in [0..d -> Nodes] :
                /\ s[0] = request.target
                /\ \A i \in 1..d : s[i] \in Grown({s[i - 1]})}

Within(d) == {s[d] : s \in Walks(d)}

(* What walks of d + 1 steps lead to is what walks of d steps do, grown    *)
(* once.                                                                   *)
LEMMA WithinGrows ==
  ASSUME TypeOK, NEW d \in Nat
  PROVE  /\ Within(0) = {request.target}
         /\ Within(d + 1) = Grown(Within(d))
<1>0. request.target \in Nodes /\ \A e \in relations : Far(e) \in Nodes
  BY SliceConstants DEF TypeOK, Relation, Far
<1>1. Within(0) = {request.target}
  <2>1. [i \in 0..0 |-> request.target] \in Walks(0)
    BY <1>0 DEF Walks
  <2>2. request.target \in Within(0)
    BY <2>1 DEF Within
  <2>3. \A s \in Walks(0) : s[0] = request.target
    BY DEF Walks
  <2> QED
    BY <2>2, <2>3 DEF Within
<1>2. ASSUME NEW s \in Walks(d + 1) PROVE s[d + 1] \in Grown(Within(d))
  <2> DEFINE r == [i \in 0..d |-> s[i]]
  <2>1. r \in Walks(d)
    BY <1>2 DEF Walks
  <2>2. s[d] \in Within(d)
    BY <2>1 DEF Within
  <2>3. s[d + 1] \in Grown({s[d]})
    <3>1. d + 1 \in 1..(d + 1) /\ (d + 1) - 1 = d
      OBVIOUS
    <3> QED
      BY <1>2, <3>1 DEF Walks
  <2> QED
    BY <2>2, <2>3 DEF Grown
<1>3. ASSUME NEW s \in Walks(d), NEW n \in Grown({s[d]})
      PROVE  n \in Within(d + 1)
  <2>1. s[d] \in Nodes
    BY DEF Walks
  <2>2. n \in Nodes
    BY <1>0, <2>1 DEF Grown
  <2> DEFINE r == [i \in 0..(d + 1) |-> IF i = d + 1 THEN n ELSE s[i]]
  <2>3. r \in [0..(d + 1) -> Nodes]
    BY <2>2 DEF Walks
  <2>4. r[0] = request.target /\ r[d + 1] = n
    BY DEF Walks
  <2>5. ASSUME NEW i \in 1..(d + 1) PROVE r[i] \in Grown({r[i - 1]})
    <3>1. CASE i = d + 1
      <4>1. r[i] = n /\ r[i - 1] = s[d]
        BY <3>1
      <4> QED
        BY <1>3, <4>1
    <3>2. CASE i # d + 1
      <4>1. i \in 1..d /\ r[i] = s[i] /\ r[i - 1] = s[i - 1]
        BY <3>2
      <4> QED
        BY <4>1 DEF Walks
    <3> QED
      BY <3>1, <3>2
  <2>6. r \in Walks(d + 1)
    BY <2>3, <2>4, <2>5 DEF Walks
  <2> QED
    BY <2>4, <2>6 DEF Within
<1>4. Grown(Within(d)) \subseteq Within(d + 1)
  <2> SUFFICES ASSUME NEW n \in Grown(Within(d)) PROVE n \in Within(d + 1)
    OBVIOUS
  <2>1. PICK s \in Walks(d) : n \in Grown({s[d]})
    BY DEF Grown, Within
  <2> QED
    BY <1>3, <2>1
<1> QED
  BY <1>1, <1>2, <1>4 DEF Within

(* The two equations of Ball.                                              *)
BallsGrow ==
    /\ Ball[0] = {request.target}
    /\ \A d \in Nat : Ball[d + 1] = Grown(Ball[d])

(* The recursion that defines Ball has a solution, the walks by their      *)
(* length, so Ball is one.                                                 *)
LEMMA BallGrows == TypeOK => BallsGrow
<1> SUFFICES ASSUME TypeOK PROVE BallsGrow
  OBVIOUS
<1> DEFINE g == [d \in Nat |-> Within(d)]
<1>1. g = [d \in Nat |->
             IF d = 0 THEN {request.target}
             ELSE g[d - 1]
                  \cup {Far(e) : e \in {e \in relations : Near(e) \in g[d - 1]}}]
  <2> SUFFICES ASSUME NEW d \in Nat
               PROVE  Within(d) =
                        IF d = 0 THEN {request.target}
                        ELSE g[d - 1]
                             \cup {Far(e) : e \in
                                     {e \in relations : Near(e) \in g[d - 1]}}
    OBVIOUS
  <2>1. CASE d = 0
    BY <2>1, WithinGrows
  <2>2. CASE d # 0
    <3>1. d - 1 \in Nat /\ (d - 1) + 1 = d
      BY <2>2
    <3>2. Within(d) = Grown(Within(d - 1)) /\ g[d - 1] = Within(d - 1)
      BY <3>1, WithinGrows
    <3> QED
      BY <2>2, <3>2 DEF Grown
  <2> QED
    BY <2>1, <2>2
<1> HIDE DEF g
<1>2. Ball = [d \in Nat |->
                IF d = 0 THEN {request.target}
                ELSE Ball[d - 1]
                     \cup {Far(e) : e \in {e \in relations : Near(e) \in Ball[d - 1]}}]
  BY <1>1, Zenon DEF Ball
<1>3. Ball[0] = {request.target}
  BY <1>2
<1>4. ASSUME NEW d \in Nat PROVE Ball[d + 1] = Grown(Ball[d])
  <2>1. d + 1 \in Nat /\ d + 1 # 0 /\ (d + 1) - 1 = d
    OBVIOUS
  <2> QED
    BY <1>2, <2>1 DEF Grown
<1> QED
  BY <1>3, <1>4 DEF BallsGrow

(* The walk goes outwards: it has known exactly the ball of the depth it   *)
(* is at when it comes to a deeper node, unless the node budget stopped it. *)
Layered ==
    Undisturbed =>
        /\ at.depth <= request.depth
        /\ \A i \in 1..Len(queue) : queue[i].depth <= request.depth
        /\ at.node \in Ball[at.depth]
        /\ \A i \in 1..Len(queue) : queue[i].node \in Ball[queue[i].depth]
        /\ seen \subseteq Ball[at.depth]
        /\ ~Full =>
              /\ Ball[at.depth] \subseteq known
              /\ \A i \in 1..Len(queue) :
                    queue[i].depth > at.depth =>
                        queue[i].node \notin Ball[at.depth]

(* The balls are those of the relations and the target alone.              *)
LEMMA SameBalls ==
  ASSUME TypeOK, TypeOK', UNCHANGED <<relations, request>>
  PROVE  \A d \in Nat : Ball'[d] = Ball[d]
<1> DEFINE T == {d \in Nat : Ball'[d] = Ball[d]}
<1>1. ASSUME NEW S
      PROVE  S \cup {Far(e)' : e \in {e \in relations' : Near(e)' \in S}} = Grown(S)
  <2> DEFINE out == {e \in relations : Near(e) \in S}
  <2>1. {e \in relations' : Near(e)' \in S} = out
    BY DEF Near
  <2>2. \A e \in out : Far(e)' = Far(e)
    BY DEF Far
  <2> HIDE DEF out
  <2>3. {Far(e)' : e \in out} = {Far(e) : e \in out}
    BY <2>2
  <2> QED
    BY <2>1, <2>3 DEF Grown, out
<1>3. BallsGrow /\ BallsGrow'
  <2>1. TypeOK' => BallsGrow'
    BY BallGrows, PTL
  <2> QED
    BY <2>1, BallGrows
<1>4. 0 \in T
  BY <1>3 DEF BallsGrow
<1>5. ASSUME NEW d \in T PROVE d + 1 \in T
  <2>1. Ball'[d + 1] = Ball'[d] \cup
           {Far(e)' : e \in {e \in relations' : Near(e)' \in Ball'[d]}}
    BY <1>3 DEF BallsGrow, Grown
  <2>2. Ball'[d + 1] = Grown(Ball[d])
    BY <1>1, <2>1
  <2> QED
    BY <1>3, <2>2 DEF BallsGrow
<1> HIDE DEF T
<1>6. T = Nat
  BY <1>4, <1>5, AllNumbers DEF T
<1> QED
  BY <1>6 DEF T

(* The depths in the deque are numbers after a step, too.                  *)
LEMMA DepthsStayNumbers ==
  ASSUME TypeOK'
  PROVE  at'.depth \in Nat /\ \A i \in 1..Len(queue') : queue'[i].depth \in Nat
<1>1. queue' \in Seq(Place) /\ at' \in Place
  BY DEF TypeOK
<1>2. \A i \in 1..Len(queue') : queue'[i] \in Place
  BY <1>1
<1> QED
  BY <1>1, <1>2 DEF Place

(* When the first node of the next depth is visited, every node of the     *)
(* ball of this depth has been, and none of them was left out, so the next *)
(* ball is known.                                                          *)
LEMMA FilledByVisit ==
  ASSUME TypeOK, Order, Covered, Layered, Undisturbed, Visit
  PROVE  /\ Ball[at.depth] \subseteq Ball[at'.depth]
         /\ ~Full => /\ Ball[at'.depth] \subseteq known
                     /\ \A i \in 2..Len(queue) : queue[i].depth > at'.depth =>
                           queue[i].node \notin Ball[at'.depth]
<1> DEFINE n == Len(queue)
<1>1. /\ n \in Nat /\ n >= 1 /\ at' = queue[1] /\ rows = {}
      /\ at.depth \in Nat /\ request.depth \in Nat
      /\ \A i \in 1..n : queue[i].depth \in Nat
  BY DepthsAreNumbers DEF Visit, TypeOK
<1> HIDE DEF n
<1>2. /\ 1 \in 1..n /\ \A i \in 2..n : i \in 1..n /\ 1 <= i
  BY <1>1
<1>3. at'.depth = at.depth \/ at'.depth = at.depth + 1
  <2>1. at.depth <= queue[1].depth /\ queue[1].depth <= at.depth + 1
    BY <1>2 DEF Order, n
  <2> QED
    BY <1>1, <1>2, <2>1
<1>4. CASE at'.depth = at.depth
  BY <1>2, <1>4 DEF Layered, n
<1>5. CASE at'.depth = at.depth + 1
  <2>1. \A i \in 1..n : queue[i].depth = at.depth + 1
    <3> SUFFICES ASSUME NEW i \in 1..n PROVE queue[i].depth = at.depth + 1
      OBVIOUS
    <3>1. queue[1].depth <= queue[i].depth /\ queue[i].depth <= at.depth + 1
      BY <1>1, <1>2 DEF Order, n
    <3> QED
      BY <1>1, <1>5, <3>1
  <2>2. Ball[at'.depth] = Grown(Ball[at.depth])
    BY <1>1, <1>5, BallGrows DEF BallsGrow
  <2>3. ASSUME ~Full PROVE Ball[at'.depth] \subseteq known
    <3>1. /\ Ball[at.depth] \subseteq known
          /\ \A i \in 1..n : queue[i].node \notin Ball[at.depth]
      BY <1>1, <2>1, <2>3 DEF Layered, n
    <3>2. Ball[at.depth] \subseteq seen
      BY <3>1 DEF Covered, Waiting, n
    <3>3. ~AtMaximumDepth
      <4>1. queue[1].depth <= request.depth
        BY <1>2 DEF Layered, n
      <4> QED
        BY <1>1, <1>5, <4>1 DEF AtMaximumDepth
    <3>4. boundaries = {}
      BY <2>3, <3>3 DEF Order
    <3>5. \A e \in relations : Near(e) \in seen => Far(e) \in known
      BY <1>1, <3>4 DEF Covered
    <3> QED
      BY <2>2, <3>1, <3>2, <3>5 DEF Grown
  <2>4. \A i \in 2..n : ~(queue[i].depth > at'.depth)
    BY <1>1, <1>2, <1>5, <2>1
  <2> QED
    BY <2>2, <2>3, <2>4 DEF Grown, n
<1> QED
  BY <1>3, <1>4, <1>5

(* Visiting the next node of the deque keeps the layers (queue.pop_front). *)
LEMMA LayeredVisit ==
  ASSUME TypeOK, TypeOK', Order, Covered, Layered, Visit
  PROVE  Layered'
<1> SUFFICES ASSUME Undisturbed' PROVE Layered'
  BY DEF Layered
<1>1. /\ UNCHANGED <<relations, generation, request, known>>
      /\ seen' = seen \cup {at'.node}
  BY DEF Visit, database
<1>2. Undisturbed /\ \A d \in Nat : Ball'[d] = Ball[d]
  BY <1>1, SameBalls DEF Undisturbed
<1>3. /\ Len(queue) \in Nat /\ Len(queue) >= 1 /\ at' = queue[1]
      /\ Len(queue') = Len(queue) - 1
      /\ \A i \in 1..Len(queue') : queue'[i] = queue[i + 1]
  BY DEF Visit, TypeOK
<1>4. 1 \in 1..Len(queue)
      /\ \A i \in 1..Len(queue') :
            i + 1 \in 2..Len(queue) /\ i + 1 \in 1..Len(queue)
  BY <1>3
<1>5. at'.depth <= request.depth /\ at'.node \in Ball[at'.depth]
  BY <1>2, <1>3, <1>4 DEF Layered
<1>6. \A i \in 1..Len(queue') :
         /\ queue'[i].depth <= request.depth
         /\ queue'[i].node \in Ball[queue'[i].depth]
  BY <1>2, <1>3, <1>4 DEF Layered
<1>7. seen' \subseteq Ball[at'.depth]
  BY <1>1, <1>2, <1>5, FilledByVisit DEF Layered
<1>8. ASSUME ~Full
      PROVE  /\ Ball[at'.depth] \subseteq known
             /\ \A i \in 1..Len(queue') :
                   queue'[i].depth > at'.depth =>
                      queue'[i].node \notin Ball[at'.depth]
  BY <1>2, <1>3, <1>4, <1>8, FilledByVisit
<1>9. Full' = Full
  BY <1>1 DEF Full
<1>10. at'.depth \in Nat /\ \A i \in 1..Len(queue') : queue'[i].depth \in Nat
  BY DepthsStayNumbers
<1> QED
  BY <1>1, <1>2, <1>5, <1>6, <1>7, <1>8, <1>9, <1>10 DEF Layered

(* Following a relation keeps them: what is new is one step further out.   *)
LEMMA LayeredLook ==
  ASSUME TypeOK, TypeOK', Linked, Covered, Layered, NEW e \in rows, Look(e)
  PROVE  Layered'
<1> SUFFICES ASSUME Undisturbed' PROVE Layered'
  BY DEF Layered
<1>1. UNCHANGED <<relations, generation, request, at, seen>>
  BY DEF Look, database
<1>2. Undisturbed /\ \A d \in Nat : Ball'[d] = Ball[d]
  BY <1>1, SameBalls DEF Undisturbed
<1>3. CASE LeaveOut(e) \/ FollowKnown(e)
  <2>1. queue' = queue /\ known' = known
    BY <1>3 DEF LeaveOut, FollowKnown
  <2> QED
    BY <1>1, <1>2, <2>1, DepthsAreNumbers DEF Layered, Full
<1>4. CASE FollowNew(e)
  <2> DEFINE n == Len(queue)
             new == [node |-> Far(e), depth |-> at.depth + 1]
  <2>1. /\ queue' = Append(queue, new) /\ n \in Nat
        /\ Len(queue') = n + 1 /\ queue'[n + 1] = new
        /\ \A i \in 1..n : queue'[i] = queue[i]
    BY <1>4 DEF FollowNew, TypeOK
  <2>2. /\ known' = known \cup {Far(e)} /\ Far(e) \notin known
        /\ ~Full /\ ~AtMaximumDepth
    BY <1>4 DEF FollowNew
  <2>3. at.depth \in Nat /\ request.depth \in Nat
    BY DepthsAreNumbers
  <2>4. new.depth = at.depth + 1 /\ new.depth <= request.depth /\ new.node = Far(e)
    BY <2>2, <2>3 DEF AtMaximumDepth
  <2>5. Far(e) \in Ball[at.depth + 1]
    <3>1. e \in relations /\ Near(e) = at.node
      BY <1>2 DEF Covered, Linked
    <3>2. at.node \in Ball[at.depth]
      BY <1>2 DEF Layered
    <3>3. Far(e) \in Grown(Ball[at.depth])
      BY <3>1, <3>2 DEF Grown
    <3> QED
      BY <2>3, <3>3, BallGrows DEF BallsGrow
  <2>6. Ball[at.depth] \subseteq known
    BY <1>2, <2>2 DEF Layered
  <2> HIDE DEF n, new
  <2>7. ASSUME NEW i \in 1..Len(queue')
        PROVE  /\ queue'[i].depth <= request.depth
               /\ queue'[i].node \in Ball[queue'[i].depth]
               /\ queue'[i].depth > at.depth =>
                     queue'[i].node \notin Ball[at.depth]
    <3>1. CASE i = n + 1
      BY <2>1, <2>2, <2>4, <2>5, <2>6, <3>1
    <3>2. CASE i # n + 1
      <4>1. i \in 1..n /\ queue'[i] = queue[i]
        BY <2>1, <3>2
      <4> QED
        BY <1>2, <2>2, <4>1 DEF Layered, n
    <3> QED
      BY <3>1, <3>2
  <2> QED
    BY <1>1, <1>2, <2>2, <2>3, <2>6, <2>7, DepthsStayNumbers DEF Layered
<1> QED
  BY <1>3, <1>4 DEF Look

(* So does every step of the walk, and a commit ends what they say.        *)
LEMMA LayeredStep ==
  ASSUME TypeOK, Order, Linked, Covered, Layered, [Next]_vars
  PROVE  Layered'
<1>0. TypeOK'
  BY TypeStep
<1>1. CASE Visit
  BY <1>0, <1>1, LayeredVisit
<1>2. ASSUME NEW e \in rows, Look(e) PROVE Layered'
  BY <1>0, <1>2, LayeredLook
<1>3. CASE FetchEntities \/ UNCHANGED vars
  <2>1. UNCHANGED <<relations, generation, request, queue, at, seen, known>>
    BY <1>3 DEF FetchEntities, vars, database, answer
  <2>2. \A d \in Nat : Ball'[d] = Ball[d]
    BY <1>0, <2>1, SameBalls
  <2> QED
    BY <2>1, <2>2, DepthsAreNumbers DEF Layered, Undisturbed, Full
<1>4. CASE Replace
  BY <1>4 DEF Replace, NewSnapshot, Undisturbed, Layered, TypeOK
<1> QED
  BY <1>1, <1>2, <1>3, <1>4 DEF Next, Walk, Answered

(* A walk that stops before its depth budget has left nothing out, and its *)
(* ball does not grow any more.                                            *)
LEMMA LayeredIsARadius ==
  ASSUME TypeOK, Order, Linked, Covered, Layered
  PROVE  DepthBudgetIsARadius
<1> SUFFICES ASSUME pc = "done", Undisturbed, Cardinality(seen) < request.nodes
             PROVE  seen = Ball[request.depth]
  BY DEF DepthBudgetIsARadius
<1>1. rows = {} /\ known = seen
  BY DoneIsCovered, TypesOfAWalk
<1>2. at.depth \in Nat /\ request.depth \in Nat /\ request.nodes \in Nat
  BY DepthsAreNumbers
<1>3. Cardinality(seen) \in Nat
  BY SliceConstants, FS_Subset, FS_CardinalityType DEF TypeOK
<1>4. ~Full
  BY <1>1, <1>2, <1>3 DEF Full
<1>5. seen = Ball[at.depth] /\ at.depth <= request.depth
  BY <1>1, <1>4 DEF Layered
<1>6. CASE at.depth = request.depth
  BY <1>5, <1>6
<1>7. CASE at.depth # request.depth
  <2>1. boundaries = {}
    BY <1>2, <1>4, <1>5, <1>7 DEF Order, AtMaximumDepth
  <2>2. \A e \in relations : Near(e) \in seen => Far(e) \in seen
    BY <1>1, <2>1 DEF Covered
  <2>3. Grown(seen) = seen
    BY <2>2 DEF Grown
  <2> DEFINE T == {k \in Nat : Ball[at.depth + k] = seen}
  <2>4. 0 \in T
    BY <1>2, <1>5
  <2>5. ASSUME NEW k \in T PROVE k + 1 \in T
    <3>1. /\ at.depth + k \in Nat /\ k + 1 \in Nat
          /\ (at.depth + k) + 1 = at.depth + (k + 1)
      BY <1>2
    <3>2. Ball[(at.depth + k) + 1] = Grown(seen)
      BY <3>1, BallGrows DEF BallsGrow
    <3> QED
      BY <2>3, <3>1, <3>2
  <2>6. T \in SUBSET Nat
    OBVIOUS
  <2>7. T = Nat
    <3> HIDE DEF T
    <3> QED
      BY <2>4, <2>5, <2>6, AllNumbers
  <2>8. request.depth - at.depth \in Nat
        /\ at.depth + (request.depth - at.depth) = request.depth
    BY <1>2, <1>5
  <2>9. request.depth - at.depth \in T
    BY <2>7, <2>8
  <2> QED
    BY <2>8, <2>9
<1> QED
  BY <1>6, <1>7

(* The depth budget is a radius: an answer that did not use up its node    *)
(* budget is the ball of that radius around the target, neither more nor   *)
(* less, unless the snapshot was replaced during the walk.                 *)
THEOREM TheDepthBudgetIsARadius == Spec => []DepthBudgetIsARadius
<1>1. Init => Order /\ Layered
  <2> SUFFICES ASSUME Init PROVE Order /\ Layered
    OBVIOUS
  <2>1. TypeOK
    BY TypeInit
  <2>2. /\ Len(queue) = 1 /\ queue[1] = at /\ at.depth = 0
        /\ at.node = request.target /\ seen = {} /\ known = {request.target}
    BY DEF Init
  <2>3. request.depth \in Nat
    BY <2>1, DepthsAreNumbers
  <2>4. Ball[0] = {request.target}
    BY <2>1, BallGrows DEF BallsGrow
  <2>5. Order
    BY DEF Init, Order
  <2>6. \A i \in 1..Len(queue) : queue[i] = at
    BY <2>2
  <2> QED
    BY <2>2, <2>3, <2>4, <2>5, <2>6 DEF Layered
<1>2. TypeOK /\ Order /\ Linked /\ Covered /\ Layered /\ [Next]_vars
      => Order' /\ Layered'
  BY OrderStep, LayeredStep
<1>3. TypeOK /\ Order /\ Linked /\ Covered /\ Layered => DepthBudgetIsARadius
  BY LayeredIsARadius
<1> QED
  BY <1>1, <1>2, <1>3, SliceTypes, CoveredHolds, PTL DEF Spec
=============================================================================

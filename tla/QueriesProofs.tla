--------------------------- MODULE QueriesProofs ---------------------------
(* The answers of module Queries, for every function, snapshot, request    *)
(* and number of commits between the queries.                              *)
EXTENDS Queries, SliceProofs

\* A row of the answer has its run in the evidence already, or among the runs
\* of the site at work.
Evidenced == \A row \in cited : row.run \in evidence \cup runs

\* Where the runs of a site are merged before the command goes on.
Merged ==
    /\ step \in {"start", "channel", "done"} => runs = {}
    /\ step = "sites" /\ sinks = <<>> => runs = {}
    /\ step \in {"walk", "locate"} => sinks # <<>>

EvidenceInv == Evidenced /\ Merged

\* What is kept of the cuts, at the site at work and over all sites.
CutsInv ==
    /\ reason \in {"none", "node_budget", "depth_budget"}
    /\ reason = "none" <=> boundaries = {}
    /\ truncated \in BOOLEAN
    /\ truncated <=> left # {}
    /\ truncated <=> reasons # {}
    /\ reasons \subseteq {"node_budget", "depth_budget"}
    /\ \A site \in sites :
          /\ site.left \subseteq left
          /\ site.reason = "none" <=> site.left = {}
          /\ site.reason \in reasons \cup {"none"}
    /\ step = "start" => sites = {}
    /\ \/ step = "done" /\ reasons = {"node_budget"}
       \/ \A r \in reasons : \E site \in sites : site.reason = r

\* Every step keeps track of the runs of the rows it adds to the answer.
LEMMA EvidenceStep ==
    ASSUME EvidenceInv, [QueryNext]_allVars
    PROVE  EvidenceInv'
<1> USE DEF EvidenceInv, Evidenced, Merged
<1>1. CASE ListSinks
  BY <1>1 DEF ListSinks, report
<1>2. CASE InspectReturn
  BY <1>2 DEF InspectReturn, report
<1>3. CASE CountStores
  BY <1>3 DEF CountStores
<1>4. CASE BeginSite
  BY <1>4 DEF BeginSite, report
<1>5. CASE ReadRelations
  BY <1>5 DEF ReadRelations, report
<1>6. CASE LookAtRelation
  <2>1. UNCHANGED <<step, sinks, evidence>>
    BY <1>6 DEF LookAtRelation
  <2>2. PICK e : \/ UNCHANGED <<cited, runs>>
                 \/ /\ cited' = cited \cup
                          {[from |-> e.src, to |-> e.dst, run |-> held]}
                    /\ runs' = runs \cup {held}
    BY <1>6 DEF LookAtRelation
  <2>3. step = "walk"
    BY <1>6 DEF LookAtRelation
  <2> QED BY <2>1, <2>2, <2>3
<1>7. CASE EndSlice
  BY <1>7 DEF EndSlice, report
<1>8. CASE Locate
  BY <1>8 DEF Locate, Row
<1>9. CASE ReadCalls
  <2>1. UNCHANGED <<step, sinks, runs>> /\ step = "calls"
    BY <1>9 DEF ReadCalls
  <2>2. PICK n : \/ UNCHANGED <<cited, evidence>>
                 \/ /\ cited' = cited \cup {Row(n, f) : f \in Callees[n]}
                    /\ evidence' = evidence \cup {generation}
    BY <1>9 DEF ReadCalls
  <2> QED BY <2>1, <2>2 DEF Row
<1>10. CASE EndSite
  BY <1>10 DEF EndSite
<1>11. CASE AllSitesTraced
  BY <1>11 DEF AllSitesTraced, report
<1>12. CASE Show
  BY <1>12 DEF Show
<1>13. CASE ListPage
  BY <1>13 DEF ListPage
<1>14. CASE NotFound
  BY <1>14 DEF NotFound, report
<1>15. CASE Commit
  BY <1>15 DEF Commit, query, report
<1>16. CASE Ended \/ UNCHANGED allVars
  BY <1>16 DEF Ended, allVars, query, report
<1> QED
  BY <1>1, <1>2, <1>3, <1>4, <1>5, <1>6, <1>7, <1>8, <1>9, <1>10, <1>11, <1>12,
     <1>13, <1>14, <1>15, <1>16 DEF QueryNext

\* Every run that stored a relation, a location or a call of an answer is
\* among its evidence_refs, whatever is committed between the queries.
THEOREM EvidenceCoversAll == QuerySpec => []EvidenceCovers
<1>1. QueryInit => EvidenceInv
  BY DEF QueryInit, EvidenceInv, Evidenced, Merged
<1>2. EvidenceInv => EvidenceCovers
  BY DEF EvidenceInv, Evidenced, Merged, EvidenceCovers
<1> QED BY <1>1, <1>2, EvidenceStep, PTL DEF QuerySpec

\* Every step keeps the account of what was left out.
LEMMA CutsStep ==
    ASSUME CutsInv, [QueryNext]_allVars
    PROVE  CutsInv'
<1>1. CASE ListSinks \/ InspectReturn \/ AllSitesTraced \/ NotFound
  <2>1. step # "done" /\ step' # "start" /\ UNCHANGED <<vars, report>>
    BY <1>1 DEF ListSinks, InspectReturn, AllSitesTraced, NotFound
  <2> QED BY <2>1 DEF vars, answer, report, cuts, CutsInv
<1>2. CASE CountStores \/ Locate \/ ReadCalls \/ Show
  <2>1. step # "done" /\ step' # "start" /\ UNCHANGED <<vars, cuts>>
    BY <1>2 DEF CountStores, Locate, ReadCalls, Show, cuts
  <2> QED BY <2>1 DEF vars, answer, cuts, CutsInv
<1>3. CASE BeginSite
  BY <1>3 DEF BeginSite, StartWalk, report, cuts, CutsInv
<1>4. CASE ReadRelations
  BY <1>4 DEF ReadRelations, Visit, report, cuts, CutsInv
<1>5. CASE LookAtRelation
  <2>1. PICK e : Look(e)
    BY <1>5 DEF LookAtRelation
  <2>2. step = "walk" /\ UNCHANGED <<step, cuts>>
    BY <1>5 DEF LookAtRelation, cuts
  <2>3. CASE LeaveOut(e)
    BY <2>2, <2>3 DEF LeaveOut, CutReason, cuts, CutsInv
  <2>4. CASE FollowKnown(e) \/ FollowNew(e)
    BY <2>2, <2>4 DEF FollowKnown, FollowNew, cuts, CutsInv
  <2> QED BY <2>1, <2>3, <2>4 DEF Look
<1>6. CASE EndSlice
  BY <1>6 DEF EndSlice, FetchEntities, answer, report, cuts, CutsInv
<1>7. CASE EndSite
  <2>1. /\ UNCHANGED <<boundaries, reason>>
        /\ left' = left \cup boundaries
        /\ truncated' = (truncated \/ boundaries # {})
        /\ reasons' = reasons \cup ({reason} \ {"none"})
        /\ sites' = sites \cup {Site}
    BY <1>7 DEF EndSite, vars, answer
  <2>2. /\ Site.left = boundaries
        /\ Site.reason = reason
    BY DEF Site
  <2>3. reason # "none" => \E site \in sites' : site.reason = reason
    BY <2>1, <2>2
  <2>4. \A r \in reasons' : \E site \in sites' : site.reason = r
    BY <1>7, <2>1, <2>3 DEF EndSite, CutsInv
  <2>5. \A site \in sites' :
           /\ site.left \subseteq left'
           /\ site.reason = "none" <=> site.left = {}
           /\ site.reason \in reasons' \cup {"none"}
    BY <2>1, <2>2 DEF CutsInv
  <2>6. /\ reason' \in {"none", "node_budget", "depth_budget"}
        /\ reason' = "none" <=> boundaries' = {}
        /\ truncated' \in BOOLEAN
        /\ truncated' <=> left' # {}
        /\ truncated' <=> reasons' # {}
        /\ reasons' \subseteq {"node_budget", "depth_budget"}
    BY <2>1 DEF CutsInv
  <2>7. step' = "sites"
    BY <1>7 DEF EndSite
  <2> QED BY <2>4, <2>5, <2>6, <2>7 DEF CutsInv
<1>8. CASE ListPage
  <2>1. PICK beyond :
           /\ left' = {Listed[i] : i \in beyond}
           /\ truncated' = (beyond # {})
    BY <1>8 DEF ListPage
  <2>2. /\ reasons' = IF truncated' THEN {"node_budget"} ELSE {}
        /\ UNCHANGED <<boundaries, reason, sites>>
        /\ sites = {}
    BY <1>8 DEF ListPage, vars, answer, CutsInv
  <2>3. truncated' <=> left' # {}
    BY <2>1
  <2>4. step' = "done" /\ step = "start"
    BY <1>8 DEF ListPage
  <2>5. /\ truncated' \in BOOLEAN
        /\ reason' \in {"none", "node_budget", "depth_budget"}
        /\ reason' = "none" <=> boundaries' = {}
    BY <2>1, <2>2 DEF CutsInv
  <2>6. sites' = {} /\ step' = "done"
    BY <2>2, <2>4
  <2>7. CASE truncated'
    <3>1. reasons' = {"node_budget"} /\ left' # {}
      BY <2>2, <2>3, <2>7
    <3> QED BY <2>5, <2>6, <2>7, <3>1 DEF CutsInv
  <2>8. CASE ~truncated'
    <3>1. reasons' = {} /\ left' = {}
      BY <2>2, <2>3, <2>8
    <3> QED BY <2>5, <2>6, <2>8, <3>1 DEF CutsInv
  <2> QED BY <2>7, <2>8
<1>9. CASE Commit
  <2>1. UNCHANGED <<step, reason, boundaries, cuts>>
    BY <1>9 DEF Commit, walk, answer, query, report, cuts
  <2> QED BY <2>1 DEF cuts, CutsInv
<1>10. CASE Ended \/ UNCHANGED allVars
  <2>1. UNCHANGED <<step, reason, boundaries, cuts>>
    BY <1>10 DEF Ended, allVars, vars, answer, query, report
  <2> QED BY <2>1 DEF cuts, CutsInv
<1> QED
  BY <1>1, <1>2, <1>3, <1>4, <1>5, <1>6, <1>7, <1>8, <1>9, <1>10 DEF QueryNext

\* An answer is marked as truncated exactly if it names something that was
\* left out, nothing that a site left out is dropped, and the reason given is
\* that of every truncated site unless they differ.
THEOREM CutsAreReportedAlways == QuerySpec => []CutsAreReported
<1>1. QueryInit => CutsInv
  BY DEF QueryInit, Init, CutsInv
<1>2. CutsInv => CutsAreReported
  <2> SUFFICES ASSUME CutsInv, step = "done" PROVE CutsAreReported
    BY DEF CutsAreReported
  <2> USE DEF CutsInv
  <2>1. IsFiniteSet(reasons)
    <3>1. IsFiniteSet({"node_budget"} \cup {"depth_budget"})
      BY FS_Singleton, FS_AddElement
    <3>2. reasons \subseteq {"node_budget"} \cup {"depth_budget"}
      OBVIOUS
    <3> QED BY <3>1, <3>2, FS_Subset
  <2>2. CASE reasons = {}
    BY <2>2 DEF CutsAreReported, Reason
  <2>3. CASE \E r : reasons = {r}
    <3>1. PICK r : reasons = {r}
      BY <2>3
    <3>2. Cardinality(reasons) = 1
      BY <3>1, FS_Singleton
    <3>3. Reason = r
      BY <3>1, <3>2 DEF Reason
    <3> QED BY <3>1, <3>3 DEF CutsAreReported
  <2>4. CASE reasons = {"node_budget", "depth_budget"}
    <3>1. Cardinality(reasons) # 1
      BY <2>1, <2>4, FS_Singleton
    <3>2. Reason = "per_sink_budget"
      BY <2>4, <3>1 DEF Reason
    <3> QED BY <2>4, <3>2 DEF CutsAreReported
  <2>5. reasons \subseteq {"node_budget", "depth_budget"}
    OBVIOUS
  <2> HIDE DEF CutsInv
  <2>6. reasons = {} \/ (\E r : reasons = {r})
                \/ reasons = {"node_budget", "depth_budget"}
    <3>1. CASE "node_budget" \in reasons /\ "depth_budget" \in reasons
      BY <2>5, <3>1
    <3>2. CASE "node_budget" \notin reasons
      <4>1. reasons \subseteq {"depth_budget"}
        BY <2>5, <3>2
      <4> QED BY <4>1
    <3>3. CASE "depth_budget" \notin reasons
      <4>1. reasons \subseteq {"node_budget"}
        BY <2>5, <3>3
      <4> QED BY <4>1
    <3> QED BY <3>1, <3>2, <3>3
  <2> QED BY <2>2, <2>3, <2>4, <2>6
<1> QED BY <1>1, <1>2, CutsStep, PTL DEF QuerySpec
-----------------------------------------------------------------------------
\* The handles that have an ordinal.
Ordinary == {Ordinals[i] : i \in 1..Len(Ordinals)}

\* Putting a set in the order of the ordinals loses none of those that have
\* one: the recursion has a solution, by the least number for which it had
\* none.
LEMMA InOrderIsThoseWithAnOrdinal ==
  ASSUME NEW S
  PROVE  /\ InOrder(S) \in Seq(Nodes)
         /\ {InOrder(S)[i] : i \in 1..Len(InOrder(S))} = S \cap Ordinary
<1> DEFINE n == Len(Ordinals)
           Then(s, i) == IF Ordinals[i] \in S THEN Append(s, Ordinals[i]) ELSE s
           Upto(f, m) == /\ f \in [0..m -> Seq(Nodes)]
                         /\ f[0] = <<>>
                         /\ \A i \in 1..m : f[i] = Then(f[i - 1], i)
           upTo[i \in 0..n] ==
               IF i = 0 THEN <<>>
               ELSE IF Ordinals[i] \in S THEN Append(upTo[i - 1], Ordinals[i])
               ELSE upTo[i - 1]
<1>0. n \in Nat /\ \A i \in 1..n : Ordinals[i] \in Nodes
  BY QueriesConstants
<1>1. ASSUME NEW s \in Seq(Nodes), NEW i \in 1..n PROVE Then(s, i) \in Seq(Nodes)
  BY <1>0, <1>1
<1> HIDE DEF n, Then, upTo
<1>2. \A m \in 0..n : \E f : Upto(f, m)
  <2> DEFINE T == {m \in 0..n : ~\E f : Upto(f, m)}
  <2>1. SUFFICES ASSUME T # {} PROVE FALSE
    OBVIOUS
  <2>2. T \in SUBSET Nat
    BY <1>0
  <2> HIDE DEF Upto
  <2>3. PICK m \in T : \A k \in T : m <= k
    <3> HIDE DEF T
    <3> QED
      BY <2>1, <2>2, LeastNumber
  <2> USE DEF Upto
  <2>4. CASE m = 0
    <3> DEFINE f == [i \in 0..0 |-> <<>>]
    <3>1. Upto(f, 0)
      OBVIOUS
    <3> QED
      BY <2>3, <2>4, <3>1
  <2>5. CASE m # 0
    <3>0. m \in 1..n /\ m - 1 \in 0..n /\ (m - 1) + 1 = m /\ ~(m <= m - 1)
      BY <1>0, <2>3, <2>5
    <3>1. m \in 1..n /\ m - 1 \in 0..n /\ (m - 1) + 1 = m /\ m - 1 \notin T
      <4> HIDE DEF T
      <4> QED
        BY <2>3, <3>0
    <3>2. PICK g : Upto(g, m - 1)
      <4> HIDE DEF Upto
      <4> QED
        BY <3>1
    <3> DEFINE f == [i \in 0..m |-> IF i = m THEN Then(g[m - 1], m) ELSE g[i]]
    <3>3. f \in [0..m -> Seq(Nodes)]
      <4>1. g[m - 1] \in Seq(Nodes) /\ Then(g[m - 1], m) \in Seq(Nodes)
        BY <1>1, <3>1, <3>2
      <4>2. \A i \in 0..m : i # m => i \in 0..(m - 1)
        BY <3>1
      <4> QED
        BY <3>2, <4>1, <4>2
    <3>4. f[0] = <<>>
      BY <3>1, <3>2
    <3>5. ASSUME NEW i \in 1..m PROVE f[i] = Then(f[i - 1], i)
      <4>1. CASE i = m
        BY <3>1, <4>1
      <4>2. CASE i # m
        <5>1. i \in 1..(m - 1) /\ i \in 0..m /\ i - 1 \in 0..m /\ i - 1 # m
          BY <3>1, <4>2
        <5>2. f[i] = g[i] /\ f[i - 1] = g[i - 1]
          BY <4>2, <5>1
        <5> QED
          BY <3>2, <5>1, <5>2
      <4> QED
        BY <4>1, <4>2
    <3> HIDE DEF f
    <3>6. Upto(f, m)
      BY <3>3, <3>4, <3>5
    <3> QED
      BY <2>3, <3>6
  <2> QED
    BY <2>4, <2>5
<1>3. PICK g : Upto(g, n)
  <2>1. n \in 0..n
    BY <1>0
  <2> HIDE DEF Upto
  <2> QED
    BY <1>2, <2>1
<1>4. g = [i \in 0..n |->
             IF i = 0 THEN <<>>
             ELSE IF Ordinals[i] \in S THEN Append(g[i - 1], Ordinals[i])
             ELSE g[i - 1]]
  <2>1. ASSUME NEW i \in 0..n
        PROVE  g[i] = IF i = 0 THEN <<>>
                      ELSE IF Ordinals[i] \in S THEN Append(g[i - 1], Ordinals[i])
                      ELSE g[i - 1]
    <3>1. i = 0 \/ i \in 1..n
      BY <1>0
    <3> QED
      BY <1>3, <3>1 DEF Then
  <2> QED
    BY <1>3, <2>1
<1>5. upTo = [i \in 0..n |->
             IF i = 0 THEN <<>>
             ELSE IF Ordinals[i] \in S THEN Append(upTo[i - 1], Ordinals[i])
             ELSE upTo[i - 1]]
  <2> HIDE DEF Upto
  <2> QED
    BY <1>4, Zenon DEF upTo
<1>6. InOrder(S) = upTo[n]
  BY DEF InOrder, upTo, n
<1>7. /\ upTo[0] = <<>>
      /\ \A i \in 1..n : upTo[i] = Then(upTo[i - 1], i)
  <2>1. upTo[0] = <<>>
    BY <1>0, <1>5
  <2>2. ASSUME NEW i \in 1..n PROVE upTo[i] = Then(upTo[i - 1], i)
    <3>1. i \in 0..n /\ i # 0
      BY <1>0
    <3> QED
      BY <1>5, <3>1 DEF Then
  <2> QED
    BY <2>1, <2>2
<1> DEFINE Good(m) == /\ upTo[m] \in Seq(Nodes)
                      /\ {upTo[m][i] : i \in 1..Len(upTo[m])} = S \cap {Ordinals[i] : i \in 1..m}
<1>8. \A m \in 0..n : Good(m)
  <2> DEFINE T == {m \in 0..n : ~Good(m)}
  <2>1. SUFFICES ASSUME T # {} PROVE FALSE
    OBVIOUS
  <2>2. T \in SUBSET Nat
    BY <1>0
  <2> HIDE DEF Good
  <2>3. PICK m \in T : \A k \in T : m <= k
    <3> HIDE DEF T
    <3> QED
      BY <2>1, <2>2, LeastNumber
  <2>4. CASE m = 0
    <3>1. upTo[m] = <<>> /\ 1..m = {}
      BY <1>7, <2>4
    <3>2. upTo[m] \in Seq(Nodes) /\ 1..Len(upTo[m]) = {}
      BY <3>1
    <3>3. Good(m)
      BY <3>1, <3>2 DEF Good
    <3> QED
      BY <2>3, <3>3
  <2>5. CASE m # 0
    <3>1. m \in 1..n /\ m - 1 \in 0..n /\ m - 1 \notin T
      BY <1>0, <2>3, <2>5
    <3>2. Good(m - 1)
      BY <3>1
    <3> DEFINE s == upTo[m - 1]
    <3>3. s \in Seq(Nodes) /\ {s[i] : i \in 1..Len(s)} = S \cap {Ordinals[i] : i \in 1..(m - 1)}
      BY <3>2 DEF Good
    <3>4. upTo[m] = Then(s, m)
      BY <1>7, <3>1
    <3>5. {Ordinals[i] : i \in 1..m} = {Ordinals[i] : i \in 1..(m - 1)} \cup {Ordinals[m]}
      <4>1. 1..m = 1..(m - 1) \cup {m}
        BY <3>1
      <4> QED
        BY <4>1
    <3> HIDE DEF s
    <3>6. CASE Ordinals[m] \in S
      <4>1. upTo[m] = Append(s, Ordinals[m]) /\ Ordinals[m] \in Nodes
        BY <1>0, <3>1, <3>4, <3>6 DEF Then
      <4>2. /\ Len(s) \in Nat /\ Len(upTo[m]) = Len(s) + 1 /\ upTo[m] \in Seq(Nodes)
            /\ upTo[m][Len(s) + 1] = Ordinals[m]
            /\ \A i \in 1..Len(s) : upTo[m][i] = s[i]
        BY <3>3, <4>1
      <4>3. 1..(Len(s) + 1) = 1..Len(s) \cup {Len(s) + 1}
        BY <4>2
      <4>4. {upTo[m][i] : i \in 1..Len(upTo[m])} = {s[i] : i \in 1..Len(s)} \cup {Ordinals[m]}
        BY <4>2, <4>3
      <4> QED
        BY <2>3, <3>3, <3>5, <3>6, <4>2, <4>4 DEF Good
    <3>7. CASE Ordinals[m] \notin S
      <4>1. upTo[m] = s
        BY <3>4, <3>7 DEF Then
      <4> QED
        BY <2>3, <3>3, <3>5, <3>7, <4>1 DEF Good
    <3> QED
      BY <3>6, <3>7
  <2> QED
    BY <2>4, <2>5
<1>9. Good(n)
  BY <1>0, <1>8
<1> QED
  BY <1>6, <1>9 DEF Ordinary, n
-----------------------------------------------------------------------------
\* The invariants of module SliceProofs, of whichever walk the command is at.
WalkInv == WalkTypes /\ Linked /\ Covered /\ Fetched

\* A walk starts as a slice does, from any node and at any time.
LEMMA StartOfAWalk ==
  ASSUME WalkInv, NEW n \in Nodes, StartWalk(n), UNCHANGED database
  PROVE  WalkInv'
<1>0. /\ request'.target = n /\ pc' = "walk"
      /\ queue' = <<[node |-> n, depth |-> 0]>> /\ at' = [node |-> n, depth |-> 0]
      /\ rows' = {} /\ seen' = {} /\ known' = {n} /\ selected' = {}
      /\ boundaries' = {} /\ reason' = "none" /\ nodes' = {}
      /\ UNCHANGED <<relations, entities, generation>>
  BY DEF StartWalk, database
<1>1. WalkTypes'
  <2>1. [node |-> n, depth |-> 0] \in Place
    BY DEF Place
  <2> QED
    BY <1>0, <2>1 DEF WalkInv, WalkTypes, Endpoints
<1>2. Linked'
  BY <1>0 DEF Linked, AnswerIsConnected
<1>3. n \in Waiting'
  <2>1. Len(queue') = 1 /\ queue'[1].node = n
    BY <1>0
  <2> QED
    BY <2>1 DEF Waiting
<1>4. Covered'
  BY <1>0, <1>3 DEF Covered
<1>5. Fetched'
  BY <1>0 DEF WalkInv, Fetched, Undisturbed
<1> QED
  BY <1>1, <1>2, <1>4, <1>5 DEF WalkInv

\* What module Slice says of every step of a walk.
LEMMA StepOfTheWalk ==
  ASSUME WalkInv, [Next]_vars
  PROVE  WalkInv'
BY WalkTypesStep, LinkedStep, CoveredStep, FetchedStep DEF WalkInv

\* A commit leaves the walk alone, and ends what is said of undisturbed ones.
LEMMA CommitDuringAQuery ==
  ASSUME WalkInv, NewSnapshot, UNCHANGED walk
  PROVE  WalkInv' /\ ~Undisturbed'
<1>0. /\ UNCHANGED <<request, pc, queue, at, rows, seen, known, selected, boundaries,
                     reason, nodes>>
      /\ generation' = generation + 1 /\ generation \in Nat
  BY DEF NewSnapshot, walk, answer, WalkInv, WalkTypes
<1>1. ~Undisturbed'
  BY <1>0 DEF Undisturbed
<1>2. WalkTypes'
  <2>1. relations' \in Graphs /\ Endpoints(relations') \subseteq Nodes
    BY SliceConstants DEF NewSnapshot, Endpoints, Relation
  <2>2. Endpoints(relations')  \subseteq entities' /\ entities' \subseteq Nodes
    BY <2>1 DEF NewSnapshot
  <2> QED
    BY <1>0, <2>1, <2>2 DEF WalkInv, WalkTypes, Endpoints
<1>3. Linked'
  BY <1>0 DEF WalkInv, Linked, AnswerIsConnected, Near, Far
<1> QED
  BY <1>0, <1>1, <1>2, <1>3 DEF WalkInv, Covered, Fetched

\* So it holds of the walks within these commands.
LEMMA WalkInvStep ==
  ASSUME WalkInv, [QueryNext]_allVars
  PROVE  WalkInv'
<1>1. CASE UNCHANGED vars
  BY <1>1, StepOfTheWalk
<1>2. CASE BeginSite
  <2>1. Head(sinks) \in Nodes
    BY <1>2 DEF BeginSite, WalkInv, WalkTypes
  <2> QED
    BY <1>2, <2>1, StartOfAWalk DEF BeginSite
<1>3. CASE ReadRelations \/ LookAtRelation \/ EndSlice
  <2>1. Next
    BY <1>3 DEF ReadRelations, LookAtRelation, EndSlice, Next, Walk
  <2> QED
    BY <2>1, StepOfTheWalk
<1>4. CASE Commit
  BY <1>4, CommitDuringAQuery DEF Commit
<1>5. \/ UNCHANGED vars \/ BeginSite \/ ReadRelations \/ LookAtRelation \/ EndSlice
      \/ Commit
  BY
  DEF QueryNext, ListSinks, InspectReturn, CountStores, Locate, ReadCalls,
      EndSite, AllSitesTraced, Show, ListPage, NotFound, Ended, allVars
<1> QED
  BY <1>1, <1>2, <1>3, <1>4, <1>5

\* The commands that list; and where a command is within the slice of a site.
Listings == {"uses", "children"}
AtSite ==
    \/ step \in {"walk", "calls"}
    \/ step = "locate" /\ asked.command \in Traces

\* Where a command is, and what it has then.
Shape ==
    /\ asked \in Requests
    /\ sinks \in Seq(Nodes)
    /\ step \in {"start", "channel", "sites", "walk", "locate", "calls", "done", "failed"}
    /\ step = "start" => sinks = <<>> /\ sites = {} /\ delivered = {}
    /\ step = "channel" => asked.command = "trace-return"
    /\ step \in {"sites", "walk", "locate", "calls"} => asked.command \notin Listings
    /\ step = "done" => sinks = <<>>
    /\ step \in {"walk", "locate", "calls"} => sinks # <<>>
    /\ AtSite => request.target = Head(sinks) /\ request.direction = "backward"
    /\ sites # {} => request.direction = "backward"
    /\ AtSite /\ step # "walk" => pc = "done"

\* Every command goes through its steps in order.
LEMMA ShapeStep ==
  ASSUME WalkInv, Shape, [QueryNext]_allVars
  PROVE  Shape'
<1> USE DEF Shape, AtSite
<1>1. CASE ListSinks
  <2>1. sinks' \in Seq(Nodes) /\ step' \in {"channel", "sites"}
    BY <1>1, InOrderIsThoseWithAnOrdinal DEF ListSinks
  <2>2. /\ asked' = asked /\ step = "start" /\ sites' = sites /\ sites = {}
        /\ asked.command \in Traces
        /\ step' = "channel" => asked.command = "trace-return"
    BY <1>1 DEF ListSinks, report, cuts
  <2> QED
    BY <2>1, <2>2 DEF Traces, Listings
<1>2. CASE InspectReturn \/ CountStores
  <2>1. /\ step = "channel" /\ step' \in {"channel", "sites"}
        /\ UNCHANGED <<vars, asked, sinks, sites>>
    BY <1>2 DEF InspectReturn, CountStores, report, cuts
  <2> QED
    BY <2>1 DEF vars, Listings
<1>3. CASE BeginSite
  <2>1. /\ step = "sites" /\ step' = "walk" /\ sinks # <<>>
        /\ UNCHANGED <<asked, sinks, sites>>
        /\ request'.target = Head(sinks) /\ request'.direction = "backward"
    BY <1>3 DEF BeginSite, StartWalk, report, cuts
  <2> QED
    BY <2>1
<1>4. CASE ReadRelations \/ LookAtRelation
  <2>1. /\ step = "walk" /\ step' = step /\ UNCHANGED <<asked, sinks, sites, request>>
    BY <1>4 DEF ReadRelations, LookAtRelation, Visit, Look, report, cuts
  <2> QED
    BY <2>1
<1>5. CASE EndSlice
  <2>1. /\ step = "walk" /\ UNCHANGED <<asked, sinks, sites, request>>
        /\ pc' = "done"
        /\ step' = IF asked.command \in Traces THEN "locate" ELSE "calls"
    BY <1>5 DEF EndSlice, FetchEntities, report, cuts
  <2> QED
    BY <2>1
<1>6. CASE Locate
  <2>1. /\ step = "locate" /\ UNCHANGED <<asked, sinks, sites, request, pc>>
        /\ step' = IF asked.command \in Traces THEN "calls" ELSE "sites"
    BY <1>6 DEF Locate, vars, cuts
  <2> QED
    BY <2>1
<1>7. CASE ReadCalls
  <2>1. step = "calls" /\ step' = step /\ UNCHANGED <<asked, sinks, sites, request, pc>>
    BY <1>7 DEF ReadCalls, vars, cuts
  <2> QED
    BY <2>1
<1>8. CASE EndSite
  <2>1. /\ step = "calls" /\ step' = "sites" /\ UNCHANGED <<asked, request>>
        /\ sinks' = Tail(sinks)
    BY <1>8 DEF EndSite, vars
  <2>2. sinks' \in Seq(Nodes)
    <3>1. sinks \in Seq(Nodes)
      OBVIOUS
    <3>2. sinks # <<>>
      BY <2>1, Zenon
    <3> HIDE DEF Shape
    <3> QED
      BY <2>1, <3>1, <3>2
  <2>3. AtSite
    BY <2>1
  <2>4. request.direction = "backward"
    BY <2>3
  <2>5. asked.command \notin Listings /\ asked \in Requests
    BY <2>1
  <2> QED
    BY <2>1, <2>2, <2>4, <2>5
<1>9. CASE AllSitesTraced
  <2>1. /\ step = "sites" /\ step' = "done" /\ UNCHANGED <<asked, sinks, sites, request>>
        /\ sinks = <<>>
    BY <1>9 DEF AllSitesTraced, vars, report, cuts
  <2> QED
    BY <2>1
<1>10. CASE Show
  <2>1. /\ step = "start" /\ step' = "locate" /\ UNCHANGED <<asked, sites, request>>
        /\ sinks' = <<asked.target>> /\ asked.target \in Nodes
        /\ asked.command = "context"
    BY <1>10 DEF Show, vars, cuts, WalkInv, WalkTypes
  <2>2. sinks' \in Seq(Nodes) /\ sinks' # <<>>
    BY <2>1
  <2> QED
    BY <2>1, <2>2 DEF Traces, Listings
<1>11. CASE ListPage
  <2>1. step = "start" /\ step' = "done" /\ UNCHANGED <<asked, sinks, sites, request>>
    BY <1>11 DEF ListPage, vars
  <2> QED
    BY <2>1
<1>12. CASE NotFound
  <2>1. step' = "failed" /\ UNCHANGED <<asked, sinks, sites, request>>
    BY <1>12 DEF NotFound, vars, report, cuts
  <2> QED
    BY <2>1
<1>13. CASE Commit \/ Ended \/ UNCHANGED allVars
  <2>1. UNCHANGED <<asked, step, sinks, sites, delivered, request, pc>>
    BY <1>13 DEF Commit, Ended, allVars, walk, vars, query, report, cuts
  <2> QED
    BY <2>1
<1> QED
  BY <1>1, <1>2, <1>3, <1>4, <1>5, <1>6, <1>7, <1>8, <1>9, <1>10, <1>11, <1>12,
     <1>13
     DEF QueryNext
-----------------------------------------------------------------------------
\* The sinks that wait, those that are in the answer, the commands that walk.
Sinks == {sinks[i] : i \in 1..Len(sinks)}
TracedSinks == {site.sink : site \in sites}
Walked == Traces \cup {"context"}

\* As long as nothing is committed the database stays as it is.
LEMMA QuietSteps ==
  ASSUME WalkInv, [QueryNext]_allVars, Undisturbed'
  PROVE  Undisturbed /\ UNCHANGED database
<1>1. CASE Commit
  BY <1>1, CommitDuringAQuery DEF Commit
<1>2. CASE ~Commit
  <2>1. UNCHANGED database
    BY <1>2
    DEF QueryNext, vars, allVars, ListSinks, InspectReturn, CountStores,
        BeginSite, ReadRelations, LookAtRelation, EndSlice, Locate, ReadCalls,
        EndSite, AllSitesTraced, Show, ListPage, NotFound, Ended, Visit, Look,
        FetchEntities
  <2> QED
    BY <2>1 DEF database, Undisturbed
<1> QED
  BY <1>1, <1>2

\* Taking the first of the sinks away leaves the others.
LEMMA FirstOfTheSinks ==
  ASSUME sinks \in Seq(Nodes), sinks # <<>>
  PROVE  /\ Head(sinks) \in Sinks
         /\ Sinks = {Head(sinks)} \cup
                      {Tail(sinks)[i] : i \in 1..Len(Tail(sinks))}
<1>1. /\ Len(sinks) \in Nat /\ Len(sinks) >= 1 /\ Head(sinks) = sinks[1]
      /\ Len(Tail(sinks)) = Len(sinks) - 1
      /\ \A i \in 1..Len(Tail(sinks)) : Tail(sinks)[i] = sinks[i + 1]
  OBVIOUS
<1>2. ASSUME NEW i \in 1..Len(sinks)
      PROVE  \/ sinks[i] = Head(sinks)
             \/ \E j \in 1..Len(Tail(sinks)) : sinks[i] = Tail(sinks)[j]
  <2>1. CASE i = 1
    BY <1>1, <2>1
  <2>2. CASE i # 1
    <3>1. i - 1 \in 1..Len(Tail(sinks)) /\ (i - 1) + 1 = i
      BY <1>1, <2>2
    <3>2. sinks[i] = Tail(sinks)[i - 1]
      BY <1>1, <3>1
    <3> QED
      BY <3>1, <3>2
  <2> QED
    BY <2>1, <2>2
<1>3. ASSUME NEW j \in 1..Len(Tail(sinks))
      PROVE  \E i \in 1..Len(sinks) : Tail(sinks)[j] = sinks[i]
  <2>1. j + 1 \in 1..Len(sinks)
    BY <1>1
  <2> QED
    BY <1>1, <2>1
<1>4. Head(sinks) \in Sinks
  <2>1. 1 \in 1..Len(sinks)
    BY <1>1
  <2> QED
    BY <1>1, <2>1 DEF Sinks
<1> DEFINE Rest == {Tail(sinks)[i] : i \in 1..Len(Tail(sinks))}
<1>5. Sinks \subseteq {Head(sinks)} \cup Rest
  BY <1>2 DEF Sinks
<1>6. Rest \subseteq Sinks
  BY <1>3 DEF Sinks
<1> QED
  BY <1>4, <1>5, <1>6

\* Every site that is wanted has been traced or waits for it.
Tracked ==
    Undisturbed /\ asked.command \in Walked /\ step \notin {"start", "failed"} =>
        Wanted = TracedSinks \cup Sinks

\* Every sink that is asked for is listed, and leaves the list when its site
\* is in the answer.
LEMMA TrackedStep ==
  ASSUME WalkInv, Shape, Tracked, [QueryNext]_allVars
  PROVE  Tracked'
<1> SUFFICES ASSUME Undisturbed', asked'.command \in Walked,
                    step' \notin {"start", "failed"}
             PROVE  Wanted' = TracedSinks' \cup Sinks'
  BY DEF Tracked
<1>0. Undisturbed /\ UNCHANGED database /\ entities = Nodes
  BY QuietSteps DEF WalkInv, Fetched
<1>1. CASE ListSinks
  <2>1. /\ asked' = asked /\ asked.command \in Traces /\ sites' = sites /\ sites = {}
        /\ sinks' = InOrder({n \in entities : /\ Opcode[n] = SinkOpcode
                                              /\ asked.target \in {All, n}})
    BY <1>1 DEF ListSinks, report, cuts, Shape
  <2> DEFINE W == {n \in Nodes : Opcode[n] = SinkOpcode /\ asked.target \in {All, n}}
  <2>2. Wanted = W /\ Wanted' = W /\ sinks' = InOrder(W)
    BY <1>0, <2>1 DEF Wanted, SinkOpcode
  <2>3. W \subseteq Ordinary
    <3>1. SinkOpcode # "other"
      BY DEF SinkOpcode
    <3>2. {n \in Nodes : Opcode[n] # "other"} \subseteq Ordinary
      BY QueriesConstants DEF ToSet, Ordinary
    <3> QED
      BY <3>1, <3>2
  <2> HIDE DEF W
  <2>4. Sinks' = W
    BY <2>2, <2>3, InOrderIsThoseWithAnOrdinal DEF Sinks
  <2>5. TracedSinks' = {}
    BY <2>1 DEF TracedSinks
  <2> QED
    BY <2>2, <2>4, <2>5
<1>2. CASE EndSite
  <2>1. /\ asked' = asked /\ step = "calls" /\ sites' = sites \cup {Site}
        /\ sinks' = Tail(sinks) /\ Site.sink = Head(sinks)
    BY <1>2 DEF EndSite, Site
  <2>2. Wanted' = Wanted /\ Wanted = TracedSinks \cup Sinks
    BY <1>0, <2>1 DEF Tracked, Wanted, SinkOpcode
  <2>3. sinks \in Seq(Nodes) /\ sinks # <<>>
    <3>1. sinks \in Seq(Nodes)
      BY DEF Shape
    <3>2. sinks # <<>>
      BY <2>1, Zenon DEF Shape
    <3> QED
      BY <3>1, <3>2
  <2>4. TracedSinks' = TracedSinks \cup {Head(sinks)}
    BY <2>1 DEF TracedSinks
  <2>5. Sinks = {Head(sinks)} \cup Sinks'
    BY <2>1, <2>3, FirstOfTheSinks DEF Sinks
  <2> QED
    BY <2>2, <2>4, <2>5
<1>3. CASE Show
  <2>1. /\ asked' = asked /\ asked.command = "context" /\ sites' = sites /\ sites = {}
        /\ sinks' = <<asked.target>>
    BY <1>3 DEF Show, cuts, Shape
  <2>2. Sinks' = {asked.target}
    <3>1. Len(sinks') = 1 /\ sinks'[1] = asked.target /\ 1..1 = {1}
      BY <2>1
    <3> QED
      BY <3>1 DEF Sinks
  <2>3. Wanted' = {asked.target} /\ TracedSinks' = {}
    BY <2>1 DEF Wanted, TracedSinks, Traces
  <2> QED
    BY <2>2, <2>3
<1>4. CASE ListPage
  <2>1. asked' = asked /\ asked.command \in {"uses", "children"}
    BY <1>4 DEF ListPage
  <2> QED
    BY <2>1 DEF Walked, Traces
<1>5. CASE ~(ListSinks \/ EndSite \/ Show \/ ListPage)
  <2>1. /\ UNCHANGED <<asked, sinks, sites>>
        /\ step \notin {"start", "failed"}
    <3>1. step' \in {step, "failed"} \/ step \notin {"start", "failed"}
      BY <1>5
      DEF QueryNext, allVars, query, InspectReturn, CountStores, BeginSite,
          ReadRelations, LookAtRelation, EndSlice, Locate, ReadCalls,
          AllSitesTraced, NotFound, Commit, Ended
    <3>2. UNCHANGED <<asked, sinks, sites>>
      BY <1>5
      DEF QueryNext, allVars, query, report, cuts, InspectReturn, CountStores,
          BeginSite, ReadRelations, LookAtRelation, EndSlice, Locate, ReadCalls,
          AllSitesTraced, NotFound, Commit, Ended
    <3> QED
      BY <3>1, <3>2
  <2>2. Wanted' = Wanted
    BY <2>1 DEF Wanted, SinkOpcode
  <2> QED
    BY <1>0, <2>1, <2>2 DEF Tracked, TracedSinks, Sinks
<1> QED
  BY <1>1, <1>2, <1>3, <1>4, <1>5

\* What relations lead to, backwards.
Grows(S) == \A e \in relations : e.src \in S => e.dst \in S

\* The answer so far is what the traced sites lead to.
Gathered ==
    Undisturbed /\ asked.command \in Walked /\ left = {} =>
        /\ TracedSinks \subseteq delivered /\ delivered \subseteq Nodes
        /\ Grows(delivered)
        /\ \A S \in SUBSET Nodes : TracedSinks \subseteq S /\ Grows(S) => delivered \subseteq S

\* A site whose walk is not cut adds all that its sink leads to, and no more.
LEMMA GatheredStep ==
  ASSUME WalkInv, Shape, CutsInv, Gathered, [QueryNext]_allVars
  PROVE  Gathered'
<1> SUFFICES ASSUME Undisturbed', asked'.command \in Walked, left' = {}
             PROVE  /\ TracedSinks' \subseteq delivered' /\ delivered' \subseteq Nodes
                    /\ Grows(delivered)'
                    /\ \A S \in SUBSET Nodes :
                          TracedSinks' \subseteq S /\ Grows(S)' => delivered' \subseteq S
  BY DEF Gathered
<1>0. Undisturbed /\ relations' = relations /\ entities = Nodes
  BY QuietSteps DEF WalkInv, Fetched, database
<1>1. CASE EndSite
  <2>1. /\ asked' = asked /\ step = "calls" /\ sites' = sites \cup {Site}
        /\ delivered' = delivered \cup nodes /\ left' = left \cup boundaries
        /\ Site.sink = Head(sinks)
    BY <1>1 DEF EndSite, Site
  <2>2. left = {} /\ boundaries = {}
    BY <2>1
  <2>3. /\ TracedSinks \subseteq delivered /\ delivered \subseteq Nodes
        /\ Grows(delivered)
        /\ \A S \in SUBSET Nodes : TracedSinks \subseteq S /\ Grows(S) => delivered \subseteq S
    BY <1>0, <2>1, <2>2 DEF Gathered
  <2>4. AtSite
    BY <2>1 DEF AtSite
  <2>5. request.target = Head(sinks) /\ request.direction = "backward" /\ pc = "done"
    BY <2>1, <2>4 DEF Shape
  <2>6. nodes = Reachable
    BY <1>0, <2>2, <2>5, CoveredIsComplete
    DEF WalkInv, UntruncatedIsComplete, Fetched
  <2>7. ASSUME NEW S PROVE Closed(S) <=> Grows(S)
    BY <2>5 DEF Closed, Grows, Near, Far
  <2>8. request.target \in Nodes /\ relations \subseteq Relation
    BY SliceConstants DEF WalkInv, WalkTypes
  <2>9. Head(sinks) \in nodes /\ nodes \subseteq Nodes
    BY <2>5, <2>6, <2>8 DEF Reachable
  <2>10. Grows(nodes)
    <3> SUFFICES ASSUME NEW e \in relations, e.src \in Reachable
                 PROVE  e.dst \in Reachable
      BY <2>6 DEF Grows
    <3>1. e.dst \in Nodes
      BY <2>8 DEF Relation
    <3>2. ASSUME NEW S \in SUBSET Nodes, request.target \in S, Closed(S)
          PROVE  e.dst \in S
      <4>1. e.src \in S /\ Grows(S)
        BY <2>7, <3>2 DEF Reachable
      <4> QED
        BY <4>1 DEF Grows
    <3> QED
      BY <3>1, <3>2 DEF Reachable
  <2>11. ASSUME NEW S \in SUBSET Nodes, Head(sinks) \in S, Grows(S)
         PROVE  nodes \subseteq S
    BY <2>5, <2>6, <2>7, <2>11 DEF Reachable
  <2>12. TracedSinks' = TracedSinks \cup {Head(sinks)}
    BY <2>1 DEF TracedSinks
  <2>13. \A S : Grows(S)' <=> Grows(S)
    BY <1>0 DEF Grows
  <2>14. Grows(delivered')
    BY <2>1, <2>3, <2>10 DEF Grows
  <2>15. Grows(delivered)'
    BY <1>0, <2>14 DEF Grows
  <2> QED
    BY <2>1, <2>3, <2>9, <2>11, <2>12, <2>13, <2>15
<1>2. CASE ListPage
  <2>1. asked' = asked /\ asked.command \in {"uses", "children"}
    BY <1>2 DEF ListPage
  <2> QED
    BY <2>1 DEF Walked, Traces
<1>3. CASE ~(EndSite \/ ListPage)
  <2>1. UNCHANGED <<asked, sites, delivered, left>>
    BY <1>3
    DEF QueryNext, allVars, query, report, cuts, ListSinks, InspectReturn,
        CountStores, BeginSite, ReadRelations, LookAtRelation, EndSlice, Locate,
        ReadCalls, Show, AllSitesTraced, NotFound, Commit, Ended
  <2>2. TracedSinks' = TracedSinks
    BY <2>1 DEF TracedSinks
  <2> QED
    BY <1>0, <2>1, <2>2 DEF Gathered, Grows
<1> QED
  BY <1>1, <1>2, <1>3

\* Every call of the answer is cited with each of the functions it names.
Cites(n) == Opcode[n] = "call" => \A f \in Callees[n] : Row(n, f) \in cited

CallsCited ==
    Undisturbed /\ asked.command \in Traces =>
        /\ \A n \in delivered : Cites(n)
        /\ step = "calls" => \A n \in nodes : Cites(n) \/ n \in todo

\* Every call is asked about before its site ends.
LEMMA CallsCitedStep ==
  ASSUME WalkInv, Shape, CallsCited, [QueryNext]_allVars
  PROVE  CallsCited'
<1> SUFFICES ASSUME Undisturbed', asked'.command \in Traces
             PROVE  /\ \A n \in delivered' : Cites(n)'
                    /\ step' = "calls" => \A n \in nodes' : Cites(n)' \/ n \in todo'
  BY DEF CallsCited
<1>0. Undisturbed /\ generation' = generation /\ entities = Nodes
  BY QuietSteps DEF WalkInv, Fetched, database
<1>1. ASSUME cited \subseteq cited' PROVE \A n : Cites(n) => Cites(n)'
  BY <1>0, <1>1 DEF Cites, Row
<1>2. CASE ListPage \/ Show
  <2>1. asked' = asked /\ asked.command \in {"uses", "children", "context"}
    BY <1>2 DEF ListPage, Show
  <2> QED
    BY <2>1 DEF Traces
<1>3. CASE EndSite
  <2>1. /\ asked' = asked /\ step = "calls" /\ todo = {} /\ step' = "sites"
        /\ delivered' = delivered \cup nodes /\ cited' = cited
    BY <1>3 DEF EndSite
  <2> QED
    BY <1>0, <1>1, <2>1 DEF CallsCited
<1>4. CASE Locate
  <2>1. /\ asked' = asked /\ delivered' = delivered /\ cited \subseteq cited'
        /\ nodes' = nodes /\ todo' = {n \in nodes : Opcode[n] = "call"}
    BY <1>4 DEF Locate, vars
  <2> QED
    BY <1>0, <1>1, <2>1 DEF CallsCited, Cites
<1>5. CASE ReadCalls
  <2>1. PICK n \in todo :
           /\ todo' = todo \ {n}
           /\ IF n \in entities /\ Callees[n] # {}
              THEN cited' = cited \cup {Row(n, f) : f \in Callees[n]}
              ELSE cited' = cited
    BY <1>5 DEF ReadCalls
  <2>2. /\ asked' = asked /\ delivered' = delivered /\ nodes' = nodes /\ step = "calls"
    BY <1>5 DEF ReadCalls, vars
  <2>3. cited \subseteq cited'
    BY <2>1
  <2>4. n \in Nodes => Cites(n)'
    <3> SUFFICES ASSUME n \in Nodes, NEW f \in Callees[n]
                 PROVE  Row(n, f) \in cited'
      BY <1>0 DEF Cites, Row
    <3> QED
      BY <1>0, <2>1
  <2>5. nodes \subseteq Nodes
    BY DEF WalkInv, WalkTypes
  <2> QED
    BY <1>0, <1>1, <2>1, <2>2, <2>3, <2>4, <2>5 DEF CallsCited
<1>6. CASE LookAtRelation
  <2>1. /\ asked' = asked /\ delivered' = delivered /\ step' = step /\ step = "walk"
        /\ cited \subseteq cited'
    BY <1>6 DEF LookAtRelation
  <2> QED
    BY <1>0, <1>1, <2>1 DEF CallsCited
<1>7. CASE ListSinks \/ InspectReturn \/ CountStores \/ BeginSite \/ ReadRelations
           \/ EndSlice \/ AllSitesTraced \/ NotFound
  <2>1. UNCHANGED <<asked, delivered, cited>> /\ step' # "calls"
    <3>1. asked.command \notin Traces \/ step' # "calls"
      BY <1>7
      DEF ListSinks, InspectReturn, CountStores, BeginSite, ReadRelations,
          EndSlice, AllSitesTraced, NotFound
    <3>2. UNCHANGED <<asked, delivered, cited>>
      BY <1>7
      DEF report, ListSinks, InspectReturn, CountStores, BeginSite, ReadRelations,
          EndSlice, AllSitesTraced, NotFound
    <3> QED
      BY <3>1, <3>2
  <2> QED
    BY <1>0, <1>1, <2>1 DEF CallsCited
<1>8. CASE Commit \/ Ended \/ UNCHANGED allVars
  <2>1. UNCHANGED <<asked, step, delivered, cited, nodes, todo>>
    BY <1>8 DEF Commit, Ended, allVars, walk, vars, query, report
  <2> QED
    BY <1>0, <1>1, <2>1 DEF CallsCited
<1> QED
  BY <1>2, <1>3, <1>4, <1>5, <1>6, <1>7, <1>8 DEF QueryNext
-----------------------------------------------------------------------------
\* What the returns say about the stores.
Hinted ==
    Undisturbed /\ asked.command = "trace-return" =>
        /\ step = "channel" =>
              /\ todo \subseteq Wanted
              /\ \A n \in Wanted : n \in todo \/ ~ReturnsValue(n)
        /\ step \notin {"start", "channel", "failed"} =>
              \/ \E n \in Wanted : ReturnsValue(n)
              \/ (\E n \in Nodes : Opcode[n] = "store") => hint

\* Stores are counted unless a return has a value.
LEMMA HintedStep ==
  ASSUME WalkInv, Shape, Tracked, Hinted, [QueryNext]_allVars
  PROVE  Hinted'
<1> SUFFICES ASSUME Undisturbed', asked'.command = "trace-return" PROVE Hinted'
  BY DEF Hinted
<1>0. Undisturbed /\ relations' = relations /\ entities = Nodes
  BY QuietSteps DEF WalkInv, Fetched, database
<1>1. \A n : ReturnsValue(n)' <=> ReturnsValue(n)
  BY <1>0 DEF ReturnsValue
<1>2. CASE ListSinks
  <2>1. step' = "channel" /\ todo' = ToSet(sinks')
    BY <1>2 DEF ListSinks
  <2>2. Tracked'
    BY TrackedStep
  <2>3. TracedSinks' = {}
    BY <1>2 DEF ListSinks, Shape, report, cuts, TracedSinks
  <2>4. Wanted' = Sinks'
    BY <2>1, <2>2, <2>3 DEF Tracked, Walked, Traces
  <2>5. ToSet(sinks') = Sinks'
    <3>1. sinks' \in Seq(Nodes)
      BY ShapeStep DEF Shape
    <3>2. DOMAIN sinks' = 1..Len(sinks')
      BY <3>1
    <3> QED
      BY <3>2 DEF ToSet, Sinks
  <2> QED
    BY <2>1, <2>4, <2>5 DEF Hinted
<1>3. CASE InspectReturn
  <2>1. /\ step = "channel" /\ asked' = asked
        /\ \E n \in todo :
              IF ReturnsValue(n) THEN step' = "sites" /\ todo' = {}
              ELSE step' = step /\ todo' = todo \ {n}
    BY <1>3 DEF InspectReturn
  <2>2. PICK n \in todo :
              IF ReturnsValue(n) THEN step' = "sites" /\ todo' = {}
              ELSE step' = step /\ todo' = todo \ {n}
    BY <2>1
  <2>3. Wanted' = Wanted
    BY <2>1 DEF Wanted, SinkOpcode
  <2>4. todo \subseteq Wanted /\ \A m \in Wanted : m \in todo \/ ~ReturnsValue(m)
    BY <1>0, <2>1 DEF Hinted
  <2>5. CASE ReturnsValue(n)
    <3>1. step' = "sites" /\ n \in Wanted
      BY <2>2, <2>4, <2>5
    <3> QED
      BY <1>1, <2>3, <2>5, <3>1 DEF Hinted
  <2>6. CASE ~ReturnsValue(n)
    <3>1. step' = "channel" /\ todo' = todo \ {n}
      BY <2>1, <2>2, <2>6
    <3> QED
      BY <1>1, <2>3, <2>4, <2>6, <3>1 DEF Hinted
  <2> QED
    BY <2>5, <2>6
<1>4. CASE CountStores
  <2>1. step' = "sites" /\ hint' = \E n \in entities : Opcode[n] = "store"
    BY <1>4 DEF CountStores
  <2> QED
    BY <1>0, <2>1 DEF Hinted
<1>5. CASE Show \/ ListPage
  <2>1. asked' = asked /\ asked.command \in {"uses", "children", "context"}
    BY <1>5 DEF Show, ListPage
  <2> QED
    BY <2>1
<1>6. CASE NotFound
  BY <1>6 DEF NotFound, Hinted
<1>7. CASE ~(ListSinks \/ InspectReturn \/ CountStores \/ Show \/ ListPage \/ NotFound)
  <2>1. UNCHANGED <<asked, hint>>
    BY <1>7
    DEF QueryNext, allVars, query, report, cuts, BeginSite, ReadRelations,
        LookAtRelation, EndSlice, Locate, ReadCalls, EndSite, AllSitesTraced,
        Commit, Ended
  <2>2. \/ step' = step /\ (step = "channel" => todo' = todo)
        \/ /\ step \notin {"start", "channel", "failed"}
           /\ step' \notin {"start", "channel", "failed"}
    BY <1>7
    DEF QueryNext, allVars, query, report, cuts, BeginSite, ReadRelations,
        LookAtRelation, EndSlice, Locate, ReadCalls, EndSite, AllSitesTraced,
        Commit, Ended
  <2>3. Wanted' = Wanted
    BY <2>1 DEF Wanted, SinkOpcode
  <2> QED
    BY <1>0, <1>1, <2>1, <2>2, <2>3 DEF Hinted
<1> QED
  BY <1>2, <1>3, <1>4, <1>5, <1>6, <1>7

\* A listing that is not cut has everything.
ListedAll ==
    Undisturbed /\ asked.command \in Listings /\ step = "done" /\ ~truncated =>
        delivered = Everything

\* A page that is not full is the whole list.
LEMMA ListedAllStep ==
  ASSUME WalkInv, Shape, ListedAll, [QueryNext]_allVars
  PROVE  ListedAll'
<1> SUFFICES ASSUME Undisturbed', asked'.command \in Listings, step' = "done", ~truncated'
             PROVE  delivered' = Everything'
  BY DEF ListedAll
<1>0. Undisturbed /\ relations' = relations /\ entities = Nodes
  BY QuietSteps DEF WalkInv, Fetched, database
<1>1. CASE ListPage
  <2> DEFINE S == IF asked.command = "uses"
                  THEN {n \in Nodes : [src |-> n, dst |-> asked.target] \in relations}
                  ELSE {n \in Nodes : Opcode[n] = asked.target}
             max == asked.nodes
             n == Len(Listed)
  <2>1. /\ asked' = asked
        /\ truncated' = (DOMAIN Listed \cap {max + 1} # {})
        /\ delivered' = {Listed[i] : i \in DOMAIN Listed \cap (1 .. max)}
    BY <1>1 DEF ListPage
  <2>2. Listed = InOrder(S)
    BY <1>0 DEF Listed
  <2>3. asked.nodes \in Nat /\ asked \in Requests
    BY QueriesConstants DEF Shape
  <2> HIDE DEF S
  <2>4. Listed \in Seq(Nodes) /\ {Listed[i] : i \in 1..n} = S \cap Ordinary
    BY <2>2, InOrderIsThoseWithAnOrdinal
  <2>5. DOMAIN Listed = 1..n /\ n \in Nat
    BY <2>4
  <2>6. max + 1 \notin 1..n
    BY <1>0, <2>1, <2>5
  <2>7. n <= max /\ DOMAIN Listed \cap (1 .. max) = 1..n
    BY <2>3, <2>5, <2>6
  <2>8. delivered' = S \cap Ordinary
    BY <2>1, <2>4, <2>7
  <2>9. relations \subseteq Relation /\ relations \in Graphs
    BY SliceConstants DEF WalkInv, WalkTypes
  <2>10. CASE asked.command = "uses"
    <3>1. Everything' = {e.src : e \in {e \in relations : e.dst = asked.target}}
      BY <1>0, <2>1, <2>10 DEF Everything
    <3>2. S \subseteq Ordinary
      <4>1. {e.src : e \in relations} \subseteq Ordinary
        BY <2>9, QueriesConstants DEF ToSet, Ordinary
      <4>2. ASSUME NEW m \in S PROVE m \in {e.src : e \in relations}
        BY <2>10, <4>2 DEF S
      <4> QED
        BY <4>1, <4>2
    <3>3. ASSUME NEW e \in relations, e.dst = asked.target PROVE e.src \in S
      <4>1. e = [src |-> e.src, dst |-> e.dst] /\ e.src \in Nodes
        BY <2>9 DEF Relation
      <4> QED
        BY <2>10, <3>3, <4>1 DEF S
    <3>4. ASSUME NEW m \in S PROVE m \in Everything'
      <4>1. [src |-> m, dst |-> asked.target] \in relations
        BY <2>10, <3>4 DEF S
      <4> QED
        BY <3>1, <4>1
    <3> QED
      BY <2>8, <3>1, <3>2, <3>3, <3>4
  <2>11. CASE asked.command = "children"
    <3>1. Everything' = {m \in Nodes : Opcode[m] = asked.target} /\ S = Everything'
      BY <2>1, <2>11 DEF Everything, S
    <3>2. asked.target # "other"
      BY <2>3, <2>11, QueriesConstants
    <3>3. S \subseteq Ordinary
      BY <3>1, <3>2, QueriesConstants DEF ToSet, Ordinary
    <3> QED
      BY <2>8, <3>1, <3>3
  <2> QED
    BY <1>1, <2>10, <2>11 DEF ListPage
<1>2. CASE ~ListPage
  <2>1. UNCHANGED <<asked, step, delivered, truncated>>
    <3>1. asked' = asked
      BY <1>2
      DEF QueryNext, allVars, query, ListSinks, InspectReturn, CountStores,
          BeginSite, ReadRelations, LookAtRelation, EndSlice, Locate, ReadCalls,
          EndSite, AllSitesTraced, Show, NotFound, Commit, Ended
    <3>2. ~AllSitesTraced
      BY <3>1 DEF AllSitesTraced, Shape
    <3>3. UNCHANGED <<step, delivered, truncated>>
      BY <1>2, <3>1, <3>2
      DEF QueryNext, allVars, query, report, cuts, ListSinks, InspectReturn,
          CountStores, BeginSite, ReadRelations, LookAtRelation, EndSlice, Locate,
          ReadCalls, EndSite, Show, NotFound, Commit, Ended
    <3> QED
      BY <3>1, <3>3
  <2>2. Everything' = Everything
    BY <1>0, <2>1 DEF Everything, Listings
  <2> QED
    BY <1>0, <2>1, <2>2 DEF ListedAll
<1> QED
  BY <1>1, <1>2

\* All of it.
AnswerInv ==
    /\ WalkInv /\ Shape /\ CutsInv /\ Tracked /\ Gathered /\ CallsCited /\ Hinted /\ ListedAll

\* The invariant holds before the command begins.
LEMMA AnswerInvInit == QueryInit => AnswerInv
<1> SUFFICES ASSUME QueryInit PROVE AnswerInv
  OBVIOUS
<1>1. WalkInv
  <2>1. Init /\ request.target \in Nodes
    BY SliceConstants DEF QueryInit, Init
  <2>2. WalkTypes
    BY <2>1, TypeInit, TypesOfAWalk
  <2>3. Linked
    BY <2>1 DEF Init, Linked, AnswerIsConnected
  <2>4. request.target \in Waiting
    <3>1. Len(queue) = 1 /\ queue[1].node = request.target
      BY <2>1 DEF Init
    <3> QED
      BY <3>1 DEF Waiting
  <2>5. Covered
    BY <2>1, <2>4 DEF Init, Covered
  <2>6. Fetched
    BY <2>1 DEF Init, Fetched
  <2> QED
    BY <2>2, <2>3, <2>5, <2>6 DEF WalkInv
<1>2. Shape
  <2>1. /\ asked \in Requests /\ step = "start" /\ sinks = <<>> /\ sites = {}
        /\ delivered = {}
    BY DEF QueryInit
  <2>2. sinks \in Seq(Nodes)
    BY <2>1
  <2> QED
    BY <2>1, <2>2 DEF Shape, AtSite
<1>4. CutsInv
  BY DEF QueryInit, Init, CutsInv
<1>5. Tracked /\ Hinted /\ ListedAll
  BY DEF QueryInit, Tracked, Hinted, ListedAll
<1>3. Gathered /\ CallsCited
  <2>1. TracedSinks = {} /\ delivered = {} /\ step = "start"
    BY DEF QueryInit, TracedSinks
  <2> QED
    BY <2>1 DEF Gathered, CallsCited, Grows
<1> QED
  BY <1>1, <1>2, <1>3, <1>4, <1>5 DEF AnswerInv

\* Every step keeps it.
LEMMA AnswerInvStep ==
  ASSUME AnswerInv, [QueryNext]_allVars
  PROVE  AnswerInv'
BY WalkInvStep, ShapeStep, CutsStep, TrackedStep, GatheredStep, CallsCitedStep,
   HintedStep,
   ListedAllStep DEF AnswerInv

\* It is what the answer promises, when the command is done.
LEMMA AnswerIsComplete ==
  ASSUME AnswerInv
  PROVE  CompleteUnlessTruncated
<1> USE DEF AnswerInv
<1> SUFFICES ASSUME step = "done", ~truncated, Undisturbed
             PROVE  /\ delivered = Everything
                    /\ asked.command \in Traces =>
                          \A n \in delivered : Opcode[n] = "call" =>
                              \A f \in Callees[n] : Row(n, f) \in cited
                    /\ /\ asked.command = "trace-return"
                       /\ \A n \in Wanted : ~ReturnsValue(n)
                       /\ \E n \in Nodes : Opcode[n] = "store"
                       => hint
  BY DEF CompleteUnlessTruncated
<1>1. asked.command \in Walked \cup Listings
  BY QueriesConstants DEF Shape, Walked, Listings
<1>2. ASSUME asked.command \in Listings PROVE delivered = Everything
  BY <1>2 DEF ListedAll
<1>3. ASSUME asked.command \in Walked PROVE delivered = Everything
  <2>1. Everything = ReachedFrom(Wanted)
    BY <1>3 DEF Everything, Walked, Traces
  <2>2. sinks = <<>> /\ left = {}
    BY DEF Shape, CutsInv
  <2>3. Sinks = {}
    <3>1. 1..Len(sinks) = {}
      BY <2>2
    <3> QED
      BY <3>1 DEF Sinks
  <2>4. Wanted = TracedSinks
    BY <1>3, <2>3 DEF Tracked
  <2>5. /\ Wanted \subseteq delivered /\ delivered \subseteq Nodes
        /\ Grows(delivered)
        /\ \A S \in SUBSET Nodes : Wanted \subseteq S /\ Grows(S) => delivered \subseteq S
    BY <1>3, <2>2, <2>4 DEF Gathered
  <2>6. CASE sites = {}
    <3>1. Wanted = {} /\ {} \in SUBSET Nodes
      BY <2>4, <2>6 DEF TracedSinks
    <3>2. delivered = {}
      BY <2>5, <3>1 DEF Grows
    <3>3. ReachedFrom(Wanted) = {}
      BY <3>1 DEF ReachedFrom, Closed
    <3> QED
      BY <2>1, <3>2, <3>3
  <2>7. CASE sites # {}
    <3>1. request.direction = "backward"
      BY <2>7 DEF Shape
    <3>2. ASSUME NEW S PROVE Closed(S) <=> Grows(S)
      BY <3>1 DEF Closed, Grows, Near, Far
    <3>3. delivered = ReachedFrom(Wanted)
      BY <2>5, <3>2 DEF ReachedFrom
    <3> QED
      BY <2>1, <3>3
  <2> QED
    BY <2>6, <2>7
<1>4. asked.command \in Traces =>
        \A n \in delivered : Opcode[n] = "call" =>
            \A f \in Callees[n] : Row(n, f) \in cited
  BY DEF CallsCited, Cites
<1>5. /\ asked.command = "trace-return"
      /\ \A n \in Wanted : ~ReturnsValue(n)
      /\ \E n \in Nodes : Opcode[n] = "store"
      => hint
  BY DEF Hinted
<1> QED
  BY <1>1, <1>2, <1>3, <1>4, <1>5

\* An answer put together from several queries that is not marked as
\* truncated has all that leads to any of its sinks, or all that is listed,
\* names every function that is called on the way, and points to the stores
\* where results leave through them, unless a snapshot was committed in
\* between.
THEOREM AnswersAreComplete == QuerySpec => []CompleteUnlessTruncated
<1>1. AnswerInv => CompleteUnlessTruncated
  BY AnswerIsComplete
<1>2. AnswerInv /\ [QueryNext]_allVars => AnswerInv'
  BY AnswerInvStep
<1> QED
  BY <1>1, <1>2, AnswerInvInit, PTL DEF QuerySpec
=============================================================================

------------------------ MODULE FunctionGraphProofs ------------------------
(* Proofs about FunctionGraph and ControlDependence, for every module and  *)
(* every control-flow graph in it.                                         *)
EXTENDS FunctionGraph, LeastElements

(* A function has finitely many blocks, and its successors are among them. *)
LEMMA BlocksAreFinite ==
  ASSUME NEW cfg, IsCFG(cfg)
  PROVE  /\ DOMAIN cfg = 1..Len(cfg) /\ Len(cfg) \in Nat
         /\ IsFiniteSet(DOMAIN cfg)
         /\ \A b \in DOMAIN cfg : Range(cfg[b]) \subseteq DOMAIN cfg
<1>1. DOMAIN cfg = 1..Len(cfg) /\ Len(cfg) \in Nat
  BY DEF IsCFG
<1>2. IsFiniteSet(1..Len(cfg))
  BY <1>1, FS_Interval
<1>3. ASSUME NEW b \in DOMAIN cfg PROVE Range(cfg[b]) \subseteq DOMAIN cfg
  <2>1. cfg[b] \in Seq(DOMAIN cfg)
    BY <1>1 DEF IsCFG
  <2> DEFINE D == DOMAIN cfg
  <2> HIDE DEF D
  <2>2. cfg[b] \in Seq(D) => Range(cfg[b]) \subseteq D
    BY DEF Range
  <2> QED
    BY <2>1, <2>2 DEF D
<1> QED
  BY <1>1, <1>2, <1>3

(* Whatever the graph, paths end: a set of blocks that cannot be left has  *)
(* an end in it. A smallest such set is a trap, out of which LLVM picks    *)
(* one block.                                                              *)
LEMMA ClosedHasEnd ==
  ASSUME NEW cfg, IsCFG(cfg),
         NEW T \in SUBSET DOMAIN cfg, T # {}, ClosedBut(cfg, T, {})
  PROVE  T \cap Ends(cfg) # {}
<1> DEFINE D == DOMAIN cfg
           Family == {S \in SUBSET D : S # {} /\ S \subseteq T /\ ClosedBut(cfg, S, {})}
<1>1. IsFiniteSet(D) /\ \A b \in D : Range(cfg[b]) \subseteq D
  BY BlocksAreFinite
<1>2. PICK M \in Family : \A K \in Family : K \subseteq M => K = M
  <2>1. Family \in SUBSET (SUBSET D) /\ T \in Family
    OBVIOUS
  <2>2. \A G \in SUBSET (SUBSET D) : G # {} =>
          \E m \in G : \A k \in G : k \subseteq m => k = m
    <3> HIDE DEF D
    <3> QED
      BY <1>1, MinimalSet
  <2> HIDE DEF Family
  <2>3. Family # {}
    BY <2>1
  <2> QED
    BY <2>1, <2>2, <2>3
<1>3. M \subseteq D /\ M # {} /\ M \subseteq T /\ ClosedBut(cfg, M, {})
  OBVIOUS
<1>4. ASSUME NEW x \in M
      PROVE  \A y \in D : y \in M <=> Leads(cfg, x, y)
  <2> DEFINE R == {y \in D : Leads(cfg, x, y)}
  <2>1. x \in R
    BY <1>3 DEF Leads
  <2>2. R \subseteq M
    BY <1>3 DEF Leads
  <2>3. ASSUME NEW y \in R, NEW z \in Range(cfg[y]) PROVE z \in R
    <3>1. z \in D
      BY <1>1
    <3>2. ASSUME NEW S \in SUBSET D, x \in S, ClosedBut(cfg, S, {}) PROVE z \in S
      <4>1. y \in S
        BY <3>2 DEF Leads
      <4> QED
        BY <3>2, <4>1 DEF ClosedBut
    <3> QED
      BY <3>1, <3>2 DEF Leads
  <2>4. ClosedBut(cfg, R, {})
    <3> HIDE DEF R
    <3> QED
      BY <2>3 DEF ClosedBut
  <2>5. R \in Family
    BY <1>3, <2>1, <2>2, <2>4
  <2>6. R = M
    BY <1>2, <2>2, <2>5
  <2> QED
    BY <2>6
<1>5. ASSUME NEW x \in M PROVE Trap(cfg, x) = M
  BY <1>3, <1>4 DEF Trap
<1> HIDE DEF Family
<1>6. CASE \E x \in M : cfg[x] = <<>>
  BY <1>3, <1>6 DEF Ends
<1>7. CASE \A x \in M : cfg[x] # <<>>
  <2> DEFINE c == CHOOSE a \in M : TRUE
  <2>1. c \in M
    BY <1>3
  <2>2. Trap(cfg, c) = M
    BY <1>5, <2>1
  <2>3. Trapped(cfg, c)
    <3> HIDE DEF c
    <3> QED
      BY <1>3, <1>7, <2>2 DEF Trapped
  <2>4. c = CHOOSE a \in Trap(cfg, c) : TRUE
    BY <2>2
  <2>5. c \in Ends(cfg)
    <3> HIDE DEF c
    <3> QED
      BY <1>3, <2>1, <2>3, <2>4 DEF Ends
  <2> QED
    BY <1>3, <2>1, <2>5
<1> QED
  BY <1>6, <1>7

(* S shuts b off from the ends: it holds b and no end, and is left only by *)
(* way of a, which it does not hold.                                       *)
Region(cfg, a, b, S) ==
    /\ S \subseteq DOMAIN cfg /\ a \notin S /\ b \in S
    /\ ClosedBut(cfg, S, {a})
    /\ S \cap Ends(cfg) = {}

(* A block post-dominates another one if such a set shuts it off from the  *)
(* ends.                                                                   *)
LEMMA PostDominatesIf ==
  ASSUME NEW cfg, NEW b \in DOMAIN cfg
  PROVE  /\ PostDominators(cfg) \in [DOMAIN cfg -> SUBSET DOMAIN cfg]
         /\ b \in PostDominators(cfg)[b]
         /\ \A a \in DOMAIN cfg :
              a \in PostDominators(cfg)[b] <=> a = b \/ \E S : Region(cfg, a, b, S)
<1>1. ASSUME NEW a \in DOMAIN cfg
      PROVE  a \in PostDominators(cfg)[b] <=> a = b \/ \E S : Region(cfg, a, b, S)
  <2>1. a \in PostDominators(cfg)[b] <=>
          \/ a = b
          \/ \E S \in SUBSET (DOMAIN cfg \ {a}) :
               b \in S /\ ClosedBut(cfg, S, {a}) /\ S \cap Ends(cfg) = {}
    BY DEF PostDominators
  <2>2. \A S : Region(cfg, a, b, S) <=>
            /\ S \in SUBSET (DOMAIN cfg \ {a})
            /\ b \in S /\ ClosedBut(cfg, S, {a}) /\ S \cap Ends(cfg) = {}
    BY DEF Region
  <2> QED
    BY <2>1, <2>2, Zenon
<1>2. PostDominators(cfg) \in [DOMAIN cfg -> SUBSET DOMAIN cfg]
  BY DEF PostDominators
<1> QED
  BY <1>1, <1>2

(* What post-dominates a post-dominator of a block post-dominates the      *)
(* block.                                                                  *)
LEMMA Transitive ==
  ASSUME NEW cfg, NEW a \in DOMAIN cfg, NEW b \in DOMAIN cfg, NEW c \in DOMAIN cfg,
         c \in PostDominators(cfg)[a], a \in PostDominators(cfg)[b]
  PROVE  c \in PostDominators(cfg)[b]
<1>1. CASE a = b \/ c = a \/ c = b
  BY <1>1, PostDominatesIf
<1>2. CASE a # b /\ c # a /\ c # b
  <2>1. PICK S1 : Region(cfg, a, b, S1)
    BY <1>2, PostDominatesIf
  <2>2. PICK S2 : Region(cfg, c, a, S2)
    BY <1>2, PostDominatesIf
  <2>3. Region(cfg, c, b, (S1 \cup S2) \ {c})
    BY <1>2, <2>1, <2>2 DEF Region, ClosedBut
  <2> QED
    BY <2>3, PostDominatesIf
<1> QED
  BY <1>1, <1>2

(* So no set of blocks without an end is closed.                           *)
LEMMA NoClosedRegion ==
  ASSUME NEW cfg, IsCFG(cfg), NEW T \in SUBSET DOMAIN cfg, T # {},
         ClosedBut(cfg, T, {}), T \cap Ends(cfg) = {}
  PROVE  FALSE
BY ClosedHasEnd

(* Two blocks do not post-dominate each other: the sets that shut them off *)
(* would be closed together.                                               *)
LEMMA Antisymmetric ==
  ASSUME NEW cfg, IsCFG(cfg), NEW a \in DOMAIN cfg, NEW b \in DOMAIN cfg,
         a \in PostDominators(cfg)[b], b \in PostDominators(cfg)[a]
  PROVE  a = b
<1> SUFFICES ASSUME a # b PROVE FALSE
  OBVIOUS
<1>1. PICK S1 : Region(cfg, a, b, S1)
  BY PostDominatesIf
<1>2. PICK S2 : Region(cfg, b, a, S2)
  BY PostDominatesIf
<1>3. /\ S1 \cup S2 \in SUBSET DOMAIN cfg /\ S1 \cup S2 # {}
      /\ (S1 \cup S2) \cap Ends(cfg) = {}
  BY <1>1, <1>2 DEF Region
<1>4. ClosedBut(cfg, S1 \cup S2, {})
  BY <1>1, <1>2 DEF Region, ClosedBut
<1> QED
  BY <1>3, <1>4, NoClosedRegion

(* Of two post-dominators of a block one post-dominates the other:         *)
(* otherwise what the two sets have in common would be closed.             *)
LEMMA Chain ==
  ASSUME NEW cfg, IsCFG(cfg),
         NEW a \in DOMAIN cfg, NEW b \in DOMAIN cfg, NEW c \in DOMAIN cfg,
         a \in PostDominators(cfg)[b], c \in PostDominators(cfg)[b]
  PROVE  a \in PostDominators(cfg)[c] \/ c \in PostDominators(cfg)[a]
<1>1. CASE a = b \/ c = b \/ a = c
  BY <1>1, PostDominatesIf
<1>2. CASE a # b /\ c # b /\ a # c
  <2>1. PICK S1 : Region(cfg, a, b, S1)
    BY <1>2, PostDominatesIf
  <2>2. PICK S2 : Region(cfg, c, b, S2)
    BY <1>2, PostDominatesIf
  <2>3. CASE c \in S1
    <3>1. Region(cfg, a, c, S1)
      BY <2>1, <2>3 DEF Region
    <3> QED
      BY <3>1, PostDominatesIf
  <2>4. CASE a \in S2
    <3>1. Region(cfg, c, a, S2)
      BY <2>2, <2>4 DEF Region
    <3> QED
      BY <3>1, PostDominatesIf
  <2>5. CASE c \notin S1 /\ a \notin S2
    <3>1. /\ S1 \cap S2 \in SUBSET DOMAIN cfg /\ b \in S1 \cap S2
          /\ (S1 \cap S2) \cap Ends(cfg) = {}
      BY <2>1, <2>2 DEF Region
    <3>2. ClosedBut(cfg, S1 \cap S2, {})
      BY <1>2, <2>1, <2>2, <2>5 DEF Region, ClosedBut
    <3>3. S1 \cap S2 # {}
      BY <3>1
    <3> QED
      BY <3>1, <3>2, <3>3, NoClosedRegion
  <2> QED
    BY <2>3, <2>4, <2>5
<1> QED
  BY <1>1, <1>2

(* What post-dominates a block strictly post-dominates its successors.     *)
LEMMA SuccessorsInherit ==
  ASSUME NEW cfg, IsCFG(cfg), NEW a \in DOMAIN cfg, NEW c \in DOMAIN cfg,
         NEW t \in Range(cfg[a]), c \in PostDominators(cfg)[a], c # a
  PROVE  c \in PostDominators(cfg)[t]
<1>1. t \in DOMAIN cfg
  BY BlocksAreFinite
<1>2. PICK S : Region(cfg, c, a, S)
  BY PostDominatesIf
<1>3. t = c \/ Region(cfg, c, t, S)
  BY <1>2 DEF Region, ClosedBut
<1> QED
  BY <1>1, <1>3, PostDominatesIf


(* What a tree is made from: an order in which what is above a block forms *)
(* a chain.                                                                *)
Forest(D, P) ==
    /\ P \in [D -> SUBSET D]
    /\ \A b \in D : b \in P[b]
    /\ \A a, b \in D : a \in P[b] => P[a] \subseteq P[b]
    /\ \A a, b \in D : a \in P[b] /\ b \in P[a] => a = b
    /\ \A a, b, c \in D : a \in P[b] /\ c \in P[b] => a \in P[c] \/ c \in P[a]

(* Post-dominance is such an order, for every control-flow graph, with     *)
(* loops that have no way out and with blocks that cannot be reached.      *)
LEMMA PostDominatorsAreAForest ==
  ASSUME NEW cfg, IsCFG(cfg)
  PROVE  Forest(DOMAIN cfg, PostDominators(cfg))
<1> DEFINE D == DOMAIN cfg
           P == PostDominators(cfg)
<1>1. P \in [D -> SUBSET D] /\ \A b \in D : b \in P[b]
  <2>1. P \in [D -> SUBSET D]
    BY DEF PostDominators
  <2> QED
    BY <2>1, PostDominatesIf
<1>2. \A a, b \in D : a \in P[b] => P[a] \subseteq P[b]
  <2> SUFFICES ASSUME NEW a \in D, NEW b \in D, a \in P[b], NEW c \in P[a]
               PROVE  c \in P[b]
    OBVIOUS
  <2>1. c \in D
    BY <1>1
  <2> QED
    BY <2>1, Transitive
<1>3. \A a, b \in D : a \in P[b] /\ b \in P[a] => a = b
  BY Antisymmetric
<1>4. \A a, b, c \in D : a \in P[b] /\ c \in P[b] => a \in P[c] \/ c \in P[a]
  BY Chain
<1> HIDE DEF P, D
<1>5. Forest(D, P)
  BY <1>1, <1>2, <1>3, <1>4 DEF Forest
<1> QED
  BY <1>5 DEF D, P

(* The immediate post-dominator is the parent in a tree: above a block is  *)
(* what is above its parent, and the parent.                               *)
LEMMA Parent ==
  ASSUME NEW D, IsFiniteSet(D), NEW P, Forest(D, P), Exit \notin D, NEW b \in D
  PROVE  LET n == ImmediatePostDominator(P, b)
         IN  \/ n = Exit /\ P[b] = {b}
             \/ /\ n \in D /\ n # b
                /\ b \notin P[n] /\ P[b] = {b} \cup P[n]
<1> DEFINE strict == P[b] \ {b}
           nearest == {a \in strict : strict \subseteq P[a]}
           n == ImmediatePostDominator(P, b)
<1>1. n = IF nearest = {} THEN Exit ELSE CHOOSE a \in nearest : TRUE
  BY DEF ImmediatePostDominator
<1>2. b \in P[b] /\ P[b] \subseteq D /\ strict \subseteq D
  BY DEF Forest
<1>3. CASE strict = {}
  <2>1. nearest = {}
    BY <1>3
  <2>2. n = Exit
    BY <1>1, <2>1
  <2> HIDE DEF n
  <2> QED
    BY <1>2, <1>3, <2>2 DEF n
<1>4. CASE strict # {}
  <2> DEFINE Beyond == {D \ P[a] : a \in strict}
  <2>1. \E m \in Beyond : \A k \in Beyond : k \subseteq m => k = m
    <3>1. Beyond \in SUBSET (SUBSET D) /\ Beyond # {}
      BY <1>4
    <3> HIDE DEF Beyond
    <3> QED
      BY <3>1, MinimalSet
  <2>2. PICK a \in strict : \A c \in strict :
           D \ P[c] \subseteq D \ P[a] => D \ P[c] = D \ P[a]
    <3>1. PICK m \in Beyond : \A k \in Beyond : k \subseteq m => k = m
      BY <2>1
    <3>2. PICK a \in strict : m = D \ P[a]
      OBVIOUS
    <3>3. \A c \in strict : D \ P[c] \in Beyond
      OBVIOUS
    <3> HIDE DEF strict, Beyond
    <3>4. \A c \in strict : D \ P[c] \subseteq m => D \ P[c] = m
      BY <3>1, <3>3
    <3> QED
      BY <3>2, <3>4
  <2>3. ASSUME NEW c \in strict PROVE c \in P[a]
    <3>1. a \in D /\ c \in D /\ a \in P[b] /\ c \in P[b]
      BY <1>2
    <3>2. CASE c \in P[a]
      BY <3>2
    <3>3. CASE a \in P[c]
      <4>1. P[a] \subseteq P[c] /\ P[c] \subseteq D /\ P[a] \subseteq D /\ c \in P[c]
        BY <3>1, <3>3 DEF Forest
      <4>2. D \ P[c] = D \ P[a]
        BY <2>2, <4>1
      <4> QED
        BY <3>1, <4>1, <4>2
    <3> QED
      BY <3>1, <3>2, <3>3 DEF Forest
  <2>4. a \in nearest
    BY <2>3
  <2>5. n \in nearest
    BY <1>1, <2>4
  <2> HIDE DEF n
  <2>6. n \in D /\ n # b /\ n \in P[b] /\ P[b] \ {b} \subseteq P[n]
    BY <1>2, <2>5
  <2>7. P[n] \subseteq P[b] /\ b \notin P[n]
    BY <2>6 DEF Forest
  <2> QED
    BY <1>2, <2>6, <2>7 DEF n
<1> QED
  BY <1>3, <1>4

(* w solves the recursion of Walked.                                       *)
Climbs(idom, stop, w) ==
    w = [b \in DOMAIN idom \cup {Exit} |->
            IF b \in {stop, Exit} THEN {} ELSE {b} \cup w[idom[b]]]

(* The tree, as a function from each block to its parent.                  *)
Parents(D, P) == [b \in D |-> ImmediatePostDominator(P, b)]

(* What is below stop on the way up from b.                                *)
Below(D, P, stop, b) ==
    {x \in P[b] : stop \in D /\ stop \in P[b] => x \notin P[stop]}

(* What lies below stop solves the recursion, from every block on.         *)
LEMMA BelowClimbs ==
  ASSUME NEW D, IsFiniteSet(D), NEW P, Forest(D, P), Exit \notin D,
         NEW stop \in D \cup {Exit}
  PROVE  Climbs(Parents(D, P), stop,
                [b \in D \cup {Exit} |->
                    IF b \in {stop, Exit} THEN {} ELSE Below(D, P, stop, b)])
<1> DEFINE w == [b \in D \cup {Exit} |->
                    IF b \in {stop, Exit} THEN {} ELSE Below(D, P, stop, b)]
           idom == Parents(D, P)
<1>1. DOMAIN idom = D /\ \A b \in D : idom[b] = ImmediatePostDominator(P, b)
  BY DEF Parents
<1> HIDE DEF idom
<1>2. ASSUME NEW b \in D, b # stop
      PROVE  Below(D, P, stop, b) = {b} \cup w[idom[b]]
  <2> DEFINE n == idom[b]
  <2>1. \/ n = Exit /\ P[b] = {b}
        \/ n \in D /\ n # b /\ b \notin P[n] /\ P[b] = {b} \cup P[n]
    BY <1>1, Parent
  <2> HIDE DEF n
  <2>2. CASE n = Exit /\ P[b] = {b}
    <3>1. w[n] = {}
      BY <2>2
    <3>2. Below(D, P, stop, b) = {b}
      BY <1>2, <2>2 DEF Below
    <3> QED
      BY <3>1, <3>2 DEF n
  <2>3. CASE n \in D /\ n # b /\ b \notin P[n] /\ P[b] = {b} \cup P[n]
    <3>1. CASE n = stop
      <4>1. w[n] = {}
        BY <3>1
      <4>2. n \in P[n]
        BY <2>3 DEF Forest
      <4>3. Below(D, P, stop, b) = {b}
        BY <2>3, <3>1, <4>2 DEF Below
      <4> QED
        BY <4>1, <4>3 DEF n
    <3>2. CASE n # stop
      <4>1. w[n] = Below(D, P, stop, n)
        BY <2>3, <3>2
      <4>2. stop \in D => (stop \in P[b] <=> stop \in P[n])
        BY <1>2, <2>3
      <4>3. stop \in D /\ stop \in P[b] => b \notin P[stop]
        BY <1>2 DEF Forest
      <4>4. Below(D, P, stop, b) = {b} \cup Below(D, P, stop, n)
        BY <2>3, <4>2, <4>3 DEF Below
      <4> QED
        BY <4>1, <4>4 DEF n
    <3> QED
      BY <3>1, <3>2
  <2> QED
    BY <2>1, <2>2, <2>3
<1>3. ASSUME NEW b \in D \cup {Exit}
      PROVE  w[b] = IF b \in {stop, Exit} THEN {} ELSE {b} \cup w[idom[b]]
  <2>1. CASE b \in {stop, Exit}
    BY <2>1
  <2>2. CASE b \notin {stop, Exit}
    <3>1. b \in D /\ b # stop /\ w[b] = Below(D, P, stop, b)
      BY <2>2
    <3> HIDE DEF w
    <3> QED
      BY <1>2, <2>2, <3>1
  <2> QED
    BY <2>1, <2>2
<1>4. w = [b \in D \cup {Exit} |-> w[b]]
  OBVIOUS
<1> HIDE DEF w
<1>5. w = [b \in D \cup {Exit} |->
            IF b \in {stop, Exit} THEN {} ELSE {b} \cup w[idom[b]]]
  BY <1>3, <1>4
<1>6. Climbs(idom, stop, w)
  BY <1>1, <1>5 DEF Climbs
<1> QED
  BY <1>6 DEF w, idom

(* The recursion has one solution only: two would differ at a lowest       *)
(* block, but they agree at its parent.                                    *)
LEMMA OneWayUp ==
  ASSUME NEW D, IsFiniteSet(D), NEW P, Forest(D, P), Exit \notin D,
         NEW stop \in D \cup {Exit},
         NEW v, Climbs(Parents(D, P), stop, v),
         NEW w, Climbs(Parents(D, P), stop, w), NEW from \in D
  PROVE  v[from] = w[from]
<1> DEFINE idom == Parents(D, P)
           Bad == {b \in D : v[b] # w[b]}
           Above == {P[b] : b \in Bad}
<1>1. DOMAIN idom = D /\ \A b \in D : idom[b] = ImmediatePostDominator(P, b)
  BY DEF Parents
<1>2. ASSUME NEW b \in D \cup {Exit}
      PROVE  /\ v[b] = IF b \in {stop, Exit} THEN {} ELSE {b} \cup v[idom[b]]
             /\ w[b] = IF b \in {stop, Exit} THEN {} ELSE {b} \cup w[idom[b]]
  BY <1>1 DEF Climbs
<1> HIDE DEF idom
<1> SUFFICES ASSUME Bad # {} PROVE FALSE
  OBVIOUS
<1>3. \E m \in Above : \A k \in Above : k \subseteq m => k = m
  <2>1. Above \in SUBSET (SUBSET D) /\ Above # {}
    BY DEF Forest
  <2> HIDE DEF Above
  <2> QED
    BY <2>1, MinimalSet
<1>4. PICK b \in Bad : \A c \in Bad : P[c] \subseteq P[b] => P[c] = P[b]
  <2>1. PICK m \in Above : \A k \in Above : k \subseteq m => k = m
    BY <1>3
  <2>2. PICK b \in Bad : m = P[b]
    OBVIOUS
  <2>3. \A c \in Bad : P[c] \in Above
    OBVIOUS
  <2> HIDE DEF Bad, Above
  <2> QED
    BY <2>1, <2>2, <2>3
<1>5. b \in D /\ v[b] # w[b]
  BY <1>4
<1> DEFINE n == idom[b]
<1>6. \/ n = Exit
      \/ n \in D /\ b \notin P[n] /\ P[b] = {b} \cup P[n]
  BY <1>1, <1>5, Parent
<1>7. b \notin {stop, Exit} /\ v[n] # w[n]
  <2>1. /\ v[b] = IF b \in {stop, Exit} THEN {} ELSE {b} \cup v[n]
        /\ w[b] = IF b \in {stop, Exit} THEN {} ELSE {b} \cup w[n]
    BY <1>2, <1>5
  <2> HIDE DEF n, Bad
  <2>2. CASE b \in {stop, Exit}
    BY <1>5, <2>1, <2>2
  <2>3. CASE b \notin {stop, Exit}
    BY <1>5, <2>1, <2>3
  <2> QED
    BY <2>2, <2>3
<1>8. n # Exit
  BY <1>2, <1>7
<1>9. n \in Bad /\ P[n] \subseteq P[b] /\ b \in P[b]
  BY <1>5, <1>6, <1>7, <1>8 DEF Forest
<1>10. P[n] = P[b]
  BY <1>4, <1>9
<1> QED
  BY <1>6, <1>8, <1>9, <1>10

(* So the way up the tree passes the post-dominators of the block at which *)
(* it starts, those of the block where it stops left out.                  *)
LEMMA WalkedIsBelow ==
  ASSUME NEW D, IsFiniteSet(D), NEW P, Forest(D, P), Exit \notin D,
         NEW stop \in D \cup {Exit}, NEW from \in D
  PROVE  Walked(Parents(D, P), from, stop) =
            IF from = stop THEN {} ELSE Below(D, P, stop, from)
<1> DEFINE idom == Parents(D, P)
           w == [b \in D \cup {Exit} |->
                    IF b \in {stop, Exit} THEN {} ELSE Below(D, P, stop, b)]
           v == CHOOSE u : Climbs(idom, stop, u)
<1>1. Climbs(idom, stop, w)
  BY BelowClimbs
<1>2. Walked(idom, from, stop) = v[from]
  BY DEF Walked, Climbs
<1>3. w[from] = IF from = stop THEN {} ELSE Below(D, P, stop, from)
  OBVIOUS
<1> HIDE DEF w
<1>4. Climbs(idom, stop, v)
  BY <1>1
<1> HIDE DEF v
<1>5. v[from] = w[from]
  BY <1>1, <1>4, OneWayUp
<1> QED
  BY <1>2, <1>3, <1>5

(* The walk from a successor to the parent of the branch passes what post- *)
(* dominates the successor and not the branch.                             *)
LEMMA WalkedFromEdge ==
  ASSUME NEW cfg, IsCFG(cfg), Exit \notin DOMAIN cfg,
         NEW a \in DOMAIN cfg, NEW to \in Range(cfg[a]),
         to \notin PostDominators(cfg)[a]
  PROVE  LET D == DOMAIN cfg
             P == PostDominators(cfg)
             idom == Parents(D, P)
         IN  Walked(idom, to, idom[a]) \ {a} = P[to] \ P[a]
<1> DEFINE D == DOMAIN cfg
           P == PostDominators(cfg)
           idom == Parents(D, P)
           n == idom[a]
<1>1. IsFiniteSet(D) /\ to \in D
  BY BlocksAreFinite
<1>2. Forest(D, P)
  BY PostDominatorsAreAForest
<1>3. ASSUME NEW c \in D, c \in P[a], c # a PROVE c \in P[to]
  BY <1>3, SuccessorsInherit
<1>4. a \in D /\ to \notin P[a] /\ Exit \notin D
  OBVIOUS
<1> HIDE DEF D, P
<1>5. n = ImmediatePostDominator(P, a)
  BY <1>4 DEF Parents
<1>6. \/ n = Exit /\ P[a] = {a}
      \/ n \in D /\ n # a /\ a \notin P[n] /\ P[a] = {a} \cup P[n]
  BY <1>1, <1>2, <1>4, <1>5, Parent
<1>7. n \in D \cup {Exit}
  BY <1>6
<1> HIDE DEF n, idom
<1>8. Walked(idom, to, n) = IF to = n THEN {} ELSE Below(D, P, n, to)
  BY <1>1, <1>2, <1>4, <1>7, WalkedIsBelow DEF idom
<1>9. Walked(idom, to, n) \ {a} = P[to] \ P[a]
  <2>1. CASE n = Exit /\ P[a] = {a}
    <3>1. to # n /\ n \notin D
      BY <1>1, <1>4, <2>1
    <3>2. Below(D, P, n, to) = P[to]
      BY <3>1 DEF Below
    <3> QED
      BY <1>8, <2>1, <3>1, <3>2
  <2>2. CASE n \in D /\ n # a /\ a \notin P[n] /\ P[a] = {a} \cup P[n]
    <3>1. n \in P[n]
      BY <1>2, <2>2 DEF Forest
    <3>2. n \in P[to] /\ to # n
      BY <1>3, <1>4, <2>2, <3>1
    <3>3. Below(D, P, n, to) = P[to] \ P[n]
      BY <2>2, <3>2 DEF Below
    <3> QED
      BY <1>8, <2>2, <3>2, <3>3
  <2> QED
    BY <1>6, <2>1, <2>2
<1> QED
  BY <1>9 DEF D, P, idom, n

(* Taking the s-th edge out of a makes sure of b, a alone does not.        *)
Controls(cfg, b, a, s) ==
    /\ b \in DOMAIN cfg /\ a \in DOMAIN cfg /\ s \in DOMAIN cfg[a]
    /\ b \in PostDominators(cfg)[cfg[a][s]]
    /\ b \notin PostDominators(cfg)[a]

(* A relation is emitted for each edge that controls a block.              *)
LEMMA EmittedBy ==
  ASSUME NEW cfg, NEW d, IsCFG(cfg), Exit \notin DOMAIN cfg
  PROVE  d \in Emitted(cfg) <=>
           /\ d = [block |-> d.block, branch |-> d.branch, successor |-> d.successor]
           /\ Controls(cfg, d.block, d.branch, d.successor)
<1> DEFINE D == DOMAIN cfg
           P == PostDominators(cfg)
           idom == Parents(D, P)
           S == UNION {DOMAIN cfg[b] : b \in DOMAIN cfg}
           Out(a, s) == IF cfg[a][s] \in P[a] THEN {}
                        ELSE [block : Walked(idom, cfg[a][s], idom[a]) \ {a},
                              branch : {a}, successor : {s}]
<1>1. Emitted(cfg) = UNION {Out(e.branch, e.successor) : e \in Edges(cfg)}
  BY DEF Emitted, Parents
<1>2. \A e \in Edges(cfg) : e.branch \in D /\ e.successor \in DOMAIN cfg[e.branch]
  BY DEF Edges
<1>3. ASSUME NEW a \in D, NEW s \in DOMAIN cfg[a]
      PROVE  \E e \in Edges(cfg) : e.branch = a /\ e.successor = s
  <2>1. [branch |-> a, successor |-> s] \in Edges(cfg)
    BY DEF Edges
  <2> QED
    BY <2>1
<1>4. Forest(D, P)
  BY PostDominatorsAreAForest
<1>5. ASSUME NEW a \in D, NEW s \in DOMAIN cfg[a]
      PROVE  /\ cfg[a][s] \in D
             /\ Out(a, s) = [block : P[cfg[a][s]] \ P[a], branch : {a}, successor : {s}]
  <2>1. cfg[a][s] \in Range(cfg[a])
    BY DEF Range
  <2>2. cfg[a][s] \in D
    BY <2>1, BlocksAreFinite
  <2>3. CASE cfg[a][s] \in P[a]
    <3>1. P[cfg[a][s]] \ P[a] = {}
      BY <1>4, <2>2, <2>3 DEF Forest
    <3>2. [block : P[cfg[a][s]] \ P[a], branch : {a}, successor : {s}] = {}
      BY <3>1
    <3> QED
      BY <2>2, <2>3, <3>2
  <2>4. CASE cfg[a][s] \notin P[a]
    <3>1. Walked(idom, cfg[a][s], idom[a]) \ {a} = P[cfg[a][s]] \ P[a]
      BY <2>1, <2>4, WalkedFromEdge
    <3> QED
      BY <2>2, <2>4, <3>1
  <2> QED
    BY <2>3, <2>4
<1> HIDE DEF Out
<1>6. ASSUME d \in Emitted(cfg)
      PROVE  /\ d = [block |-> d.block, branch |-> d.branch, successor |-> d.successor]
             /\ Controls(cfg, d.block, d.branch, d.successor)
  <2>1. PICK e \in Edges(cfg) : d \in Out(e.branch, e.successor)
    BY <1>1, <1>6
  <2>2. PICK a \in D : \E s \in DOMAIN cfg[a] : d \in Out(a, s)
    BY <1>2, <2>1
  <2>3. PICK s \in DOMAIN cfg[a] : d \in Out(a, s)
    BY <2>2
  <2>4. d \in [block : P[cfg[a][s]] \ P[a], branch : {a}, successor : {s}]
    BY <1>5, <2>3
  <2>5. P[cfg[a][s]] \subseteq D
    BY <1>4, <1>5 DEF Forest
  <2> QED
    BY <2>4, <2>5 DEF Controls
<1>7. ASSUME d = [block |-> d.block, branch |-> d.branch, successor |-> d.successor],
             Controls(cfg, d.block, d.branch, d.successor)
      PROVE  d \in Emitted(cfg)
  <2>1. d \in [block : P[cfg[d.branch][d.successor]] \ P[d.branch],
               branch : {d.branch}, successor : {d.successor}]
    BY <1>7 DEF Controls
  <2>2. d \in Out(d.branch, d.successor)
    BY <1>5, <1>7, <2>1 DEF Controls
  <2>3. PICK e \in Edges(cfg) : e.branch = d.branch /\ e.successor = d.successor
    BY <1>3, <1>7 DEF Controls
  <2> QED
    BY <1>1, <2>2, <2>3
<1> QED
  BY <1>6, <1>7

(* The term means just that, but for a branch that controls itself.        *)
LEMMA DependenceIs ==
  ASSUME NEW cfg, NEW d, IsCFG(cfg)
  PROVE  d \in Dependences(cfg) /\ d.block # d.branch <=>
           /\ d = [block |-> d.block, branch |-> d.branch, successor |-> d.successor]
           /\ Controls(cfg, d.block, d.branch, d.successor)
<1>1. \A b \in DOMAIN cfg : b \in PostDominators(cfg)[b]
  BY PostDominatesIf
<1>2. ASSUME d \in Dependences(cfg), d.block # d.branch
      PROVE  /\ d = [block |-> d.block, branch |-> d.branch, successor |-> d.successor]
             /\ Controls(cfg, d.block, d.branch, d.successor)
  BY <1>2 DEF Dependences, Controls
<1>3. ASSUME d = [block |-> d.block, branch |-> d.branch, successor |-> d.successor],
             Controls(cfg, d.block, d.branch, d.successor)
      PROVE  d \in Dependences(cfg) /\ d.block # d.branch
  <2>1. d.block # d.branch
    BY <1>1, <1>3 DEF Controls
  <2>2. d.successor \in UNION {DOMAIN cfg[b] : b \in DOMAIN cfg}
    BY <1>3 DEF Controls
  <2> QED
    BY <1>3, <2>1, <2>2 DEF Dependences, Controls
<1> QED
  BY <1>2, <1>3

(* The walk up the post-dominator tree computes control dependence as      *)
(* Ferrante, Ottenstein and Warren define it by paths, for every control-  *)
(* flow graph, a branch's control of its own block left out.               *)
THEOREM EmittedIsControlDependence ==
  ASSUME NEW cfg, IsCFG(cfg), Exit \notin DOMAIN cfg
  PROVE  Emitted(cfg) = {d \in Dependences(cfg) : d.block # d.branch}
BY EmittedBy, DependenceIs

-----------------------------------------------------------------------------
(* No function's name is the key of another one: the run names shows what  *)
(* happens otherwise.                                                      *)
NamesAreNotKeys ==
    \A m \in Modules : \A f, g \in DOMAIN m : m[f].name = g => f = g

(* The functions of a module are numbered from one.                        *)
LEMMA FunctionsAreNumbers ==
  ASSUME module \in Modules
  PROVE  /\ Functions = 1..Len(module) /\ Len(module) \in Nat
         /\ \A f \in Functions : f \in Nat /\ f # NoFunc
<1>1. module \in Seq(Range(module))
  BY FunctionGraphConstants
<1> DEFINE R == Range(module)
<1> HIDE DEF R
<1>2. module \in Seq(R)
  BY <1>1 DEF R
<1>3. DOMAIN module = 1..Len(module) /\ Len(module) \in Nat
  BY <1>2
<1> QED
  BY <1>3, FunctionGraphConstants DEF Functions

(* Then a key selects the function it belongs to (the first match of key   *)
(* or name in adapter::function_graph).                                    *)
LEMMA KeysSelect ==
  ASSUME NamesAreNotKeys, module \in Modules, NEW f \in Functions
  PROVE  Selected(f) = f
<1>1. \A g \in 1..(f - 1) : g \in Functions /\ g # f
  BY FunctionsAreNumbers
<1>2. \A g \in Functions : module[g].name = f => g = f
  BY DEF NamesAreNotKeys, Functions
<1>3. \A g \in 1..(f - 1) : g # f /\ module[g].name # f
  BY <1>1, <1>2
<1>4. \A g \in Functions : (g = f \/ module[g].name = f) => g = f
  BY <1>2
<1> QED
  BY <1>3, <1>4 DEF Selected

(* What LLVM's verifier says of one function.                              *)
LEMMA FunctionsAreVerified ==
  ASSUME module \in Modules, NEW f \in Functions
  PROVE  /\ IsCFG(module[f].cfg) /\ DOMAIN module[f].uses = DOMAIN module[f].cfg
         /\ \A b \in DOMAIN module[f].uses : \A h \in module[f].uses[b] :
               h.kind \in {"function", "global"} \/ (h.kind = "constant" /\ h.fn = f)
BY FunctionGraphConstants DEF Functions

(* What the adapter declares for a function is its own by the handle, or   *)
(* belongs to the module.                                                  *)
LEMMA InnerIsOwn ==
  ASSUME module \in Modules, NEW f \in Functions, NEW v, NEW h \in Declares(f, v)
  PROVE  /\ h \in Inner(f, v) => h.fn = f /\ h.kind \in {"block", "constant"}
         /\ h \notin Inner(f, v) => h.kind \in {"function", "global"}
<1>1. ASSUME NEW x \in Operands(f, v)
      PROVE  x.kind \in {"function", "global"} \/ (x.kind = "constant" /\ x.fn = f)
  <2>1. PICK b \in DOMAIN module[f].uses : x \in module[f].uses[b]
    BY DEF Operands, Range
  <2> QED
    BY <2>1, FunctionsAreVerified
<1>2. \A x \in Blocks(f) : x.kind = "block" /\ x.fn = f
  BY DEF Blocks, Handle
<1>3. FunctionHandle(f).kind = "function"
  BY DEF FunctionHandle, Handle
<1>4. Inner(f, v) = Blocks(f) \cup {x \in Operands(f, v) : x.kind = "constant"}
  BY DEF Inner
<1>5. h = FunctionHandle(f) \/ h \in Blocks(f) \/ h \in Operands(f, v)
  BY DEF Declares
<1> HIDE DEF Inner
<1>6. CASE h = FunctionHandle(f)
  BY <1>1, <1>2, <1>3, <1>4, <1>6
<1>7. CASE h \in Blocks(f)
  BY <1>2, <1>4, <1>7
<1>8. CASE h \in Operands(f, v)
  BY <1>1, <1>2, <1>4, <1>8
<1> QED
  BY <1>5, <1>6, <1>7, <1>8

(* The adapter declares the blocks and constants of a function.            *)
LEMMA InnerIsDeclared ==
  ASSUME NEW f, NEW v
  PROVE  Inner(f, v) \subseteq Declares(f, v)
BY DEF Inner, Declares

(* h belongs to the module, or is an entity of f.                          *)
Local(f, h) == h.kind \in {"function", "global"} \/ h.fn = f

(* The relations of a body, kind by kind.                                  *)
BlockOf(f, b) == Handle("block", f, b)

ContainsRows(f) ==
    {[kind |-> "contains", src |-> FunctionHandle(f), dst |-> BlockOf(f, b),
      ordinal |-> 0] : b \in DOMAIN module[f].cfg}

EdgeRows(f, b) ==
    {[kind |-> "cfg", src |-> BlockOf(f, b), dst |-> BlockOf(f, module[f].cfg[b][s]),
      ordinal |-> s] : s \in DOMAIN module[f].cfg[b]}

ControlRow(f, d) ==
    [kind |-> "control", src |-> BlockOf(f, d.block), dst |-> BlockOf(f, d.branch),
     ordinal |-> d.successor]

UseRows(f, b) ==
    {[kind |-> "uses", src |-> BlockOf(f, b), dst |-> h, ordinal |-> 0] :
        h \in module[f].uses[b]}

(* The four kinds of relations.                                            *)
LEMMA BodyIs ==
  ASSUME NEW f, NEW r
  PROVE  r \in Body(f) <=>
           \/ r \in ContainsRows(f)
           \/ \E b \in DOMAIN module[f].cfg : r \in EdgeRows(f, b)
           \/ \E d \in Emitted(module[f].cfg) : r = ControlRow(f, d)
           \/ \E b \in DOMAIN module[f].cfg : r \in UseRows(f, b)
<1> DEFINE cfg == module[f].cfg
           Edged == UNION {EdgeRows(f, b) : b \in DOMAIN cfg}
           Controlled == {ControlRow(f, d) : d \in Emitted(cfg)}
           Used == UNION {UseRows(f, b) : b \in DOMAIN cfg}
<1>1. Body(f) = ContainsRows(f) \cup Edged \cup Controlled \cup Used
  BY DEF Body, ContainsRows, EdgeRows, ControlRow, UseRows, BlockOf
<1> QED
  BY <1>1

(* A relation of a function ends at handles of its own or of the module.   *)
LEMMA BodyIsLocal ==
  ASSUME module \in Modules, NEW f \in Functions, NEW r \in Body(f)
  PROVE  Local(f, r.src) /\ Local(f, r.dst)
<1> DEFINE cfg == module[f].cfg
           block(b) == Handle("block", f, b)
<1>1. \A b : Local(f, block(b))
  BY DEF Local, Handle
<1>2. Local(f, FunctionHandle(f))
  BY DEF Local, FunctionHandle, Handle
<1>3. \A b \in DOMAIN cfg : \A h \in module[f].uses[b] : Local(f, h)
  BY FunctionsAreVerified DEF Local
<1>4. \/ \E b : r.src = FunctionHandle(f) /\ r.dst = block(b)
      \/ \E b, c : r.src = block(b) /\ r.dst = block(c)
      \/ \E b \in DOMAIN cfg : r.src = block(b) /\ r.dst \in module[f].uses[b]
  <2>1. CASE r \in ContainsRows(f)
    BY <2>1 DEF ContainsRows, BlockOf
  <2>2. ASSUME NEW b \in DOMAIN cfg, r \in EdgeRows(f, b)
        PROVE  \E x, y : r.src = block(x) /\ r.dst = block(y)
    BY <2>2 DEF EdgeRows, BlockOf
  <2>3. ASSUME NEW d \in Emitted(cfg), r = ControlRow(f, d)
        PROVE  \E x, y : r.src = block(x) /\ r.dst = block(y)
    BY <2>3 DEF ControlRow, BlockOf
  <2>4. ASSUME NEW b \in DOMAIN cfg, r \in UseRows(f, b)
        PROVE  r.src = block(b) /\ r.dst \in module[f].uses[b]
    BY <2>4 DEF UseRows, BlockOf
  <2> HIDE DEF block
  <2> QED
    BY <2>1, <2>2, <2>3, <2>4, BodyIs
<1> HIDE DEF cfg, block
<1> QED
  BY <1>1, <1>2, <1>3, <1>4

(* So do the rows stored for it.                                           *)
LEMMA RowsAreLocal ==
  ASSUME module \in Modules, NEW f \in Functions, NEW v,
         NEW r \in Rows(f, Graph(f, v))
  PROVE  r.owner = f /\ Local(f, r.src) /\ Local(f, r.dst)
<1>1. PICK x \in Body(f) : r.owner = f /\ r.src = x.src /\ r.dst = x.dst
  BY DEF Rows, Graph
<1> QED
  BY <1>1, BodyIsLocal
-----------------------------------------------------------------------------
(* What is stored under a function.                                        *)
Owned(f) == {h \in DOMAIN owner : owner[h] = f}
Stored(f) == {r \in relations : r.owner = f}

Typed ==
    /\ module \in Modules
    /\ built \in [Functions -> Versions \cup {NoFunc}]

Snapshots ==
    /\ \A r \in relations : r.owner \in Functions
    /\ \A f \in Functions :
          /\ Owned(f) = IF built[f] = NoFunc THEN {} ELSE Inner(f, built[f])
          /\ Stored(f) = IF built[f] = NoFunc THEN {}
                         ELSE Rows(f, Graph(f, built[f]))

(* What is stored under a function is its own.                             *)
LEMMA OwnedAreInner ==
  ASSUME Typed, Snapshots, NEW f \in Functions
  PROVE  /\ \A h \in Owned(f) : h.fn = f /\ h.kind \in {"block", "constant"}
         /\ \A r \in Stored(f) : Local(f, r.src) /\ Local(f, r.dst)
<1>1. CASE built[f] = NoFunc
  BY <1>1 DEF Snapshots
<1>2. CASE built[f] # NoFunc
  <2>1. Owned(f) = Inner(f, built[f]) /\ Stored(f) = Rows(f, Graph(f, built[f]))
    BY <1>2 DEF Snapshots
  <2>2. \A h \in Inner(f, built[f]) : h.fn = f /\ h.kind \in {"block", "constant"}
    BY InnerIsDeclared, InnerIsOwn DEF Typed
  <2>3. \A r \in Rows(f, Graph(f, built[f])) : Local(f, r.src) /\ Local(f, r.dst)
    BY RowsAreLocal DEF Typed
  <2> QED
    BY <2>1, <2>2, <2>3
<1> QED
  BY <1>1, <1>2

(* The transaction replaces what the function owned, and takes nothing     *)
(* that another one owns.                                                  *)
LEMMA Replaced ==
  ASSUME NamesAreNotKeys, Typed, Snapshots, NEW f \in Functions, NEW v \in Versions,
         Materialize(f, v)
  PROVE  /\ Owned(f)' = Inner(f, v)
         /\ \A g \in Functions : g # f => Owned(g)' = Owned(g)
<1> DEFINE D == Declares(f, v)
<1>1. Selected(f) = f
  BY KeysSelect DEF Typed
<1>2. /\ DOMAIN owner' = (DOMAIN owner \ Gone(f)) \cup D
      /\ \A h \in DOMAIN owner' :
            owner'[h] = IF h \in D THEN OwnerOf(f, v, h) ELSE owner[h]
  BY <1>1 DEF Materialize
<1>3. \A h : OwnerOf(f, v, h) = IF h \in Inner(f, v) THEN f
                                ELSE IF h \in DOMAIN owner THEN owner[h] ELSE NoFunc
  BY <1>1 DEF OwnerOf
<1>4. \A h \in D : /\ h \in Inner(f, v) => h.fn = f
                   /\ h \notin Inner(f, v) => h.kind \in {"function", "global"}
  BY InnerIsOwn DEF Typed
<1>5. Gone(f) = Owned(f)
  BY DEF Gone, Owned
<1>6. \A g \in Functions : g # NoFunc
         /\ \A h \in Owned(g) : h.fn = g /\ h.kind \in {"block", "constant"}
  BY OwnedAreInner, FunctionsAreNumbers DEF Typed
<1>7. Inner(f, v) \subseteq D
  BY InnerIsDeclared
<1> HIDE DEF D
<1>8. ASSUME NEW h PROVE h \in Owned(f)' <=> h \in Inner(f, v)
  <2>1. CASE h \in D
    <3>1. CASE h \in Inner(f, v)
      BY <1>2, <1>3, <2>1, <3>1 DEF Owned
    <3>2. CASE h \notin Inner(f, v)
      <4>1. h \notin Owned(f)
        BY <1>4, <1>6, <2>1, <3>2
      <4> QED
        BY <1>2, <1>3, <1>6, <2>1, <3>2, <4>1 DEF Owned
    <3> QED
      BY <3>1, <3>2
  <2>2. CASE h \notin D
    BY <1>2, <1>5, <1>7, <2>2 DEF Owned
  <2> QED
    BY <2>1, <2>2
<1>9. ASSUME NEW g \in Functions, g # f, NEW h PROVE h \in Owned(g)' <=> h \in Owned(g)
  <2>1. CASE h \in D
    <3>1. CASE h \in Inner(f, v)
      <4>1. h \notin Owned(g)
        BY <1>4, <1>6, <1>9, <2>1, <3>1
      <4> QED
        BY <1>2, <1>3, <1>9, <2>1, <3>1, <4>1 DEF Owned
    <3>2. CASE h \notin Inner(f, v)
      BY <1>2, <1>3, <1>6, <1>9, <2>1, <3>2 DEF Owned
    <3> QED
      BY <3>1, <3>2
  <2>2. CASE h \notin D
    BY <1>2, <1>5, <1>9, <2>2 DEF Owned
  <2> QED
    BY <2>1, <2>2
<1>10. Owned(f)' = Inner(f, v)
  BY <1>8
<1>11. \A g \in Functions : g # f => Owned(g)' = Owned(g)
  BY <1>9
<1> QED
  BY <1>10, <1>11

(* It replaces the function's relations, and none of another's: they do    *)
(* not touch what it deletes.                                              *)
LEMMA Rewritten ==
  ASSUME NamesAreNotKeys, Typed, Snapshots, NEW f \in Functions, NEW v \in Versions,
         Materialize(f, v)
  PROVE  /\ Stored(f)' = Rows(f, Graph(f, v))
         /\ \A g \in Functions : g # f => Stored(g)' = Stored(g)
         /\ \A r \in relations' : r.owner \in Functions
<1> DEFINE new == Rows(f, Graph(f, v))
<1>1. Selected(f) = f
  BY KeysSelect DEF Typed
<1>2. relations' = {r \in relations : r.owner # f /\ r.src \notin Gone(f)
                                      /\ r.dst \notin Gone(f)} \cup new
  BY <1>1 DEF Materialize
<1>3. \A r \in new : r.owner = f
  BY RowsAreLocal DEF Typed
<1>4. ASSUME NEW g \in Functions, g # f, NEW r \in Stored(g)
      PROVE  r.src \notin Gone(f) /\ r.dst \notin Gone(f)
  <2>1. Local(g, r.src) /\ Local(g, r.dst)
    BY <1>4, OwnedAreInner
  <2>2. \A h \in Gone(f) : h.fn = f /\ h.kind \in {"block", "constant"}
    BY OwnedAreInner DEF Gone, Owned
  <2> QED
    BY <1>4, <2>1, <2>2 DEF Local
<1> HIDE DEF new
<1>5. Stored(f)' = new
  BY <1>2, <1>3 DEF Stored
<1>6. ASSUME NEW g \in Functions, g # f PROVE Stored(g)' = Stored(g)
  <2>1. \A r \in relations : r.owner = g => r.src \notin Gone(f) /\ r.dst \notin Gone(f)
    BY <1>4, <1>6 DEF Stored
  <2> QED
    BY <1>2, <1>3, <1>6, <2>1 DEF Stored
<1>7. \A r \in relations' : r.owner \in Functions
  BY <1>2, <1>3 DEF Snapshots
<1> QED
  BY <1>5, <1>6, <1>7 DEF new

(* Each materialization keeps the snapshots, by whatever build.            *)
LEMMA SnapshotsStep ==
  ASSUME NamesAreNotKeys, Typed, Snapshots, [Next]_vars
  PROVE  Typed' /\ Snapshots'
<1>1. ASSUME NEW f \in Functions, NEW v \in Versions, Materialize(f, v)
      PROVE  Typed' /\ Snapshots'
  <2>1. module' = module /\ built' = [built EXCEPT ![f] = v]
    BY <1>1 DEF Materialize
  <2>2. Typed'
    BY <2>1 DEF Typed, Functions
  <2>3. v # NoFunc /\ built'[f] = v /\ \A g \in Functions : g # f => built'[g] = built[g]
    BY <2>1, FunctionGraphConstants DEF Typed
  <2>4. \A g, w : /\ Inner(g, w)' = Inner(g, w)
                  /\ Rows(g, Graph(g, w))' = Rows(g, Graph(g, w))
    BY <2>1 DEF Inner, Blocks, Operands, Rows, Graph, Body
  <2>5. \A g \in Functions :
          /\ Owned(g)' = IF built'[g] = NoFunc THEN {} ELSE Inner(g, built'[g])
          /\ Stored(g)' = IF built'[g] = NoFunc THEN {}
                          ELSE Rows(g, Graph(g, built'[g]))
    <3> SUFFICES ASSUME NEW g \in Functions
                 PROVE  /\ Owned(g)' = IF built'[g] = NoFunc THEN {}
                                       ELSE Inner(g, built'[g])
                        /\ Stored(g)' = IF built'[g] = NoFunc THEN {}
                                        ELSE Rows(g, Graph(g, built'[g]))
      OBVIOUS
    <3>1. CASE g = f
      BY <1>1, <2>3, <3>1, Replaced, Rewritten
    <3>2. CASE g # f
      <4>1. Owned(g)' = Owned(g) /\ Stored(g)' = Stored(g)
        BY <1>1, <3>2, Replaced, Rewritten
      <4> QED
        BY <2>3, <3>2, <4>1 DEF Snapshots
    <3> QED
      BY <3>1, <3>2
  <2>6. \A r \in relations' : r.owner \in Functions
    BY <1>1, Rewritten
  <2>7. Functions' = Functions
    BY <2>1 DEF Functions
  <2> QED
    BY <2>2, <2>4, <2>5, <2>6, <2>7 DEF Snapshots
<1>2. CASE UNCHANGED vars
  BY <1>2 DEF vars, Typed, Snapshots, Functions, Owned, Stored, Inner, Blocks,
              Operands, Rows, Graph, Body
<1> QED
  BY <1>1, <1>2 DEF Next

(* Every snapshot is the one its latest analysis emitted.                  *)
LEMMA SnapshotsHold ==
  ASSUME NamesAreNotKeys
  PROVE  Spec => [](Typed /\ Snapshots)
<1>1. Init => Typed /\ Snapshots
  <2> SUFFICES ASSUME Init PROVE Typed /\ Snapshots
    OBVIOUS
  <2>1. Typed
    BY DEF Init, Typed
  <2>2. \A f \in Functions : f # NoFunc
    BY <2>1, FunctionsAreNumbers DEF Typed
  <2>3. \A h \in DOMAIN owner : owner[h] = NoFunc
    BY DEF Init
  <2>4. relations = {} /\ \A f \in Functions : built[f] = NoFunc
    BY DEF Init
  <2> QED
    BY <2>1, <2>2, <2>3, <2>4 DEF Snapshots, Owned, Stored
<1>2. Typed /\ Snapshots /\ [Next]_vars => Typed' /\ Snapshots'
  BY SnapshotsStep
<1> QED
  BY <1>1, <1>2, PTL DEF Spec

(* After any sequence of materializations by any builds what is stored     *)
(* under a function is what its latest analysis emitted for its body, for  *)
(* every module in which no function is named like another one's key.      *)
THEOREM SnapshotIsTheBodyHolds ==
  ASSUME NamesAreNotKeys
  PROVE  Spec => []SnapshotIsTheBody
<1>1. Typed /\ Snapshots => SnapshotIsTheBody
  BY DEF Snapshots, SnapshotIsTheBody, Owned, Stored
<1> QED
  BY <1>1, SnapshotsHold, PTL

(* Materializing a function changes nothing of what is stored for another, *)
(* in such modules, although they share globals, constants and each        *)
(* other's handles.                                                        *)
THEOREM OthersUntouchedHolds ==
  ASSUME NamesAreNotKeys
  PROVE  Spec => OthersUntouched
<1>1. ASSUME Typed, Snapshots, [Next]_vars
      PROVE  [\A f \in Functions : built'[f] = built[f] =>
                 /\ {r \in relations' : r.owner = f} = {r \in relations : r.owner = f}
                 /\ {h \in DOMAIN owner' : owner'[h] = f}
                    = {h \in DOMAIN owner : owner[h] = f}]_vars
  <2> SUFFICES ASSUME NEW f \in Functions, NEW v \in Versions, Materialize(f, v),
                      NEW g \in Functions, built'[g] = built[g]
               PROVE  Stored(g)' = Stored(g) /\ Owned(g)' = Owned(g)
    BY <1>1 DEF Next, Stored, Owned
  <2>1. CASE g # f
    BY <1>1, <2>1, Replaced, Rewritten
  <2>2. CASE g = f
    <3>1. built[f] = v /\ v # NoFunc
      BY <1>1, <2>2, FunctionGraphConstants DEF Materialize, Typed
    <3>2. Owned(f) = Inner(f, v) /\ Stored(f) = Rows(f, Graph(f, v))
      BY <1>1, <3>1 DEF Snapshots
    <3> QED
      BY <1>1, <2>2, <3>2, Replaced, Rewritten
  <2> QED
    BY <2>1, <2>2
<1> QED
  BY <1>1, SnapshotsHold, PTL DEF Spec, OthersUntouched
-----------------------------------------------------------------------------
(* The relations guards reads are the ones that were emitted for the       *)
(* function.                                                               *)
LEMMA ControlRows ==
  ASSUME Typed, Snapshots, NEW f \in Functions, Analyzed(f), NEW b
  PROVE  Guards(f, b) =
           {[branch |-> Handle("block", f, d.branch), successor |-> d.successor] :
              d \in {d \in Emitted(module[f].cfg) : d.block = b}}
<1> DEFINE v == built[f]
           E == Emitted(module[f].cfg)
           row(g, d) == [owner |-> g, kind |-> "control",
                      src |-> Handle("block", g, d.block),
                      dst |-> Handle("block", g, d.branch), ordinal |-> d.successor]
           Asked == {r \in relations : r.kind = "control"
                                       /\ r.src = Handle("block", f, b)}
<1>1. v # NoFunc /\ "control" \in Emits[v]
  BY DEF Analyzed
<1>2. Guards(f, b) = {[branch |-> r.dst, successor |-> r.ordinal] : r \in Asked}
  BY DEF Guards
<1>3. ASSUME NEW r \in Asked
      PROVE  r \in Stored(f)
  <2>1. r.owner \in Functions /\ r \in Stored(r.owner)
    BY DEF Snapshots, Stored
  <2>2. Local(r.owner, r.src)
    BY <2>1, OwnedAreInner
  <2>3. r.src.kind = "block" /\ r.src.fn = f
    BY DEF Handle
  <2> QED
    BY <2>1, <2>2, <2>3 DEF Local
<1>4. Stored(f) = Rows(f, Graph(f, v))
  BY <1>1 DEF Snapshots
<1>5. ASSUME NEW d \in E PROVE row(f, d) \in Stored(f)
  <2> DEFINE x == [kind |-> "control", src |-> Handle("block", f, d.block),
                   dst |-> Handle("block", f, d.branch), ordinal |-> d.successor]
  <2>1. x \in Body(f)
    <3>1. x = ControlRow(f, d)
      BY DEF ControlRow, BlockOf
    <3> HIDE DEF x
    <3> QED
      BY <3>1, BodyIs
  <2>2. x \in Graph(f, v)
    BY <1>1, <2>1 DEF Graph
  <2> QED
    BY <1>4, <2>2 DEF Rows
<1>6. ASSUME NEW r \in Stored(f), r.kind = "control"
      PROVE  \E d \in E : r = row(f, d)
  <2>1. PICK x \in Body(f) :
           r = [owner |-> f, kind |-> x.kind, src |-> x.src, dst |-> x.dst,
                ordinal |-> x.ordinal]
    BY <1>4 DEF Rows, Graph
  <2>2. x.kind = "control"
    BY <1>6, <2>1
  <2>3. \E d \in E : x = [kind |-> "control", src |-> Handle("block", f, d.block),
               dst |-> Handle("block", f, d.branch), ordinal |-> d.successor]
    <3>1. x \notin ContainsRows(f) /\ \A c : x \notin EdgeRows(f, c) /\ x \notin UseRows(f, c)
      BY <2>2 DEF ContainsRows, EdgeRows, UseRows
    <3>2. \E d \in E : x = ControlRow(f, d)
      BY <3>1, BodyIs
    <3> QED
      BY <3>2 DEF ControlRow, BlockOf
  <2> QED
    BY <2>1, <2>3
<1>7. \A c : (Handle("block", f, c) = Handle("block", f, b)) <=> c = b
  BY DEF Handle
<1> HIDE DEF E
<1>8. ASSUME NEW r \in Asked
      PROVE  \E d \in E : d.block = b /\ r.dst = Handle("block", f, d.branch)
                          /\ r.ordinal = d.successor
  <2>1. PICK d \in E : r = row(f, d)
    BY <1>3, <1>6
  <2>2. Handle("block", f, d.block) = Handle("block", f, b)
    BY <2>1
  <2> QED
    BY <1>7, <2>1, <2>2
<1>9. ASSUME NEW d \in E, d.block = b
      PROVE  row(f, d) \in Asked
  BY <1>5, <1>9 DEF Stored
<1> DEFINE Found == {d \in E : d.block = b}
           answer(d) == [branch |-> Handle("block", f, d.branch),
                         successor |-> d.successor]
<1>10. Guards(f, b) \subseteq {answer(d) : d \in Found}
  <2> SUFFICES ASSUME NEW r \in Asked
               PROVE  [branch |-> r.dst, successor |-> r.ordinal] \in
                        {answer(d) : d \in Found}
    BY <1>2
  <2>1. PICK d \in E : d.block = b /\ r.dst = Handle("block", f, d.branch)
                         /\ r.ordinal = d.successor
    BY <1>8
  <2> QED
    BY <2>1
<1>11. {answer(d) : d \in Found} \subseteq Guards(f, b)
  <2> SUFFICES ASSUME NEW d \in Found
               PROVE  answer(d) \in Guards(f, b)
    OBVIOUS
  <2> DEFINE r == row(f, d)
  <2>1. r \in Asked
    BY <1>9
  <2>2. [branch |-> r.dst, successor |-> r.ordinal] = answer(d)
    OBVIOUS
  <2> HIDE DEF r, Asked, answer
  <2> QED
    BY <1>2, <2>1, <2>2
<1> QED
  BY <1>10, <1>11 DEF E

(* The answer of guards, by what the term means.                           *)
LEMMA ExactGuards ==
  ASSUME Typed, Snapshots, NEW f \in Functions, Analyzed(f), NEW b
  PROVE  /\ IsCFG(module[f].cfg)
         /\ Guards(f, b) =
              {[branch |-> Handle("block", f, d.branch), successor |-> d.successor] :
                 d \in {d \in Dependences(module[f].cfg) : d.block = b /\ d.branch # b}}
<1> DEFINE cfg == module[f].cfg
<1>1. IsCFG(cfg)
  BY FunctionGraphConstants DEF Typed, Functions
<1>2. Exit \notin DOMAIN cfg
  BY <1>1, BlocksAreFinite, FunctionGraphConstants
<1> HIDE DEF cfg
<1>3. {d \in Emitted(cfg) : d.block = b} =
        {d \in Dependences(cfg) : d.block = b /\ d.branch # b}
  BY <1>1, <1>2, EmittedIsControlDependence
<1> QED
  BY <1>1, <1>3, ControlRows DEF cfg

(* The guards of a block are exactly the branches it is control-dependent  *)
(* on, in every function of every such module.                             *)
THEOREM GuardsAreExactHolds ==
  ASSUME NamesAreNotKeys
  PROVE  Spec => []GuardsAreExact
<1>1. Typed /\ Snapshots => GuardsAreExact
  BY ExactGuards DEF GuardsAreExact
<1> QED
  BY <1>1, SnapshotsHold, PTL

(* A block that can be reached and has no guards is on every path through  *)
(* its function.                                                           *)
THEOREM UnguardedIsUnconditionalHolds ==
  ASSUME NamesAreNotKeys
  PROVE  Spec => []UnguardedIsUnconditional
<1>1. Typed /\ Snapshots => UnguardedIsUnconditional
  <2> SUFFICES ASSUME Typed, Snapshots, NEW f \in Functions, Analyzed(f),
                      NEW b \in DOMAIN module[f].cfg,
                      Guards(f, b) = {}, Leads(module[f].cfg, 1, b),
                      b \notin PostDominators(module[f].cfg)[1]
               PROVE  FALSE
    BY DEF UnguardedIsUnconditional
  <2> DEFINE cfg == module[f].cfg
             D == DOMAIN cfg
             S == {x \in D : b \notin PostDominators(cfg)[x]}
  <2>1. IsCFG(cfg) /\ \A d \in Dependences(cfg) : d.block = b => d.branch = b
    <3>1. Guards(f, b) =
            {[branch |-> Handle("block", f, d.branch), successor |-> d.successor] :
               d \in {d \in Dependences(cfg) : d.block = b /\ d.branch # b}}
      BY ExactGuards
    <3>2. {d \in Dependences(cfg) : d.block = b /\ d.branch # b} = {}
      BY <3>1
    <3>3. IsCFG(cfg)
      BY ExactGuards
    <3> QED
      BY <3>2, <3>3
  <2>2. 1 \in D /\ \A x \in D : Range(cfg[x]) \subseteq D
    BY <2>1, BlocksAreFinite
  <2>3. b \in PostDominators(cfg)[b]
    BY PostDominatesIf
  <2>4. ASSUME NEW x \in S, NEW t \in Range(cfg[x]) PROVE t \in S
    <3> SUFFICES ASSUME b \in PostDominators(cfg)[t] PROVE FALSE
      BY <2>2
    <3>1. PICK s \in DOMAIN cfg[x] : t = cfg[x][s]
      BY DEF Range
    <3>2. s \in UNION {DOMAIN cfg[c] : c \in DOMAIN cfg}
      OBVIOUS
    <3>3. [block |-> b, branch |-> x, successor |-> s] \in Dependences(cfg)
      BY <3>1, <3>2 DEF Dependences
    <3> QED
      BY <2>1, <2>3, <3>3
  <2>5. ClosedBut(cfg, S, {})
    <3> HIDE DEF S
    <3> QED
      BY <2>4 DEF ClosedBut
  <2>6. b \in S
    BY <2>2, <2>5 DEF Leads
  <2> QED
    BY <2>3, <2>6
<1> QED
  BY <1>1, SnapshotsHold, PTL
=============================================================================

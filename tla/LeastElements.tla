---------------------------- MODULE LeastElements ----------------------------
(* What stands in for induction in the other proofs: among finitely many    *)
(* sets one is minimal, among numbers one is least.                        *)
EXTENDS Naturals, FiniteSets, FiniteSetTheorems, WellFoundedInduction, TLAPS

(* Any family of subsets of a finite set has a minimal member.             *)
LEMMA MinimalSet ==
  ASSUME NEW S, IsFiniteSet(S), NEW F \in SUBSET (SUBSET S), F # {}
  PROVE  \E m \in F : \A k \in F : k \subseteq m => k = m
<1>1. F \subseteq FiniteSubsetsOf(S)
  BY FS_Subset DEF FiniteSubsetsOf
<1>2. PICK x \in F : \A y \in F : <<y, x>> \notin StrictSubsetOrdering(S)
  BY <1>1, FS_StrictSubsetOrderingWellFounded, WFMin
<1> QED
  BY <1>2 DEF StrictSubsetOrdering

(* In particular any family of sets of numbers up to n.                    *)
LEMMA MinimalSetOfNumbers ==
  ASSUME NEW n \in Nat, NEW F \in SUBSET (SUBSET (0..n)), F # {}
  PROVE  \E m \in F : \A k \in F : k \subseteq m => k = m
<1> DEFINE P(S) == \A G \in SUBSET (SUBSET S) : G # {} =>
                     \E m \in G : \A k \in G : k \subseteq m => k = m
<1>1. ASSUME NEW S, IsFiniteSet(S) PROVE P(S)
  BY <1>1, MinimalSet
<1>2. IsFiniteSet(0..n)
  BY FS_Interval
<1> HIDE DEF P
<1>3. P(0..n)
  BY <1>1, <1>2
<1> QED
  BY <1>3 DEF P

(* Any set of numbers has a least one: that of its minimal initial segment. *)
LEMMA LeastNumber ==
  ASSUME NEW T \in SUBSET Nat, T # {}
  PROVE  \E m \in T : \A k \in T : m <= k
<1>1. PICK n \in T : TRUE
  OBVIOUS
<1> DEFINE F == {0..k : k \in {k \in T : k <= n}}
<1>2. F \in SUBSET (SUBSET (0..n)) /\ F # {}
  <2>1. 0..n \in F
    BY <1>1
  <2>2. ASSUME NEW k \in T, k <= n PROVE 0..k \subseteq 0..n
    BY <2>2
  <2> QED
    BY <2>1, <2>2
<1>3. \E s \in F : \A k \in F : k \subseteq s => k = s
  <2> DEFINE P(i) == \A G \in SUBSET (SUBSET (0..i)) : G # {} =>
                       \E m \in G : \A k \in G : k \subseteq m => k = m
  <2>1. \A i \in Nat : P(i)
    BY MinimalSetOfNumbers
  <2> HIDE DEF P, F
  <2>2. P(n)
    BY <1>1, <2>1
  <2> QED
    BY <1>2, <2>2 DEF P
<1>4. PICK s \in F : \A k \in F : k \subseteq s => k = s
  BY <1>3
<1>5. PICK m \in T : m <= n /\ s = 0..m
  BY <1>4
<1>6. ASSUME NEW k \in T, ~(m <= k) PROVE FALSE
  <2>1. k \in Nat /\ k < m /\ k <= n
    BY <1>5, <1>6
  <2>2. 0..k \in F /\ 0..k \subseteq 0..m
    BY <2>1
  <2>3. 0..k = 0..m
    BY <1>4, <1>5, <2>2
  <2>4. m \in 0..m /\ m \notin 0..k
    BY <2>1
  <2> QED
    BY <2>3, <2>4
<1> QED
  BY <1>6

(* Induction, for a set of numbers.                                        *)
LEMMA AllNumbers ==
  ASSUME NEW T \in SUBSET Nat, 0 \in T, \A k \in T : k + 1 \in T
  PROVE  T = Nat
<1> SUFFICES ASSUME Nat \ T # {} PROVE FALSE
  OBVIOUS
<1>1. PICK m \in Nat \ T : \A k \in Nat \ T : m <= k
  <2> DEFINE U == Nat \ T
  <2>1. U \in SUBSET Nat /\ U # {}
    OBVIOUS
  <2> HIDE DEF U
  <2>2. \E m \in U : \A k \in U : m <= k
    BY <2>1, LeastNumber
  <2> QED
    BY <2>2 DEF U
<1>2. m # 0 /\ m - 1 \in Nat /\ ~(m <= m - 1) /\ (m - 1) + 1 = m
  BY <1>1
<1>3. m - 1 \in T
  BY <1>1, <1>2
<1> QED
  BY <1>1, <1>2, <1>3
=============================================================================

------------------------------ MODULE FoldLemmas ------------------------------
(***************************************************************************)
(* What the other proofs need of folds over finite sets. A claim about every *)
(* subset of a finite set is proved here and there by a smallest subset of   *)
(* which it would not be true.                                               *)
(***************************************************************************)
EXTENDS Integers, FiniteSets, FiniteSetTheorems, WellFoundedInduction, TLAPS

\* A set of natural numbers that is not empty has a least element.
LEMMA LeastExists ==
  ASSUME NEW S, S \subseteq Nat, S # {}
  PROVE  \E o \in S : \A q \in S : o <= q
<1> DEFINE R == OpToRel(<, Nat)
<1>1. IsWellFoundedOn(R, Nat)
  BY NatLessThanWellFounded
<1>2. \A x, y \in Nat : <<y, x>> \in R <=> y < x
  BY DEF OpToRel
<1> HIDE DEF R
<1>3. \E x \in S : \A y \in S : ~(<<y, x>> \in R)
  BY <1>1, WFMin
<1>4. PICK x \in S : \A y \in S : ~(<<y, x>> \in R)
  BY <1>3
<1>5. \A y \in S : x <= y
  <2> TAKE y \in S
  <2>1. x \in Nat /\ y \in Nat
    OBVIOUS
  <2>2. ~(y < x)
    BY <1>2, <1>4, <2>1
  <2> QED
    BY <2>1, <2>2
<1> QED
  BY <1>5

\* A subset of a finite set is finite, and one element less makes it one smaller.
LEMMA SubsetFacts ==
  ASSUME NEW F, IsFiniteSet(F), NEW s \in SUBSET F
  PROVE  /\ IsFiniteSet(s) /\ Cardinality(s) \in Nat /\ Cardinality(s) <= Cardinality(F)
         /\ Cardinality(s) = 0 <=> s = {}
         /\ \A x \in s : s \ {x} \in SUBSET F /\ Cardinality(s \ {x}) = Cardinality(s) - 1
<1>1. IsFiniteSet(s) /\ Cardinality(s) <= Cardinality(F)
  BY FS_Subset
<1>2. Cardinality(s) \in Nat /\ (Cardinality(s) = 0 <=> s = {})
  BY <1>1, FS_CardinalityType, FS_EmptySet
<1>3. \A x \in s : Cardinality(s \ {x}) = Cardinality(s) - 1
  BY <1>1, FS_RemoveElement
<1> QED
  BY <1>1, <1>2, <1>3

\* Among subsets of a finite set there is one from which no element can be taken
\* without leaving them.
LEMMA SmallestSubset ==
  ASSUME NEW F, IsFiniteSet(F), NEW B, B \subseteq SUBSET F, B # {}
  PROVE  \E s \in B : \A x \in s : s \ {x} \notin B
<1> DEFINE N == {Cardinality(s) : s \in B}
<1>1. N \subseteq Nat /\ N # {}
  BY SubsetFacts
<1>2. PICK n \in N : \A m \in N : n <= m
  BY <1>1, LeastExists
<1>3. PICK s \in B : n = Cardinality(s)
  BY <1>2
<1>4. ASSUME NEW x \in s, s \ {x} \in B
      PROVE  FALSE
  <2>1. n <= Cardinality(s \ {x})
    BY <1>2, <1>4
  <2>2. Cardinality(s \ {x}) = n - 1 /\ n \in Nat
    BY <1>3, SubsetFacts
  <2> QED
    BY <2>1, <2>2
<1> QED
  BY <1>4

\* A finite set of natural numbers that is not empty has a greatest element.
LEMMA GreatestExists ==
  ASSUME NEW F, IsFiniteSet(F), F \subseteq Nat, F # {}
  PROVE  \E x \in F : \A y \in F : y <= x
<1> DEFINE Tops(s) == {x \in s : \A y \in s : y <= x}
           Bad == {s \in SUBSET F : s # {} /\ Tops(s) = {}}
<1>1. ASSUME NEW s \in Bad, \A x \in s : s \ {x} \notin Bad
      PROVE  FALSE
  <2>1. PICK x \in s : x \in Nat /\ s \in SUBSET F /\ Tops(s) = {}
    OBVIOUS
  <2>2. \A y \in s : y \in Nat
    OBVIOUS
  <2>3. s \ {x} \notin Bad /\ s \ {x} \in SUBSET F
    BY <1>1
  <2>4. CASE s \ {x} = {}
    <3>1. \A y \in s : y <= x
      BY <2>1, <2>4
    <3> QED
      BY <2>1, <3>1
  <2>5. CASE s \ {x} # {}
    <3>1. PICK g \in s : \A y \in s \ {x} : y <= g
      BY <2>3, <2>5
    <3>2. CASE g <= x
      <4>1. \A y \in s : y <= x
        BY <2>1, <2>2, <3>1, <3>2
      <4> QED
        BY <2>1, <4>1
    <3>3. CASE x <= g
      <4>1. \A y \in s : y <= g
        BY <2>1, <2>2, <3>1, <3>3
      <4> QED
        BY <2>1, <4>1
    <3> QED
      BY <2>1, <2>2, <3>2, <3>3
  <2> QED
    BY <2>4, <2>5
<1>2. Bad = {}
  <2> HIDE DEF Bad
  <2>1. Bad \subseteq SUBSET F
    BY DEF Bad
  <2> QED
    BY <1>1, <2>1, SmallestSubset
<1> QED
  BY <1>2

\* I folds the subsets of F: each is what G makes of its last element and of the
\* fold of the others.
IsFold(I, F, V, base, G, last) ==
  /\ I \in [SUBSET F -> V] /\ I[{}] = base
  /\ \A s \in SUBSET F : s # {} => I[s] = G[<<last[s], I[s \ {last[s]}]>>]

\* The recursion of MapThenFoldSet over the subsets of a finite set has a
\* solution, whatever element it chooses and whatever it does with it.
LEMMA FoldExists ==
  ASSUME NEW F, IsFiniteSet(F), NEW V, NEW base \in V,
         NEW G \in [F \X V -> V],
         NEW last, \A s \in SUBSET F : s # {} => last[s] \in s
  PROVE  \E I : IsFold(I, F, V, base, G, last)
<1> DEFINE Level(n) == {s \in SUBSET F : Cardinality(s) <= n}
           Solves(I, n) ==
             /\ I \in [Level(n) -> V] /\ I[{}] = base
             /\ \A s \in Level(n) : s # {} => I[s] = G[<<last[s], I[s \ {last[s]}]>>]
           Solvable(n) == \E I : Solves(I, n)
           Bad == {n \in Nat : ~Solvable(n)}
<1>1. \A s \in SUBSET F : Cardinality(s) \in Nat /\ (Cardinality(s) = 0 <=> s = {})
  BY SubsetFacts
<1>2. ASSUME NEW n \in Nat, NEW s \in Level(n), s # {}
      PROVE  /\ n > 0 /\ last[s] \in F
             /\ s \ {last[s]} \in Level(n - 1) /\ s \ {last[s]} \in Level(n)
  <2>1. s \in SUBSET F /\ Cardinality(s) \in Nat /\ Cardinality(s) <= n /\ last[s] \in s
    BY <1>1, <1>2
  <2>2. Cardinality(s) # 0
    BY <1>1, <1>2, <2>1
  <2>3. s \ {last[s]} \in SUBSET F /\ Cardinality(s \ {last[s]}) = Cardinality(s) - 1
    BY <2>1, SubsetFacts
  <2> QED
    BY <2>1, <2>2, <2>3
<1>3. \A n \in Nat : {} \in Level(n)
  BY <1>1
<1>4. Bad = {}
  <2> SUFFICES ASSUME Bad # {}
               PROVE  FALSE
    OBVIOUS
  <2>1. PICK k \in Bad : \A n \in Bad : k <= n
    BY LeastExists
  <2> HIDE DEF Solvable
  <2>2. k \in Nat /\ ~Solvable(k) /\ \A n \in Nat : n < k => Solvable(n)
    BY <2>1
  <2> HIDE DEF Bad
  <2>3. CASE k = 0
    <3> DEFINE J == [s \in Level(k) |-> base]
    <3>1. ASSUME NEW s \in Level(k)
          PROVE  s = {}
      <4>1. s # {} => k > 0
        BY <1>2, <2>2
      <4> QED
        BY <2>3, <4>1
    <3>2. J \in [Level(k) -> V] /\ J[{}] = base
      BY <1>3, <2>2
    <3> HIDE DEF J
    <3>3. Solves(J, k)
      BY <3>1, <3>2
    <3> QED
      BY <2>2, <3>3 DEF Solvable
  <2>4. CASE k # 0
    <3>1. k - 1 \in Nat /\ k - 1 < k
      BY <2>2, <2>4
    <3>2. PICK I : Solves(I, k - 1)
      BY <2>2, <3>1 DEF Solvable
    <3> DEFINE J == [s \in Level(k) |->
                      IF s = {} THEN base ELSE G[<<last[s], I[s \ {last[s]}]>>]]
    <3> HIDE DEF Level
    <3>3. \A s \in Level(k) : s # {} =>
            last[s] \in F /\ s \ {last[s]} \in Level(k - 1) /\ s \ {last[s]} \in Level(k)
      BY <1>2, <2>2
    <3>4. J \in [Level(k) -> V]
      BY <3>2, <3>3
    <3>5. J[{}] = base /\ \A s \in Level(k - 1) : s \in Level(k)
      BY <1>1, <1>3, <2>2 DEF Level
    <3>6. \A s \in Level(k - 1) : J[s] = I[s]
      BY <3>2, <3>5
    <3>7. \A s \in Level(k) : s # {} => J[s] = G[<<last[s], J[s \ {last[s]}]>>]
      BY <3>3, <3>6
    <3> HIDE DEF J
    <3>8. Solves(J, k)
      BY <3>4, <3>5, <3>7
    <3> QED
      BY <2>2, <3>8 DEF Solvable
  <2> QED
    BY <2>3, <2>4
<1>5. Cardinality(F) \in Nat /\ Level(Cardinality(F)) = SUBSET F
  BY SubsetFacts
<1>6. Solvable(Cardinality(F))
  <2> HIDE DEF Solvable
  <2> QED
    BY <1>4, <1>5
<1>7. PICK I : Solves(I, Cardinality(F))
  BY <1>6
<1> QED
  BY <1>5, <1>7 DEF IsFold
=============================================================================

----------------------------- MODULE OrderProofs -----------------------------
(***************************************************************************)
(* Facts about numbers and finite sets that every proof of the project     *)
(* rests on: a least and a largest element exist, and elements of every    *)
(* rank.  They are inductions over a number or over the size of a set,     *)
(* carried out as arguments about a smallest counterexample.               *)
(***************************************************************************)
EXTENDS Integers, FiniteSets, FiniteSetTheorems, TLAPS

\* A non-empty set of natural numbers has a least element.
LEMMA LeastNatural ==
    ASSUME NEW T, T \subseteq Nat, T # {}
    PROVE  \E x \in T : \A y \in T : x <= y
<1> DEFINE R == OpToRel(<, Nat)
<1>1. IsWellFoundedOn(R, Nat)
  BY NatLessThanWellFounded
<1>2. PICK x \in T : \A y \in T : ~ (<<y, x>> \in R)
  <2> HIDE DEF R
  <2> QED  BY <1>1, WFMin
<1>3. \A y \in T : x <= y
  <2> SUFFICES ASSUME NEW y \in T, y < x PROVE FALSE
    OBVIOUS
  <2>1. <<y, x>> \in Nat \X Nat
    OBVIOUS
  <2>2. <<y, x>> \in R
    BY <2>1 DEF OpToRel
  <2> QED  BY <1>2, <2>2
<1> QED  BY <1>2, <1>3

\* Among the subsets of a finite set that have some property, one has the
\* fewest elements: no subset of it with an element less has the property.
LEMMA SmallestSubset ==
    ASSUME NEW S, IsFiniteSet(S), NEW Bad, Bad \subseteq SUBSET S, Bad # {}
    PROVE  \E A \in Bad : /\ IsFiniteSet(A)
                          /\ \A x \in A : A \ {x} \notin Bad
<1> DEFINE Sizes == {Cardinality(A) : A \in Bad}
<1>1. \A A \in Bad : IsFiniteSet(A) /\ Cardinality(A) \in Nat
  BY FS_Subset, FS_CardinalityType
<1>2. Sizes \subseteq Nat /\ Sizes # {}
  BY <1>1
<1>3. PICK n \in Sizes : \A m \in Sizes : n <= m
  <2> HIDE DEF Sizes
  <2> QED  BY <1>2, LeastNatural
<1>4. PICK A \in Bad : Cardinality(A) = n
  BY <1>3
<1>5. ASSUME NEW x \in A PROVE A \ {x} \notin Bad
  <2>1. n \in Nat /\ Cardinality(A \ {x}) = n - 1
    BY <1>1, <1>4, FS_RemoveElement
  <2>2. n - 1 \notin Sizes
    <3> HIDE DEF Sizes
    <3> QED  BY <1>3, <2>1
  <2> QED  BY <2>1, <2>2
<1> QED  BY <1>1, <1>5

\* A non-empty finite set of natural numbers has a largest element.
LEMMA LargestExists ==
    ASSUME NEW S, S \subseteq Nat, IsFiniteSet(S), S # {}
    PROVE  \E x \in S : \A y \in S : x >= y
<1> DEFINE HasMax(A) == \E x \in A : \A y \in A : x >= y
           Bad == {A \in SUBSET S : A # {} /\ ~HasMax(A)}
<1>1. SUFFICES ASSUME Bad # {} PROVE FALSE
  OBVIOUS
<1>2. PICK A \in Bad : \A x \in A : A \ {x} \notin Bad
  <2> HIDE DEF Bad
  <2>1. Bad \subseteq SUBSET S
    BY DEF Bad
  <2> QED  BY <1>1, <2>1, SmallestSubset
<1>3. A \subseteq Nat /\ A # {}
  OBVIOUS
<1>4. PICK x \in A : TRUE
  BY <1>3
<1>5. A \ {x} # {}
  <2> SUFFICES ASSUME A = {x} PROVE FALSE
    BY <1>4
  <2>1. HasMax(A)
    BY <1>3
  <2> QED  BY <2>1
<1>6. HasMax(A \ {x})
  BY <1>2, <1>5
<1>7. PICK m \in A \ {x} : \A y \in A \ {x} : m >= y
  BY <1>6
<1>8. HasMax(A)
  <2>1. CASE m >= x
    <3>1. \A y \in A : m >= y
      BY <1>7, <2>1
    <3> QED  BY <3>1
  <2>2. CASE ~(m >= x)
    <3>1. \A y \in A : x >= y
      BY <1>3, <1>7, <2>2
    <3> QED  BY <3>1
  <2> QED  BY <2>1, <2>2
<1> QED  BY <1>8

-----------------------------------------------------------------------------
UpTo(S, x) == {y \in S : y <= x}

\* A finite set of n numbers has an element of every rank from 1 to n.
LEMMA RankExists ==
    ASSUME NEW S, S \subseteq Nat, IsFiniteSet(S),
           NEW n \in 1 .. Cardinality(S)
    PROVE  \E x \in S : Cardinality(UpTo(S, x)) = n
<1> DEFINE Ranked(A) == \A i \in 1 .. Cardinality(A) :
                            \E x \in A : Cardinality(UpTo(A, x)) = i
           Bad == {A \in SUBSET S : ~Ranked(A)}
<1>1. SUFFICES ASSUME Bad # {} PROVE FALSE
  OBVIOUS
<1>2. PICK A \in Bad : IsFiniteSet(A) /\ \A x \in A : A \ {x} \notin Bad
  <2> HIDE DEF Bad
  <2>1. Bad \subseteq SUBSET S
    BY DEF Bad
  <2> QED  BY <1>1, <2>1, SmallestSubset
<1>3. A \subseteq Nat /\ Cardinality(A) \in Nat
  BY <1>2, FS_CardinalityType
<1>4. A # {}
  <2> SUFFICES ASSUME A = {} PROVE FALSE
    OBVIOUS
  <2>1. Cardinality(A) = 0
    BY FS_EmptySet
  <2>2. Ranked(A)
    BY <2>1
  <2> QED  BY <2>2
<1>5. PICK m \in A : \A y \in A : m >= y
  BY <1>2, <1>3, <1>4, LargestExists
<1>6. Cardinality(A \ {m}) = Cardinality(A) - 1
  BY <1>2, FS_RemoveElement
<1>7. Ranked(A \ {m})
  BY <1>2
<1>8. UpTo(A, m) = A
  BY <1>5 DEF UpTo
<1>9. \A x \in A \ {m} : UpTo(A, x) = UpTo(A \ {m}, x)
  BY <1>3, <1>5 DEF UpTo
<1>10. Ranked(A)
  <2> SUFFICES ASSUME NEW i \in 1 .. Cardinality(A)
               PROVE  \E x \in A : Cardinality(UpTo(A, x)) = i
    OBVIOUS
  <2>1. CASE i = Cardinality(A)
    BY <1>8, <2>1
  <2>2. CASE i # Cardinality(A)
    <3>1. i \in 1 .. Cardinality(A \ {m})
      BY <1>3, <1>6, <2>2
    <3>2. PICK x \in A \ {m} : Cardinality(UpTo(A \ {m}, x)) = i
      BY <1>7, <3>1
    <3> QED  BY <1>9, <3>2
  <2> QED  BY <2>1, <2>2
<1> QED  BY <1>10

\* Two elements of a finite set of numbers do not have the same rank.
LEMMA RankUnique ==
    ASSUME NEW S, S \subseteq Nat, IsFiniteSet(S), NEW x \in S, NEW y \in S,
           Cardinality(UpTo(S, x)) = Cardinality(UpTo(S, y))
    PROVE  x = y
<1>1. x \in Nat /\ y \in Nat /\ \A z \in S : z \in Nat
  OBVIOUS
<1>2. UpTo(S, x) \subseteq UpTo(S, y) \/ UpTo(S, y) \subseteq UpTo(S, x)
  <2>1. CASE x <= y
    <3>1. \A z \in S : z <= x => z <= y
      BY <1>1, <2>1
    <3> QED  BY <3>1 DEF UpTo
  <2>2. CASE y <= x
    <3>1. \A z \in S : z <= y => z <= x
      BY <1>1, <2>2
    <3> QED  BY <3>1 DEF UpTo
  <2> QED  BY <1>1, <2>1, <2>2
<1>3. UpTo(S, x) = UpTo(S, y)
  <2>1. IsFiniteSet(UpTo(S, x)) /\ IsFiniteSet(UpTo(S, y))
    BY FS_Subset DEF UpTo
  <2> QED  BY <1>2, <2>1, FS_Subset
<1>4. x <= y /\ y <= x
  BY <1>1, <1>3 DEF UpTo
<1> QED  BY <1>1, <1>4

\* The rank of an element of a set of n numbers is a number from 1 to n.
LEMMA RankType ==
    ASSUME NEW S, S \subseteq Nat, IsFiniteSet(S), NEW x \in S
    PROVE  Cardinality(UpTo(S, x)) \in 1 .. Cardinality(S)
<1>1. UpTo(S, x) \subseteq S /\ x \in UpTo(S, x)
  BY DEF UpTo
<1>2. /\ Cardinality(UpTo(S, x)) \in Nat /\ Cardinality(UpTo(S, x)) # 0
      /\ Cardinality(UpTo(S, x)) <= Cardinality(S) /\ Cardinality(S) \in Nat
  BY <1>1, FS_Subset, FS_CardinalityType, FS_EmptySet
<1> QED  BY <1>2

=============================================================================

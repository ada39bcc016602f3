--------------------------- MODULE MemTableProofs ---------------------------
(***************************************************************************)
(* Proofs about MemTable for every finite set of keys and all sizes of     *)
(* keys and values: the size that put and erase keep up is the size of the *)
(* entries.  The sum behind recompute_size is a fold over a set, which     *)
(* takes the elements in an order of its own; the lemmas show that the     *)
(* order does not matter, so that one entry can be taken out of the sum.   *)
(***************************************************************************)
EXTENDS MemTable, OrderProofs

-----------------------------------------------------------------------------
(***************************************************************************)
(* Sums over finite sets.                                                  *)
(***************************************************************************)

\* The element the fold takes first.
Some(s) == CHOOSE x \in s : TRUE

\* The sum of the weights w of the set s, from the sums f of smaller sets.
SumStep(f, w, s) == IF s = {} THEN 0 ELSE w[Some(s)] + f[s \ {Some(s)}]

\* f has the sum of every set in D.
Sums(f, w, D) == f = [s \in D |-> SumStep(f, w, s)]

\* What Sums says of one set.
LEMMA SumsAt ==
    ASSUME NEW f, NEW w, NEW D, Sums(f, w, D), NEW s \in D
    PROVE  f[s] = SumStep(f, w, s)
<1>1. [t \in D |-> SumStep(f, w, t)][s] = SumStep(f, w, s)
  OBVIOUS
<1> QED  BY <1>1 DEF Sums

\* The subsets of S with at most n elements.
Small(S, n) == {s \in SUBSET S : Cardinality(s) <= n}

\* The set without the element the fold takes first is smaller.
LEMMA SmallerIsSmall ==
    ASSUME NEW S, IsFiniteSet(S), NEW n \in Nat, NEW s \in Small(S, n + 1), s # {}
    PROVE  /\ Some(s) \in s
           /\ s \ {Some(s)} \in Small(S, n)
<1>1. Some(s) \in s
  BY DEF Some
<1>2. IsFiniteSet(s) /\ s \subseteq S /\ Cardinality(s) <= n + 1
  BY FS_Subset DEF Small
<1>3. Cardinality(s) \in Nat /\ Cardinality(s \ {Some(s)}) = Cardinality(s) - 1
  BY <1>1, <1>2, FS_CardinalityType, FS_RemoveElement
<1>4. Cardinality(s) - 1 <= n
  BY <1>2, <1>3
<1> QED  BY <1>1, <1>2, <1>3, <1>4 DEF Small

\* The recursion of the fold has a solution, for sets of any size.
LEMMA SumsOfSmallExist ==
    ASSUME NEW S, IsFiniteSet(S), NEW w, NEW N \in Nat
    PROVE  \E f : Sums(f, w, Small(S, N))
<1> DEFINE Good(n) == \E f : Sums(f, w, Small(S, n))
           Bad == {n \in Nat : ~Good(n)}
<1>1. SUFFICES ASSUME Bad # {} PROVE FALSE
  OBVIOUS
<1>2. PICK b \in Bad : \A c \in Bad : b <= c
  <2> HIDE DEF Bad
  <2>1. Bad \subseteq Nat
    BY DEF Bad
  <2> QED  BY <1>1, <2>1, LeastNatural
<1>3. b # 0
  <2> SUFFICES Good(0)
    OBVIOUS
  <2> DEFINE D == Small(S, 0)
             f == [s \in D |-> 0]
  <2>1. \A s \in D : s = {}
    <3> SUFFICES ASSUME NEW s \in D PROVE s = {}
      OBVIOUS
    <3>1. IsFiniteSet(s) /\ Cardinality(s) <= 0
      BY FS_Subset DEF Small
    <3>2. Cardinality(s) \in Nat
      BY <3>1, FS_CardinalityType
    <3> QED  BY <3>1, <3>2, FS_EmptySet
  <2> HIDE DEF D
  <2>2. f = [s \in D |-> SumStep(f, w, s)]
    BY <2>1 DEF SumStep
  <2> QED  BY <2>2 DEF D, Sums
<1>4. PICK n \in Nat : b = n + 1
  <2>1. b \in Nat /\ b - 1 \in Nat /\ b = (b - 1) + 1
    BY <1>3
  <2> QED  BY <2>1
<1>5. PICK f : Sums(f, w, Small(S, n))
  <2>1. n \notin Bad
    <3> HIDE DEF Bad
    <3> QED  BY <1>2, <1>4
  <2> QED  BY <2>1
<1> DEFINE D == Small(S, n + 1)
           g == [s \in D |-> SumStep(f, w, s)]
<1>6. ASSUME NEW s \in D
      PROVE  SumStep(g, w, s) = SumStep(f, w, s)
  <2>1. CASE s = {}
    BY <2>1 DEF SumStep
  <2>2. CASE s # {}
    <3> DEFINE t == s \ {Some(s)}
    <3>1. t \in Small(S, n)
      BY <2>2, SmallerIsSmall
    <3>2. t \in D
      <4>1. t \subseteq S /\ IsFiniteSet(t) /\ Cardinality(t) <= n
        BY <3>1, FS_Subset DEF Small
      <4>2. Cardinality(t) <= n + 1
        BY <4>1, FS_CardinalityType
      <4> HIDE DEF t
      <4> QED  BY <4>1, <4>2 DEF Small
    <3> HIDE DEF t
    <3>3. f[t] = SumStep(f, w, t)
      BY <1>5, <3>1, SumsAt
    <3>4. g[t] = SumStep(f, w, t)
      BY <3>2
    <3> HIDE DEF g
    <3> QED  BY <2>2, <3>3, <3>4 DEF SumStep, t
  <2> QED  BY <2>1, <2>2
<1>7. g = [s \in D |-> SumStep(g, w, s)]
  <2>1. [s \in D |-> SumStep(f, w, s)] = [s \in D |-> SumStep(g, w, s)]
    <3> HIDE DEF D, g
    <3> QED  BY <1>6
  <2> QED  BY <2>1
<1>8. Good(n + 1)
  <2> HIDE DEF g
  <2> QED  BY <1>7 DEF Sums
<1> QED  BY <1>4, <1>8

\* The fold over a finite set has a solution.
LEMMA SumsExist ==
    ASSUME NEW S, IsFiniteSet(S), NEW w
    PROVE  \E f : Sums(f, w, SUBSET S)
<1>1. Cardinality(S) \in Nat
  BY FS_CardinalityType
<1>2. Small(S, Cardinality(S)) = SUBSET S
  <2>1. \A s \in SUBSET S : Cardinality(s) <= Cardinality(S)
    BY FS_Subset
  <2> QED  BY <2>1 DEF Small
<1>3. \E f : Sums(f, w, Small(S, Cardinality(S)))
  BY <1>1, SumsOfSmallExist, Zenon
<1> QED  BY <1>2, <1>3, Zenon

\* The sum of the weights of S.
SumsOf(w, S) == CHOOSE f : Sums(f, w, SUBSET S)
Total(w, S) == SumsOf(w, S)[S]

\* f has the sums of the weights v in S, g those of w in T, and A has the
\* same weights in both.
Comparable(A, f, v, S, g, w, T) ==
    /\ A \subseteq S /\ A \subseteq T /\ \A x \in A : v[x] = w[x]
    /\ Sums(f, v, SUBSET S) /\ Sums(g, w, SUBSET T)

\* Then it has the same sum in both.
LEMMA SumsAgree ==
    ASSUME NEW A, IsFiniteSet(A), NEW f, NEW v, NEW S, NEW g, NEW w, NEW T,
           Comparable(A, f, v, S, g, w, T)
    PROVE  f[A] = g[A]
<1> USE DEF Comparable
<1> DEFINE Bad == {B \in SUBSET A : f[B] # g[B]}
<1>1. SUFFICES ASSUME Bad # {} PROVE FALSE
  OBVIOUS
<1>2. PICK B \in Bad : \A x \in B : B \ {x} \notin Bad
  <2> HIDE DEF Bad
  <2>1. Bad \subseteq SUBSET A
    BY DEF Bad
  <2> QED  BY <1>1, <2>1, SmallestSubset
<1>3. B \subseteq A /\ f[B] # g[B]
  BY <1>2
<1>4. f[B] = SumStep(f, v, B) /\ g[B] = SumStep(g, w, B)
  <2>1. B \in SUBSET S /\ B \in SUBSET T
    BY <1>3
  <2> QED  BY <2>1, SumsAt
<1>5. B # {}
  BY <1>3, <1>4 DEF SumStep
<1>6. Some(B) \in B
  BY <1>5 DEF Some
<1>7. f[B \ {Some(B)}] = g[B \ {Some(B)}]
  BY <1>2, <1>3, <1>6
<1>8. v[Some(B)] = w[Some(B)]
  BY <1>3, <1>6
<1> QED  BY <1>3, <1>4, <1>5, <1>7, <1>8 DEF SumStep

\* A sum of natural numbers is one.
LEMMA SumsType ==
    ASSUME NEW S, IsFiniteSet(S), NEW w, \A x \in S : w[x] \in Nat,
           NEW f, Sums(f, w, SUBSET S), NEW A \in SUBSET S
    PROVE  f[A] \in Nat
<1> DEFINE Bad == {B \in SUBSET S : f[B] \notin Nat}
<1>1. SUFFICES ASSUME Bad # {} PROVE FALSE
  OBVIOUS
<1>2. PICK B \in Bad : \A x \in B : B \ {x} \notin Bad
  <2> HIDE DEF Bad
  <2>1. Bad \subseteq SUBSET S
    BY DEF Bad
  <2> QED  BY <1>1, <2>1, SmallestSubset
<1>3. B \subseteq S /\ f[B] \notin Nat
  BY <1>2
<1>4. f[B] = SumStep(f, w, B)
  BY <1>3, SumsAt
<1>5. B # {}
  BY <1>3, <1>4 DEF SumStep
<1>6. Some(B) \in B
  BY <1>5 DEF Some
<1>7. f[B \ {Some(B)}] \in Nat
  BY <1>2, <1>3, <1>6
<1>8. w[Some(B)] \in Nat
  BY <1>3, <1>6
<1> QED  BY <1>3, <1>4, <1>5, <1>7, <1>8 DEF SumStep

\* Any element can be taken out first.
LEMMA SumsAnyOrder ==
    ASSUME NEW S, IsFiniteSet(S), NEW w, \A x \in S : w[x] \in Nat,
           NEW f, Sums(f, w, SUBSET S), NEW A \in SUBSET S, NEW a \in A
    PROVE  f[A] = w[a] + f[A \ {a}]
<1> DEFINE Free(B) == \A x \in B : f[B] = w[x] + f[B \ {x}]
           Bad == {B \in SUBSET S : ~Free(B)}
<1>1. SUFFICES ASSUME Bad # {} PROVE FALSE
  OBVIOUS
<1>2. PICK B \in Bad : \A x \in B : B \ {x} \notin Bad
  <2> HIDE DEF Bad
  <2>1. Bad \subseteq SUBSET S
    BY DEF Bad
  <2> QED  BY <1>1, <2>1, SmallestSubset
<1>3. B \in SUBSET S /\ ~Free(B)
  BY <1>2
<1>4. PICK x \in B : f[B] # w[x] + f[B \ {x}]
  BY <1>3
<1> DEFINE y == Some(B)
<1>5. y \in B
  BY <1>4 DEF Some
<1>6. f[B] = w[y] + f[B \ {y}]
  <2>1. f[B] = SumStep(f, w, B)
    BY <1>3, SumsAt
  <2> QED  BY <1>4, <2>1 DEF SumStep
<1> HIDE DEF y
<1>7. x # y
  BY <1>4, <1>6
<1>8. Free(B \ {x}) /\ Free(B \ {y})
  BY <1>2, <1>3, <1>4, <1>5
<1> DEFINE r == f[(B \ {x}) \ {y}]
<1>9. f[B \ {x}] = w[y] + r
  BY <1>4, <1>5, <1>7, <1>8
<1>10. f[B \ {y}] = w[x] + r
  <2>1. (B \ {y}) \ {x} = (B \ {x}) \ {y}
    OBVIOUS
  <2>2. f[B \ {y}] = w[x] + f[(B \ {y}) \ {x}]
    BY <1>4, <1>7, <1>8
  <2> QED  BY <2>1, <2>2
<1>11. r \in Nat /\ w[x] \in Nat /\ w[y] \in Nat
  <2>1. (B \ {x}) \ {y} \in SUBSET S /\ x \in S /\ y \in S
    BY <1>3, <1>4, <1>5
  <2> QED  BY <2>1, SumsType
<1> HIDE DEF r
<1> QED  BY <1>4, <1>6, <1>9, <1>10, <1>11

\* What the proofs about MemTable use: a total is a number, it depends on
\* the weights of its elements only, and one of them can be taken out.
LEMMA TotalFacts ==
    ASSUME NEW S, IsFiniteSet(S), NEW w, \A x \in S : w[x] \in Nat
    PROVE  /\ Total(w, S) \in Nat
           /\ Total(w, {}) = 0
           /\ \A v : (\A x \in S : v[x] = w[x]) => Total(v, S) = Total(w, S)
           /\ \A a \in S : Total(w, S) = w[a] + Total(w, S \ {a})
<1>1. ASSUME NEW T, IsFiniteSet(T), NEW v PROVE Sums(SumsOf(v, T), v, SUBSET T)
  BY <1>1, SumsExist, Zenon DEF SumsOf
<1> DEFINE f == SumsOf(w, S)
<1>2. Sums(f, w, SUBSET S) /\ Total(w, S) = f[S] /\ S \in SUBSET S
  BY <1>1 DEF Total
<1> HIDE DEF f
<1>3. Total(w, S) \in Nat
  BY <1>2, SumsType
<1>4. Total(w, {}) = 0
  <2>1. Sums(SumsOf(w, {}), w, SUBSET {}) /\ {} \in SUBSET {}
    BY <1>1, FS_EmptySet
  <2> QED  BY <2>1, SumsAt DEF Total, SumStep
<1>5. ASSUME NEW v, \A x \in S : v[x] = w[x] PROVE Total(v, S) = Total(w, S)
  <2> DEFINE g == SumsOf(v, S)
  <2>1. Sums(g, v, SUBSET S) /\ Total(v, S) = g[S]
    BY <1>1 DEF Total
  <2> HIDE DEF g
  <2>2. g[S] = f[S]
    <3>1. Comparable(S, g, v, S, f, w, S)
      BY <1>2, <1>5, <2>1 DEF Comparable
    <3> QED  BY <3>1, SumsAgree
  <2> QED  BY <1>2, <2>1, <2>2
<1>6. ASSUME NEW a \in S PROVE Total(w, S) = w[a] + Total(w, S \ {a})
  <2> DEFINE A == S \ {a}
             g == SumsOf(w, A)
  <2>1. IsFiniteSet(A) /\ A \subseteq S
    BY FS_Subset
  <2>2. Sums(g, w, SUBSET A) /\ Total(w, A) = g[A]
    BY <1>1, <2>1 DEF Total
  <2>3. f[S] = w[a] + f[A]
    BY <1>2, SumsAnyOrder
  <2> HIDE DEF A, g
  <2>4. f[A] = g[A]
    <3>1. Comparable(A, f, w, S, g, w, A)
      BY <1>2, <2>1, <2>2 DEF Comparable
    <3> QED  BY <2>1, <3>1, SumsAgree
  <2> QED  BY <1>2, <2>2, <2>3, <2>4 DEF A
<1> QED  BY <1>3, <1>4, <1>5, <1>6

-----------------------------------------------------------------------------
(***************************************************************************)
(* recompute_size.                                                         *)
(***************************************************************************)

\* What each entry of a map contributes.
Weights(m) == [k \in Keys |-> KeySize[k] + StoredSize(m[k])]

\* MapSize is the total of the weights.
LEMMA MapSizeIsTotal ==
    ASSUME NEW m \in Map
    PROVE  MapSize(m) = Total(Weights(m), Present(m))
<1> DEFINE P == Present(m)
           step(f, s) == IF s = {} THEN 0
                         ELSE (KeySize[Some(s)] + StoredSize(m[Some(s)]))
                                + f[s \ {Some(s)}]
<1>1. MapSize(m) = (CHOOSE f : f = [s \in SUBSET P |-> step(f, s)])[P]
  BY DEF MapSize, MapThenSumSet, MapThenFoldSet, Some
<1>2. ASSUME NEW f, NEW s \in SUBSET P
      PROVE  step(f, s) = SumStep(f, Weights(m), s)
  <2>1. CASE s = {}
    BY <2>1 DEF SumStep
  <2>2. CASE s # {}
    <3>1. Some(s) \in Keys
      BY <2>2 DEF Some, Present
    <3> QED  BY <2>2, <3>1 DEF SumStep, Weights
  <2> QED  BY <2>1, <2>2
<1>3. ASSUME NEW f
      PROVE  [s \in SUBSET P |-> step(f, s)] = [s \in SUBSET P |-> SumStep(f, Weights(m), s)]
  <2> HIDE DEF step, P
  <2> QED  BY <1>2
<1>4. (CHOOSE f : f = [s \in SUBSET P |-> step(f, s)]) = SumsOf(Weights(m), P)
  <2> HIDE DEF step, P
  <2> QED  BY <1>3 DEF SumsOf, Sums
<1> QED  BY <1>1, <1>4 DEF Total

\* The facts about totals, for a map.
LEMMA PresentFacts ==
    ASSUME NEW m \in Map
    PROVE  /\ IsFiniteSet(Present(m))
           /\ \A k \in Present(m) : /\ Weights(m)[k] = KeySize[k] + StoredSize(m[k])
                                    /\ Weights(m)[k] \in Nat
           /\ MapSize(m) \in Nat
<1>1. IsFiniteSet(Present(m))
  BY KeysAssumption, FS_Subset DEF Present
<1>2. ASSUME NEW k \in Present(m)
      PROVE  /\ Weights(m)[k] = KeySize[k] + StoredSize(m[k])
             /\ Weights(m)[k] \in Nat
  <2>1. k \in Keys /\ m[k] \in Values \cup {Tombstone}
    BY DEF Present, Map, Entry
  <2>2. KeySize[k] \in Nat /\ StoredSize(m[k]) \in Nat
    BY <2>1, SizeAssumption DEF StoredSize
  <2> QED  BY <2>1, <2>2 DEF Weights
<1>3. MapSize(m) \in Nat
  BY <1>1, <1>2, TotalFacts, MapSizeIsTotal
<1> QED  BY <1>1, <1>2, <1>3

\* The map without its entry for k.
Without(m, k) == [m EXCEPT ![k] = Absent]

\* One entry can be taken out of the size.
LEMMA MapSizeSplits ==
    ASSUME NEW m \in Map, NEW k \in Keys
    PROVE  /\ MapSize(Without(m, k)) \in Nat
           /\ m[k] # Absent =>
                MapSize(m) = (KeySize[k] + StoredSize(m[k])) + MapSize(Without(m, k))
           /\ m[k] = Absent => MapSize(m) = MapSize(Without(m, k))
<1> DEFINE r == Without(m, k)
           A == Present(r)
<1>1. r \in Map
  BY DEF Without, Map
<1>2. \A j \in Keys : r[j] = IF j = k THEN Absent ELSE m[j]
  BY DEF Without, Map
<1>3. A = Present(m) \ {k}
  BY <1>2 DEF Present
<1>4. MapSize(r) \in Nat /\ IsFiniteSet(A) /\ \A j \in A : Weights(r)[j] \in Nat
  BY <1>1, PresentFacts
<1>5. \A j \in A : Weights(m)[j] = Weights(r)[j]
  <2>1. \A j \in A : j \in Keys /\ r[j] = m[j]
    BY <1>2, <1>3 DEF Present
  <2> QED  BY <2>1 DEF Weights
<1>6. Total(Weights(m), A) = MapSize(r)
  <2>1. Total(Weights(m), A) = Total(Weights(r), A)
    BY <1>4, <1>5, TotalFacts
  <2> QED  BY <1>1, <2>1, MapSizeIsTotal
<1>7. CASE m[k] # Absent
  <2>1. k \in Present(m)
    BY <1>7 DEF Present
  <2>2. Total(Weights(m), Present(m)) = Weights(m)[k] + Total(Weights(m), A)
    BY <1>3, <2>1, PresentFacts, TotalFacts
  <2>3. Weights(m)[k] = KeySize[k] + StoredSize(m[k])
    BY <2>1, PresentFacts
  <2> QED  BY <1>4, <1>6, <1>7, <2>2, <2>3, MapSizeIsTotal
<1>8. CASE m[k] = Absent
  <2>1. r = m
    BY <1>8 DEF Without, Map
  <2> QED  BY <1>4, <1>8, <2>1
<1> QED  BY <1>7, <1>8

\* Storing an entry: what put and erase add to and take from the size.
LEMMA MapSizeUpdate ==
    ASSUME NEW m \in Map, NEW k \in Keys, NEW e \in Entry
    PROVE  /\ [m EXCEPT ![k] = e] \in Map
           /\ MapSize([m EXCEPT ![k] = e]) =
                IF m[k] # Absent
                THEN MapSize(m) - (KeySize[k] + StoredSize(m[k]))
                        + (KeySize[k] + StoredSize(e))
                ELSE MapSize(m) + KeySize[k] + StoredSize(e)
<1> DEFINE n == [m EXCEPT ![k] = e]
           rest == MapSize(Without(m, k))
<1>1. n \in Map /\ n[k] = e /\ e # Absent /\ Without(n, k) = Without(m, k)
  BY SentinelAssumption DEF Map, Entry, Without
<1> HIDE DEF n
<1>2. MapSize(n) = (KeySize[k] + StoredSize(e)) + rest
  BY <1>1, MapSizeSplits
<1>3. /\ m[k] # Absent => MapSize(m) = (KeySize[k] + StoredSize(m[k])) + rest
      /\ m[k] = Absent => MapSize(m) = rest
      /\ rest \in Nat
  BY MapSizeSplits
<1>4. KeySize[k] \in Nat /\ \A x \in Entry : StoredSize(x) \in Nat
  BY SizeAssumption DEF Entry, StoredSize
<1>5. m[k] # Absent => m[k] \in Entry
  BY DEF Map
<1> HIDE DEF rest
<1>6. CASE m[k] # Absent
  <2>1. StoredSize(m[k]) \in Nat /\ StoredSize(e) \in Nat
    BY <1>4, <1>5, <1>6
  <2> QED  BY <1>1, <1>2, <1>3, <1>4, <1>6, <2>1 DEF n
<1>7. CASE m[k] = Absent
  <2>1. StoredSize(e) \in Nat
    BY <1>4
  <2> QED  BY <1>1, <1>2, <1>3, <1>4, <1>7, <2>1 DEF n
<1> QED  BY <1>6, <1>7

\* The empty map has no size.
LEMMA MapSizeEmpty == EmptyMap \in Map /\ MapSize(EmptyMap) = 0
<1>1. EmptyMap \in Map /\ Present(EmptyMap) = {}
  BY DEF EmptyMap, Map, Present
<1>2. Total(Weights(EmptyMap), {}) = 0
  BY FS_EmptySet, TotalFacts
<1> QED  BY <1>1, <1>2, MapSizeIsTotal

-----------------------------------------------------------------------------
(***************************************************************************)
(* The theorems.                                                           *)
(***************************************************************************)

\* The inductive invariant.
MemTableInv == data \in Map /\ SizeIsExact

\* Every call keeps the size exact.
LEMMA MemTableNext ==
    ASSUME MemTableInv, [Next]_vars
    PROVE  MemTableInv'
<1> USE DEF MemTableInv
<1>1. CASE \E k \in Keys, v \in Values : Put(k, v)
  <2> PICK k \in Keys, v \in Values : Put(k, v)
    BY <1>1
  <2>1. v \in Entry /\ StoredSize(v) = ValueSize[v]
    BY SentinelAssumption DEF Entry, StoredSize
  <2> QED  BY <2>1, MapSizeUpdate DEF Put, SizeIsExact
<1>2. CASE \E k \in Keys : Erase(k)
  <2> PICK k \in Keys : Erase(k)
    BY <1>2
  <2> DEFINE old == KeySize[k] + StoredSize(data[k])
             total == MapSize(data)
             new == MapSize([data EXCEPT ![k] = Tombstone])
  <2>1. Tombstone \in Entry /\ StoredSize(Tombstone) = 0 /\ KeySize[k] \in Nat
    BY SizeAssumption DEF Entry, StoredSize
  <2>2. /\ [data EXCEPT ![k] = Tombstone] \in Map
        /\ new = IF data[k] # Absent THEN total - old + (KeySize[k] + StoredSize(Tombstone))
                                     ELSE total + KeySize[k] + StoredSize(Tombstone)
    BY <2>1, MapSizeUpdate
  <2>3. total \in Nat /\ (data[k] # Absent => old \in Nat)
    <3>1. data[k] # Absent => StoredSize(data[k]) \in Nat
      BY SizeAssumption DEF Map, Entry, StoredSize
    <3> QED  BY <2>1, <3>1, PresentFacts
  <2>4. /\ data' = [data EXCEPT ![k] = Tombstone]
        /\ size' = IF data[k] # Absent THEN total - old + KeySize[k] ELSE total + KeySize[k]
    BY DEF Erase, SizeIsExact
  <2>5. size' = new
    <3> HIDE DEF old, total, new
    <3> QED  BY <2>1, <2>2, <2>3, <2>4
  <2> QED  BY <2>2, <2>4, <2>5 DEF SizeIsExact
<1>3. CASE Clear
  BY <1>3, MapSizeEmpty DEF Clear, SizeIsExact
<1>4. CASE \E m \in Map : Replace(m)
  BY <1>4 DEF Replace, SizeIsExact
<1>5. CASE UNCHANGED vars
  BY <1>5 DEF vars, SizeIsExact
<1> QED  BY <1>1, <1>2, <1>3, <1>4, <1>5 DEF Next

\* Whatever calls of put, erase, clear and replace led here, size_in_bytes_
\* is what recompute_size would count (memtable.cpp:7-70, 93-107, 123-134).
THEOREM SizeTheorem == Spec => []SizeIsExact
<1>1. Init => MemTableInv
  BY MapSizeEmpty DEF Init, SizeIsExact, MemTableInv
<1>2. MemTableInv /\ [Next]_vars => MemTableInv'
  BY MemTableNext
<1>3. MemTableInv => SizeIsExact
  BY DEF MemTableInv
<1> QED  BY <1>1, <1>2, <1>3, PTL DEF Spec

\* The entries keep their type, and the size never falls below zero, where
\* size_t would wrap around (memtable.cpp:7-70, 93-107, 123-134).
THEOREM MemTableTypeCorrect == Spec => []TypeOK
<1>1. Init => MemTableInv
  BY MapSizeEmpty DEF Init, SizeIsExact, MemTableInv
<1>2. MemTableInv /\ [Next]_vars => MemTableInv'
  BY MemTableNext
<1>3. MemTableInv => TypeOK
  BY PresentFacts DEF TypeOK, SizeIsExact, MemTableInv
<1> QED  BY <1>1, <1>2, <1>3, PTL DEF Spec
=============================================================================

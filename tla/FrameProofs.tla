---------------------------- MODULE FrameProofs ----------------------------
(***************************************************************************)
(* Proofs about the frames of Protocol, for every size of the header and   *)
(* every limit on a message: that cutting the first frame off a stream of  *)
(* frames gives the first message and leaves the others, however little of *)
(* the stream has arrived (ExtractFirst).  ServerProofs builds on it.      *)
(***************************************************************************)
EXTENDS Protocol, OrderProofs, SequenceTheorems

-----------------------------------------------------------------------------
(***************************************************************************)
(* Concatenating the first n of a family of sequences.  Frames does so by  *)
(* a recursive function; CatZero and CatStep are its recursion equations.  *)
(***************************************************************************)

\* f lists the concatenations of the first 0, 1, ..., n elements of p.
Concatenates(f, p, n) ==
    f = [i \in 0..n |-> IF i = 0 THEN << >> ELSE f[i - 1] \o p[i]]

\* What Concatenates says of one place.
LEMMA ConcatenatesAt ==
    ASSUME NEW f, NEW p, NEW n \in Nat, Concatenates(f, p, n), NEW i \in 0..n
    PROVE  f[i] = IF i = 0 THEN << >> ELSE f[i - 1] \o p[i]
<1>1. [j \in 0..n |-> IF j = 0 THEN << >> ELSE f[j - 1] \o p[j]][i]
        = IF i = 0 THEN << >> ELSE f[i - 1] \o p[i]
  OBVIOUS
<1> QED  BY <1>1, Zenon DEF Concatenates

\* The recursion has a solution.
LEMMA ConcatenationExists ==
    ASSUME NEW p, NEW N \in Nat
    PROVE  \E f : Concatenates(f, p, N)
<1> DEFINE Bad == {n \in Nat : ~\E f : Concatenates(f, p, n)}
<1>1. SUFFICES ASSUME Bad # {} PROVE FALSE
  OBVIOUS
<1>2. PICK n \in Bad : \A m \in Bad : n <= m
  <2> HIDE DEF Bad
  <2>1. Bad \subseteq Nat
    BY DEF Bad
  <2> QED  BY <1>1, <2>1, LeastNatural
<1>3. n \in Nat
  OBVIOUS
<1>4. n # 0
  <2> SUFFICES ASSUME n = 0 PROVE FALSE
    OBVIOUS
  <2> DEFINE g == [i \in 0..0 |-> << >>]
  <2>1. g = [i \in 0..0 |-> IF i = 0 THEN << >> ELSE g[i - 1] \o p[i]]
    OBVIOUS
  <2>2. Concatenates(g, p, n)
    BY <2>1 DEF Concatenates
  <2> QED  BY <2>2
<1>5. n - 1 \in Nat /\ n - 1 \notin Bad
  <2> HIDE DEF Bad
  <2> QED  BY <1>2, <1>3, <1>4
<1>6. PICK f : Concatenates(f, p, n - 1)
  BY <1>5
<1> DEFINE g == [i \in 0..n |-> IF i = n THEN f[n - 1] \o p[n] ELSE f[i]]
<1>7. Concatenates(g, p, n)
  <2> HIDE DEF g, Bad
  <2>1. ASSUME NEW i \in 0..n
        PROVE  g[i] = IF i = 0 THEN << >> ELSE g[i - 1] \o p[i]
    <3>1. CASE i = n
      <4>1. n - 1 \in 0..n /\ n \in 0..n /\ n - 1 # n
        BY <1>3, <1>4
      <4>2. g[n] = f[n - 1] \o p[n] /\ g[n - 1] = f[n - 1]
        BY <4>1 DEF g
      <4> QED  BY <1>4, <3>1, <4>2
    <3>2. CASE i # n
      <4>1. i \in 0..(n - 1) /\ (i # 0 => i - 1 \in 0..n /\ i - 1 # n)
        BY <1>3, <3>2
      <4>2. f[i] = IF i = 0 THEN << >> ELSE f[i - 1] \o p[i]
        BY <1>5, <1>6, <4>1, ConcatenatesAt
      <4>3. g[i] = f[i] /\ (i # 0 => g[i - 1] = f[i - 1])
        BY <3>2, <4>1 DEF g
      <4> QED  BY <4>2, <4>3
    <3> QED  BY <3>1, <3>2
  <2>2. g = [i \in 0..n |-> g[i]]
    BY DEF g
  <2> QED  BY <2>1, <2>2 DEF Concatenates
<1> QED  BY <1>3, <1>7

\* Any two solutions agree where both are defined.
LEMMA ConcatenationUnique ==
    ASSUME NEW p, NEW n \in Nat, NEW m \in Nat, n <= m,
           NEW f, Concatenates(f, p, n), NEW g, Concatenates(g, p, m)
    PROVE  f[n] = g[n]
<1> DEFINE Bad == {i \in 0..n : f[i] # g[i]}
<1> SUFFICES ASSUME Bad # {} PROVE FALSE
  OBVIOUS
<1> HIDE DEF Bad
<1>1. PICK i \in Bad : \A j \in Bad : i <= j
  <2>1. Bad \subseteq Nat
    BY DEF Bad
  <2> QED  BY <2>1, LeastNatural
<1>2. i \in 0..n /\ i \in 0..m /\ f[i] # g[i]
  BY DEF Bad
<1>3. /\ f[i] = IF i = 0 THEN << >> ELSE f[i - 1] \o p[i]
      /\ g[i] = IF i = 0 THEN << >> ELSE g[i - 1] \o p[i]
  BY <1>2, ConcatenatesAt
<1>4. i # 0
  BY <1>2, <1>3
<1>5. i - 1 \in 0..n /\ i - 1 \notin Bad /\ i \in 1..n
  BY <1>1, <1>2, <1>4
<1>6. f[i - 1] = g[i - 1]
  BY <1>5 DEF Bad
<1> QED  BY <1>2, <1>3, <1>4, <1>6

Concatenation(p, n) == CHOOSE f : Concatenates(f, p, n)

\* The concatenation of p[1], ..., p[n].
Cat(p, n) == Concatenation(p, n)[n]

\* The chosen solution is one.
LEMMA ConcatenationIs ==
    ASSUME NEW p, NEW n \in Nat
    PROVE  Concatenates(Concatenation(p, n), p, n)
BY ConcatenationExists, Zenon DEF Concatenation

\* No sequence, nothing.
LEMMA CatZero ==
    ASSUME NEW p
    PROVE  Cat(p, 0) = << >>
<1>1. 0 \in Nat /\ 0 \in 0..0
  OBVIOUS
<1> QED  BY <1>1, ConcatenationIs, ConcatenatesAt DEF Cat

\* One sequence more.
LEMMA CatStep ==
    ASSUME NEW p, NEW n \in Nat
    PROVE  Cat(p, n + 1) = Cat(p, n) \o p[n + 1]
<1> DEFINE f == Concatenation(p, n)
           g == Concatenation(p, n + 1)
<1>1. /\ n + 1 \in Nat /\ n + 1 \in 0..(n + 1) /\ n <= n + 1
      /\ n + 1 # 0 /\ (n + 1) - 1 = n
  OBVIOUS
<1>2. Concatenates(f, p, n) /\ Concatenates(g, p, n + 1)
  BY <1>1, ConcatenationIs
<1> HIDE DEF f, g
<1>3. f[n] = g[n]
  BY <1>1, <1>2, ConcatenationUnique
<1>4. g[n + 1] = IF n + 1 = 0 THEN << >> ELSE g[(n + 1) - 1] \o p[n + 1]
  BY <1>1, <1>2, ConcatenatesAt, Zenon
<1>5. g[n + 1] = f[n] \o p[n + 1]
  BY <1>1, <1>3, <1>4, Zenon
<1> QED  BY <1>5 DEF Cat, f, g

\* A concatenation of sequences over U is one.
LEMMA CatType ==
    ASSUME NEW U, NEW p, NEW n \in Nat, \A i \in 1..n : p[i] \in Seq(U)
    PROVE  Cat(p, n) \in Seq(U)
<1> DEFINE Bad == {i \in Nat : i <= n /\ Cat(p, i) \notin Seq(U)}
<1> SUFFICES ASSUME Bad # {} PROVE FALSE
  OBVIOUS
<1> HIDE DEF Bad
<1>1. PICK i \in Bad : \A j \in Bad : i <= j
  <2>1. Bad \subseteq Nat
    BY DEF Bad
  <2> QED  BY <2>1, LeastNatural
<1>2. i \in Nat /\ i <= n /\ Cat(p, i) \notin Seq(U)
  BY DEF Bad
<1>3. i # 0
  <2>1. Cat(p, 0) = << >> /\ << >> \in Seq(U)
    BY CatZero
  <2> QED  BY <1>2, <2>1, Zenon
<1>4. PICK k \in Nat : i = k + 1
  <2>1. i - 1 \in Nat /\ i = (i - 1) + 1
    BY <1>2, <1>3
  <2> QED  BY <2>1
<1>5. k \notin Bad /\ k <= n /\ k + 1 \in 1..n
  BY <1>1, <1>2, <1>4
<1>6. Cat(p, k) \in Seq(U) /\ p[k + 1] \in Seq(U)
  BY <1>5 DEF Bad
<1>7. Cat(p, k) \o p[k + 1] \in Seq(U)
  BY <1>6
<1> QED  BY <1>2, <1>4, <1>7, CatStep

\* It depends on the sequences only.
LEMMA CatAgrees ==
    ASSUME NEW p, NEW q, NEW n \in Nat, \A i \in 1..n : p[i] = q[i]
    PROVE  Cat(p, n) = Cat(q, n)
<1> DEFINE Bad == {i \in Nat : i <= n /\ Cat(p, i) # Cat(q, i)}
<1> SUFFICES ASSUME Bad # {} PROVE FALSE
  OBVIOUS
<1> HIDE DEF Bad
<1>1. PICK i \in Bad : \A j \in Bad : i <= j
  <2>1. Bad \subseteq Nat
    BY DEF Bad
  <2> QED  BY <2>1, LeastNatural
<1>2. i \in Nat /\ i <= n /\ Cat(p, i) # Cat(q, i)
  BY DEF Bad
<1>3. i # 0
  <2>1. Cat(p, 0) = << >> /\ Cat(q, 0) = << >>
    BY CatZero
  <2> QED  BY <1>2, <2>1, Zenon
<1>4. PICK k \in Nat : i = k + 1
  <2>1. i - 1 \in Nat /\ i = (i - 1) + 1
    BY <1>2, <1>3
  <2> QED  BY <2>1
<1>5. k \notin Bad /\ k <= n /\ k + 1 \in 1..n
  BY <1>1, <1>2, <1>4
<1>6. Cat(p, k) = Cat(q, k) /\ p[k + 1] = q[k + 1]
  BY <1>5 DEF Bad
<1>7. Cat(p, k + 1) = Cat(q, k + 1)
  BY <1>6, CatStep, Zenon
<1> QED  BY <1>2, <1>4, <1>7

Sequences(U, p, n) == \A i \in 1..n : p[i] \in Seq(U)
Shifted(q, p, n) == \A i \in 1..n : q[i] = p[i + 1]

\* Its first part can be split off.
LEMMA CatShift ==
    ASSUME NEW U, NEW p, NEW q, NEW n \in Nat,
           Sequences(U, p, n + 1), Shifted(q, p, n)
    PROVE  Cat(p, n + 1) = p[1] \o Cat(q, n)
<1> DEFINE Bad == {i \in Nat : i <= n /\ Cat(p, i + 1) # p[1] \o Cat(q, i)}
<1> SUFFICES ASSUME Bad # {} PROVE FALSE
  <2>1. n \notin Bad => Cat(p, n + 1) = p[1] \o Cat(q, n)
    OBVIOUS
  <2> QED  BY <2>1
<1> USE DEF Sequences, Shifted
<1>1. Bad \subseteq Nat
  BY Zenon
<1> HIDE DEF Bad
<1>2. PICK i \in Bad : \A j \in Bad : i <= j
  BY <1>1, LeastNatural
<1>3. i \in Nat /\ i <= n /\ Cat(p, i + 1) # p[1] \o Cat(q, i)
  BY DEF Bad
<1>4. p[1] \in Seq(U)
  <2>1. 1 \in 1..(n + 1)
    OBVIOUS
  <2> QED  BY <2>1
<1>5. i # 0
  <2> SUFFICES ASSUME i = 0 PROVE FALSE
    OBVIOUS
  <2>1. Cat(p, 0 + 1) = Cat(p, 0) \o p[0 + 1] /\ 0 + 1 = 1
    <3>1. 0 \in Nat /\ 0 + 1 = 1
      OBVIOUS
    <3> QED  BY <3>1, CatStep, Zenon
  <2>2. Cat(p, 0) = << >> /\ Cat(q, 0) = << >>
    BY CatZero
  <2> DEFINE a == p[1]
  <2>3. << >> \o a = a /\ a \o << >> = a
    <3>1. a \in Seq(U)
      BY <1>4
    <3> HIDE DEF a
    <3> QED  BY <3>1
  <2> QED  BY <1>3, <2>1, <2>2, <2>3
<1>6. PICK k \in Nat : i = k + 1
  <2>1. i - 1 \in Nat /\ i = (i - 1) + 1
    BY <1>3, <1>5
  <2> QED  BY <2>1
<1>7. k \notin Bad /\ k <= n /\ k + 1 \in 1..n /\ (k + 1) + 1 \in 1..(n + 1)
  BY <1>2, <1>3, <1>6
<1>8. Cat(p, k + 1) = p[1] \o Cat(q, k)
  BY <1>7 DEF Bad
<1>9. q[k + 1] = p[(k + 1) + 1] /\ q[k + 1] \in Seq(U)
  BY <1>7, Zenon
<1>10. Cat(q, k) \in Seq(U)
  <2>1. ASSUME NEW j \in 1..k PROVE q[j] \in Seq(U)
    <3>1. j \in 1..n /\ j + 1 \in 1..(n + 1)
      BY <1>7
    <3> QED  BY <3>1, Zenon
  <2> QED  BY <2>1, CatType
<1>11. Cat(p, (k + 1) + 1) = Cat(p, k + 1) \o p[(k + 1) + 1]
  <2>1. k + 1 \in Nat
    OBVIOUS
  <2> QED  BY <2>1, CatStep
<1>12. Cat(q, k + 1) = Cat(q, k) \o q[k + 1]
  BY CatStep
<1> DEFINE a == p[1]
           b == Cat(q, k)
           c == q[k + 1]
<1>13. (a \o b) \o c = a \o (b \o c)
  <2>1. a \in Seq(U) /\ b \in Seq(U) /\ c \in Seq(U)
    BY <1>4, <1>9, <1>10
  <2> HIDE DEF a, b, c
  <2> QED  BY <2>1
<1> QED  BY <1>3, <1>6, <1>8, <1>9, <1>11, <1>12, <1>13, Zenon

-----------------------------------------------------------------------------
(***************************************************************************)
(* Frames.                                                                 *)
(***************************************************************************)

\* The units of a stream whose messages consist of the words W.
Units(W) == W \cup [size : Nat, byte : Nat]

\* A frame is its header and its message.
LEMMA RawFrameType ==
    ASSUME NEW W, NEW m \in Seq(Units(W))
    PROVE  /\ Header(Len(m)) \in Seq(Units(W))
           /\ Len(Header(Len(m))) = HeaderSize
           /\ RawFrame(m) \in Seq(Units(W))
           /\ Len(RawFrame(m)) = HeaderSize + Len(m)
<1>1. Len(m) \in Nat
  OBVIOUS
<1>2. HeaderSize \in Nat /\ HeaderSize # 0
  BY ProtocolAssumption
<1>3. \A i \in 1..HeaderSize : [size |-> Len(m), byte |-> i] \in Units(W)
  BY <1>1, <1>2 DEF Units
<1>4. Header(Len(m)) \in Seq(Units(W)) /\ Len(Header(Len(m))) = HeaderSize
  BY <1>2, <1>3 DEF Header
<1> QED  BY <1>1, <1>2, <1>4 DEF RawFrame

\* The frames of the messages, one by one.
Pieces(ms) == [i \in 1..Len(ms) |-> RawFrame(ms[i])]

\* Frames concatenates the frames of the messages.
LEMMA FramesAre ==
    ASSUME NEW ms, Len(ms) \in Nat
    PROVE  Frames(ms) = Cat(Pieces(ms), Len(ms))
<1>1. Frames(ms) = (CHOOSE f : f = [i \in 0..Len(ms) |->
                IF i = 0 THEN << >> ELSE f[i - 1] \o RawFrame(ms[i])])[Len(ms)]
  BY DEF Frames
<1>2. ASSUME NEW f PROVE
       [i \in 0..Len(ms) |-> IF i = 0 THEN << >> ELSE f[i - 1] \o RawFrame(ms[i])]
       = [i \in 0..Len(ms) |-> IF i = 0 THEN << >> ELSE f[i - 1] \o Pieces(ms)[i]]
  BY DEF Pieces
<1> DEFINE R(f) == f = [i \in 0..Len(ms) |->
                IF i = 0 THEN << >> ELSE f[i - 1] \o RawFrame(ms[i])]
<1>3. ASSUME NEW f PROVE R(f) <=> Concatenates(f, Pieces(ms), Len(ms))
  BY <1>2, Zenon DEF Concatenates
<1>4. (CHOOSE f : R(f)) = (CHOOSE f : Concatenates(f, Pieces(ms), Len(ms)))
  <2> HIDE DEF R
  <2> QED BY <1>3
<1> QED  BY <1>1, <1>4 DEF Concatenation, Cat

\* The frames of some messages are frames of their units.
LEMMA PiecesType ==
    ASSUME NEW W, NEW ms \in Seq(Seq(Units(W))), NEW i \in 1..Len(ms)
    PROVE  Pieces(ms)[i] = RawFrame(ms[i]) /\ RawFrame(ms[i]) \in Seq(Units(W))
<1>1. ms[i] \in Seq(Units(W))
  OBVIOUS
<1>2. Pieces(ms)[i] = RawFrame(ms[i])
  BY DEF Pieces
<1> QED  BY <1>1, <1>2, RawFrameType

\* The frames of some messages are a stream of units.
LEMMA FramesType ==
    ASSUME NEW W, NEW ms \in Seq(Seq(Units(W)))
    PROVE  Frames(ms) \in Seq(Units(W))
<1>1. \A i \in 1..Len(ms) : Pieces(ms)[i] \in Seq(Units(W))
  BY PiecesType
<1>2. Len(ms) \in Nat
  OBVIOUS
<1> QED  BY <1>1, <1>2, CatType, FramesAre, Zenon

\* No message, no frame.
LEMMA FramesEmpty == Frames(<< >>) = << >>
<1>1. Len(<< >>) = 0 /\ 0 \in Nat
  OBVIOUS
<1> QED  BY <1>1, FramesAre, CatZero

\* The frames of one message more.
LEMMA FramesAppend ==
    ASSUME NEW W, NEW ms \in Seq(Seq(Units(W))), NEW m \in Seq(Units(W))
    PROVE  Frames(Append(ms, m)) = Frames(ms) \o RawFrame(m)
<1> DEFINE n == Len(ms)
           ns == Append(ms, m)
           p == Pieces(ms)
           q == Pieces(ns)
<1>1. n \in Nat /\ n + 1 \in Nat /\ Len(ns) = n + 1
  OBVIOUS
<1>2. \A i \in 1..n : p[i] = q[i]
  BY DEF Pieces
<1>3. q[n + 1] = RawFrame(m)
  BY DEF Pieces
<1>4. Frames(ms) = Cat(p, n) /\ Frames(ns) = Cat(q, n + 1)
  <2>1. Len(ms) \in Nat /\ Len(ns) \in Nat
    BY <1>1
  <2> HIDE DEF ns
  <2> QED  BY <1>1, <2>1, FramesAre
<1> HIDE DEF n, p, q, ns
<1>5. Cat(p, n) = Cat(q, n)
  BY <1>1, <1>2, CatAgrees
<1>6. Cat(q, n + 1) = Cat(q, n) \o q[n + 1]
  BY <1>1, CatStep
<1> QED  BY <1>3, <1>4, <1>5, <1>6, Zenon DEF ns

\* The first frame and the others.
LEMMA FramesHead ==
    ASSUME NEW W, NEW ms \in Seq(Seq(Units(W))), ms # << >>
    PROVE  Frames(ms) = RawFrame(Head(ms)) \o Frames(Tail(ms))
<1> DEFINE n == Len(Tail(ms))
           p == Pieces(ms)
           q == Pieces(Tail(ms))
<1>1. n \in Nat /\ n + 1 \in Nat /\ Len(ms) = n + 1 /\ 1 \in 1..(n + 1)
  OBVIOUS
<1>2. \A i \in 1..n : q[i] = p[i + 1]
  <2> SUFFICES ASSUME NEW i \in 1..n PROVE q[i] = p[i + 1]
    OBVIOUS
  <2>1. i + 1 \in 1..Len(ms) /\ Tail(ms)[i] = ms[i + 1] /\ i \in 1..Len(Tail(ms))
    OBVIOUS
  <2> QED  BY <2>1 DEF Pieces
<1>3. \A i \in 1..(n + 1) : p[i] \in Seq(Units(W))
  BY <1>1, PiecesType
<1>4. p[1] = RawFrame(Head(ms))
  <2>1. ms[1] = Head(ms)
    OBVIOUS
  <2> QED  BY <1>1, <2>1, PiecesType
<1>5. Frames(ms) = Cat(p, n + 1) /\ Frames(Tail(ms)) = Cat(q, n)
  BY <1>1, FramesAre
<1> HIDE DEF n, p, q
<1>6. Cat(p, n + 1) = p[1] \o Cat(q, n)
  <2>1. Sequences(Units(W), p, n + 1) /\ Shifted(q, p, n)
    BY <1>2, <1>3 DEF Sequences, Shifted
  <2> DEFINE a == p[1]
             x == Cat(p, n + 1)
             y == Cat(q, n)
  <2> HIDE DEF a, x, y
  <2>2. x = a \o y
    BY <1>1, <2>1, CatShift DEF a, x, y
  <2> QED  BY <2>2 DEF a, x, y
<1> QED  BY <1>4, <1>5, <1>6, Zenon

-----------------------------------------------------------------------------
(***************************************************************************)
(* try_extract_frame on a piece of a stream.                               *)
(***************************************************************************)

\* a starts with x, and y is what is left of it, followed by b.
SplitsOff(a, b, x, y) ==
    /\ \A i \in 1..Len(x) : a[i] = x[i]
    /\ SubSeq(a, Len(x) + 1, Len(a)) \o b = y

\* Two ways to cut one sequence.
LEMMA CutTwice ==
    ASSUME NEW U, NEW a \in Seq(U), NEW b \in Seq(U), NEW x \in Seq(U),
           NEW y \in Seq(U), a \o b = x \o y, Len(x) <= Len(a)
    PROVE  SplitsOff(a, b, x, y)
<1> DEFINE d == SubSeq(a, Len(x) + 1, Len(a))
<1>1. /\ Len(a \o b) = Len(a) + Len(b) /\ Len(x \o y) = Len(x) + Len(y)
      /\ Len(a) \in Nat /\ Len(b) \in Nat /\ Len(x) \in Nat /\ Len(y) \in Nat
  OBVIOUS
<1>2. d \in Seq(U) /\ Len(d) = Len(a) - Len(x)
  BY <1>1
<1>3. \A i \in 1..Len(x) : a[i] = x[i]
  <2> SUFFICES ASSUME NEW i \in 1..Len(x) PROVE a[i] = x[i]
    OBVIOUS
  <2>1. (a \o b)[i] = a[i] /\ (x \o y)[i] = x[i]
    BY <1>1
  <2> QED  BY <2>1
<1>4. d \o b \in Seq(U) /\ Len(d \o b) = Len(y)
  BY <1>1, <1>2
<1>5. \A i \in 1..Len(y) : (d \o b)[i] = y[i]
  <2> SUFFICES ASSUME NEW i \in 1..Len(y) PROVE (d \o b)[i] = y[i]
    OBVIOUS
  <2>1. (x \o y)[Len(x) + i] = y[i]
    BY <1>1
  <2>2. (a \o b)[Len(x) + i] = (d \o b)[i]
    <3>1. CASE i <= Len(d)
      <4>1. d[i] = a[Len(x) + i]
        BY <1>1, <1>2, <3>1
      <4>2. (a \o b)[Len(x) + i] = a[Len(x) + i]
        BY <1>1, <1>2, <3>1
      <4>3. (d \o b)[i] = d[i]
        <5> HIDE DEF d
        <5> QED  BY <1>2, <3>1
      <4> QED  BY <4>1, <4>2, <4>3
    <3>2. CASE i > Len(d)
      <4>1. (d \o b)[i] = b[i - Len(d)]
        <5> HIDE DEF d
        <5> QED  BY <1>1, <1>2, <1>4, <3>2
      <4>2. (a \o b)[Len(x) + i] = b[(Len(x) + i) - Len(a)]
        <5> HIDE DEF d
        <5> QED  BY <1>1, <1>2, <3>2
      <4>3. (Len(x) + i) - Len(a) = i - Len(d)
        <5> HIDE DEF d
        <5> QED  BY <1>1, <1>2
      <4> QED  BY <4>1, <4>2, <4>3, Zenon
    <3> HIDE DEF d
    <3> QED  BY <1>2, <3>1, <3>2
  <2> QED  BY <2>1, <2>2
<1>6. d \o b = y
  <2> DEFINE z == d \o b
  <2>1. z \in Seq(U) /\ Len(z) = Len(y) /\ \A i \in 1..Len(y) : z[i] = y[i]
    BY <1>4, <1>5, Zenon
  <2> HIDE DEF z
  <2>2. z = y
    BY <2>1, SeqEqual
  <2> QED  BY <2>2 DEF z
<1> QED  BY <1>3, <1>6 DEF SplitsOff

\* What try_extract_frame returns is made of what the buffer holds, and a
\* message is never longer than the limit.
LEMMA ExtractType ==
    ASSUME NEW W, \A w \in W : "size" \notin DOMAIN w,
           NEW b \in Seq(Units(W)), NEW r \in TryExtractFrame(b)
    PROVE  /\ r.found \in BOOLEAN
           /\ r.payload \in Seq(Units(W))
           /\ Len(r.payload) <= MaxMessageSize
           /\ r.rest \in Seq(Units(W))
<1>1. HeaderSize \in Nat /\ HeaderSize # 0 /\ MaxMessageSize \in Nat
  BY ProtocolAssumption
<1>2. ASSUME NEW x \in Seq(Units(W)), r = NoFrame(x)
      PROVE  /\ r.found \in BOOLEAN
             /\ r.payload \in Seq(Units(W))
             /\ Len(r.payload) <= MaxMessageSize
             /\ r.rest \in Seq(Units(W))
  BY <1>1, <1>2 DEF NoFrame
<1>3. CASE Len(b) < HeaderSize
  BY <1>2, <1>3 DEF TryExtractFrame
<1>4. CASE Len(b) >= HeaderSize
  <2>1. PICK n \in MessageSizes(b) : r = ExtractFrameOfSize(b, n)
    BY <1>1, <1>4 DEF TryExtractFrame
  <2>2. n \in Nat
    <3>1. b[1] \in Units(W)
      BY <1>1, <1>4
    <3>2. "size" \in DOMAIN b[1] => b[1].size \in Nat
      BY <3>1 DEF Units
    <3> QED  BY <1>1, <2>1, <3>2 DEF MessageSizes
  <2>3. CASE n > MaxMessageSize
    <3>1. r = NoFrame(<< >>) /\ << >> \in Seq(Units(W))
      BY <2>1, <2>3 DEF ExtractFrameOfSize
    <3> QED  BY <1>2, <3>1
  <2>4. CASE n <= MaxMessageSize /\ Len(b) < HeaderSize + n
    <3>1. r = NoFrame(b)
      BY <1>1, <2>1, <2>2, <2>4 DEF ExtractFrameOfSize
    <3> QED  BY <1>2, <3>1
  <2>5. CASE n <= MaxMessageSize /\ Len(b) >= HeaderSize + n
    <3> DEFINE p == SubSeq(b, HeaderSize + 1, HeaderSize + n)
               q == SubSeq(b, HeaderSize + n + 1, Len(b))
    <3>1. r = [found |-> TRUE, payload |-> p, rest |-> q]
      BY <1>1, <2>1, <2>2, <2>5 DEF ExtractFrameOfSize
    <3>2. p \in Seq(Units(W)) /\ Len(p) = n /\ q \in Seq(Units(W))
      BY <1>1, <2>2, <2>5
    <3> HIDE DEF p, q
    <3> QED  BY <2>5, <3>1, <3>2
  <2> QED  BY <1>1, <2>2, <2>3, <2>4, <2>5
<1> QED  BY <1>1, <1>3, <1>4

\* r is the first of the messages ms, whose frames start in b and go on in t,
\* or nothing, when b does not hold all of it.
Extracts(r, b, t, ms) ==
    IF r.found
    THEN /\ ms # << >>
         /\ r.payload = Head(ms)
         /\ r.rest \o t = Frames(Tail(ms))
    ELSE r.rest = b

\* On a buffer that starts a stream of frames whose messages respect the
\* limit, try_extract_frame gives the first message and leaves the frames of
\* the others, or it waits for more and leaves the buffer alone.
LEMMA ExtractFirst ==
    ASSUME NEW W, NEW b \in Seq(Units(W)), NEW t \in Seq(Units(W)),
           NEW ms \in Seq(Seq(Units(W))),
           \A i \in 1..Len(ms) : Len(ms[i]) <= MaxMessageSize,
           b \o t = Frames(ms), NEW r \in TryExtractFrame(b)
    PROVE  Extracts(r, b, t, ms)
<1> USE DEF Extracts
<1>1. HeaderSize \in Nat /\ HeaderSize # 0 /\ MaxMessageSize \in Nat
  BY ProtocolAssumption
<1>2. CASE Len(b) < HeaderSize
  BY <1>2 DEF TryExtractFrame, NoFrame
<1>3. CASE Len(b) >= HeaderSize
  <2>1. ms # << >>
    <3> SUFFICES ASSUME ms = << >> PROVE FALSE
      OBVIOUS
    <3>1. b \o t = << >>
      BY FramesEmpty
    <3> QED  BY <1>1, <1>3, <3>1
  <2> DEFINE h == Head(ms)
             n == Len(h)
             x == RawFrame(h)
             y == Frames(Tail(ms))
  <2>2. h \in Seq(Units(W)) /\ n \in Nat /\ n <= MaxMessageSize
    <3>1. 1 \in 1..Len(ms) /\ h = ms[1]
      BY <2>1
    <3>2. h \in Seq(Units(W)) /\ Len(h) <= MaxMessageSize
      BY <3>1
    <3> HIDE DEF h
    <3> QED  BY <3>2
  <2>3. b \o t = x \o y
    BY <2>1, FramesHead
  <2>4. y \in Seq(Units(W))
    <3>1. Tail(ms) \in Seq(Seq(Units(W)))
      BY <2>1
    <3> QED  BY <3>1, FramesType
  <2>5. /\ Header(n) \in Seq(Units(W)) /\ Len(Header(n)) = HeaderSize
        /\ x \in Seq(Units(W)) /\ Len(x) = HeaderSize + n
    BY <2>2, RawFrameType
  <2>6. x = Header(n) \o h
    BY DEF RawFrame
  <2> HIDE DEF h, x, y, n
  <2>7. ASSUME NEW i \in 1..HeaderSize PROVE b[i] = Header(n)[i]
    <3>1. (b \o t)[i] = b[i]
      <4>1. i \in 1..Len(b)
        BY <1>1, <1>3
      <4> QED  BY <4>1
    <3>2. (x \o y)[i] = x[i]
      BY <1>1, <2>2, <2>4, <2>5
    <3>3. x[i] = Header(n)[i]
      BY <1>1, <2>2, <2>5, <2>6
    <3> QED  BY <2>3, <3>1, <3>2, <3>3
  <2>8. SubSeq(b, 1, HeaderSize) = Header(n)
    <3> DEFINE s == SubSeq(b, 1, HeaderSize)
    <3>1. s \in Seq(Units(W)) /\ Len(s) = HeaderSize /\ \A i \in 1..HeaderSize : s[i] = b[i]
      BY <1>1, <1>3
    <3> HIDE DEF s
    <3>2. s = Header(n)
      BY <2>5, <2>7, <3>1, SeqEqual
    <3> QED  BY <3>2 DEF s
  <2>9. b[1] = [size |-> n, byte |-> 1]
    BY <1>1, <2>7 DEF Header
  <2>10. MessageSizes(b) = {n}
    BY <2>8, <2>9 DEF MessageSizes
  <2>11. r = ExtractFrameOfSize(b, n)
    BY <1>1, <1>3, <2>10 DEF TryExtractFrame
  <2>12. CASE Len(b) < HeaderSize + n
    <3>1. r = NoFrame(b)
      BY <1>1, <2>2, <2>11, <2>12 DEF ExtractFrameOfSize
    <3> QED  BY <3>1 DEF NoFrame
  <2>13. CASE Len(b) >= HeaderSize + n
    <3> DEFINE p == SubSeq(b, HeaderSize + 1, HeaderSize + n)
               q == SubSeq(b, HeaderSize + n + 1, Len(b))
    <3>1. r = [found |-> TRUE, payload |-> p, rest |-> q]
      BY <1>1, <2>2, <2>11, <2>13 DEF ExtractFrameOfSize
    <3>2. /\ \A i \in 1..Len(x) : b[i] = x[i]
          /\ SubSeq(b, Len(x) + 1, Len(b)) \o t = y
      <4>1. Len(x) <= Len(b)
        BY <2>5, <2>13
      <4>2. SplitsOff(b, t, x, y)
        BY <2>3, <2>4, <2>5, <4>1, CutTwice
      <4> QED  BY <4>2 DEF SplitsOff
    <3>3. q \o t = y
      BY <2>5, <3>2
    <3>4. p = h
      <4>1. p \in Seq(Units(W)) /\ Len(p) = n
        BY <1>1, <2>2, <2>13
      <4>2. ASSUME NEW i \in 1..n PROVE p[i] = h[i]
        <5>1. p[i] = b[HeaderSize + i]
          BY <1>1, <2>2, <2>13
        <5>2. b[HeaderSize + i] = x[HeaderSize + i]
          BY <1>1, <2>2, <2>5, <3>2
        <5>3. x[HeaderSize + i] = h[i]
          BY <1>1, <2>2, <2>5, <2>6 DEF n
        <5> QED  BY <5>1, <5>2, <5>3
      <4> HIDE DEF p
      <4> QED  BY <2>2, <4>1, <4>2, SeqEqual DEF n
    <3> HIDE DEF p, q
    <3>5. r.found /\ r.payload = p /\ r.rest = q
      BY <3>1
    <3> QED  BY <2>1, <3>3, <3>4, <3>5 DEF h, y
  <2> QED  BY <1>1, <2>2, <2>12, <2>13
<1> QED  BY <1>1, <1>2, <1>3
=============================================================================

---------------------------- MODULE WalFileProofs ----------------------------
(***************************************************************************)
(* Proofs about WalFile for all keys, entries and sizes, in both modes and *)
(* for any number of appends, crashes and failures: type correctness, that *)
(* recovery misses only the last acknowledged records, that it misses none *)
(* once the buffer is empty, and that module Wal describes what recovery   *)
(* makes of the bytes.  The inductive invariant is WalInv.                 *)
(*                                                                         *)
(* What recover_wal reads is a recursive function over the offsets of the  *)
(* file.  Its properties are inductions over an offset, carried out as     *)
(* arguments about the last offset that is a counterexample.               *)
(***************************************************************************)
EXTENDS WalFile, OrderProofs, SequenceTheorems

-----------------------------------------------------------------------------
(***************************************************************************)
(* The inductive invariant.                                                *)
(***************************************************************************)

LogRecords == [key : Keys, entry : Entry, acked : BOOLEAN]

Bytes == [no : Nat, place : Nat]

\* b is a byte of a record of l.
InLog(l, b) == b.no \in 1..Len(l) /\ b.place \in 1..SizeOf(l, b.no)

\* f are bytes of records of l.
BytesOf(l, f) == f \in Seq(Bytes) /\ \A i \in 1..Len(f) : InLog(l, f[i])

\* The bytes f are first bytes of records of l, one piece behind the other,
\* by increasing numbers; only a torn piece may be followed by another one of
\* the same record.
Ordered(l, f) ==
    /\ f \in Seq(Bytes)
    /\ \A i \in 1..Len(f) : InLog(l, f[i])
    /\ \A i \in 1..Len(f) :
        f[i].place > 1 =>
            i > 1 /\ f[i - 1].no = f[i].no /\ f[i - 1].place = f[i].place - 1
    /\ \A i, j \in 1..Len(f) :
        i < j => /\ f[i].no <= f[j].no
                 /\ f[i].place = SizeOf(l, f[i].no) => f[i].no < f[j].no

\* Record no stands in f behind offset p, and is complete.
StandsAt(l, f, no, p) ==
    /\ p + SizeOf(l, no) <= Len(f)
    /\ \A i \in 1..SizeOf(l, no) : f[p + i] = [no |-> no, place |-> i]

Stands(l, f, no) == \E p \in 0..Len(f) : StandsAt(l, f, no, p)

\* Every variable has its type, the buffer too.
StateOK ==
    /\ mode \in Modes
    /\ stream \in {"closed", "open", "bad"}
    /\ process \in {"running", "ended", "crashed"}
    /\ log \in Seq(LogRecords)
    /\ BytesOf(log, file)
    /\ BytesOf(log, buffer)
    /\ stream # "bad" => Len(buffer) <= BufferSize
    /\ appends \in 0..MaxAppends /\ crashes \in 0..MaxCrashes
    /\ faults \in 0..MaxFaults

\* The stream of a process that is gone is closed, only a failure makes one
\* bad, and in SYNC mode one that is not has nothing in its buffer.
StreamOK ==
    /\ process # "running" => buffer = << >>
    /\ stream = "bad" => faults > 0
    /\ mode = "SYNC" /\ stream # "bad" => buffer = << >>

\* Outside of this, a stream may write its whole buffer again.
Sound == mode = "SYNC" \/ faults = 0

\* The bytes on disk and those behind them.
Stream == file \o buffer

\* The bytes that no crash in SYNC mode, and only a crash in ASYNC mode, loses.
Lasting == IF mode = "SYNC" THEN file ELSE Stream

\* Every acknowledged record of l is complete in f.
AllStand(l, f) == \A no \in 1..Len(l) : l[no].acked => Stands(l, f, no)

\* f has bytes of every acknowledged record in front of those of another one.
NoHoles(l, f) ==
    \A no \in 1..Len(l), q \in 1..Len(f) :
        l[no].acked /\ no < f[q].no => \E p \in 1..Len(f) : f[p].no = no

AckedOK ==
    /\ mode = "SYNC" \/ process # "crashed" => AllStand(log, Lasting)
    /\ NoHoles(log, file)

WalInv ==
    /\ StateOK
    /\ StreamOK
    /\ Sound => Ordered(log, Stream) /\ AckedOK

-----------------------------------------------------------------------------
(***************************************************************************)
(* The format.                                                             *)
(***************************************************************************)

\* A record is longer than its length and its checksum.
LEMMA SizeFacts ==
    ASSUME NEW l \in Seq(LogRecords), NEW no \in 1..Len(l)
    PROVE  /\ PayloadSize[l[no].entry] \in Nat \ {0}
           /\ SizeOf(l, no) = LengthSize + PayloadSize[l[no].entry] + ChecksumSize
           /\ SizeOf(l, no) \in Nat /\ SizeOf(l, no) > LengthSize
           /\ LengthSize \in Nat \ {0} /\ ChecksumSize \in Nat \ {0}
<1>1. l[no].entry \in Entry
  <2>1. l[no] \in LogRecords
    OBVIOUS
  <2> QED  BY <2>1 DEF LogRecords
<1>2. PayloadSize[l[no].entry] \in Nat \ {0}
  BY <1>1, WalFileAssumption
<1>3. LengthSize \in Nat \ {0} /\ ChecksumSize \in Nat \ {0}
  BY WalFileAssumption
<1> QED  BY <1>2, <1>3 DEF SizeOf

\* The bytes of a record.
LEMMA RecordBytesFacts ==
    ASSUME NEW l \in Seq(LogRecords), NEW no \in 1..Len(l)
    PROVE  /\ RecordBytes(l, no) \in Seq(Bytes)
           /\ Len(RecordBytes(l, no)) = SizeOf(l, no)
           /\ \A i \in 1..SizeOf(l, no) :
                RecordBytes(l, no)[i] = [no |-> no, place |-> i]
<1> DEFINE n == SizeOf(l, no)
<1>1. n \in Nat /\ no \in Nat
  BY SizeFacts
<1>2. \A i \in 1..n : [no |-> no, place |-> i] \in Bytes
  BY <1>1 DEF Bytes
<1> HIDE DEF n
<1>3. [i \in 1..n |-> [no |-> no, place |-> i]] \in Seq(Bytes)
  BY <1>1, <1>2, IsASeq
<1>4. RecordBytes(l, no) = [i \in 1..n |-> [no |-> no, place |-> i]]
  BY DEF RecordBytes, n
<1> QED  BY <1>1, <1>3, <1>4 DEF n

\* What Ordered says of one byte and of two.
LEMMA OrderedAt ==
    ASSUME NEW l, NEW f, Ordered(l, f), NEW i \in 1..Len(f)
    PROVE  /\ f \in Seq(Bytes) /\ f[i] \in Bytes
           /\ f[i].no \in 1..Len(l) /\ f[i].place \in 1..SizeOf(l, f[i].no)
           /\ f[i].place > 1 => /\ i > 1 /\ f[i - 1].no = f[i].no
                                /\ f[i - 1].place = f[i].place - 1
           /\ \A j \in 1..Len(f) :
                i < j => /\ f[i].no <= f[j].no
                         /\ f[i].place = SizeOf(l, f[i].no) => f[i].no < f[j].no
BY DEF Ordered, InLog

\* The first k bytes of record no stand in f behind offset o.
Begins(f, no, o, k) == \A i \in 1..k : f[o + i] = [no |-> no, place |-> i]

\* In front of a byte of a record stand all the bytes of it before that one.
LEMMA PieceStarts ==
    ASSUME NEW l \in Seq(LogRecords), NEW f, Ordered(l, f), NEW o \in Nat,
           NEW m \in Nat \ {0}, o + m <= Len(f), f[o + m].place = m
    PROVE  Begins(f, f[o + m].no, o, m)
<1> SUFFICES ASSUME NEW k \in 1..m
             PROVE  f[o + k] = [no |-> f[o + m].no, place |-> k]
  BY DEF Begins
<1> DEFINE no == f[o + m].no
           At(i) == f[o + (m - i)].no = no /\ f[o + (m - i)].place = m - i
           Bad == {i \in Nat : i < m /\ ~At(i)}
<1>1. f \in Seq(Bytes) /\ Len(f) \in Nat
  BY DEF Ordered
<1>2. Bad = {}
  <2> SUFFICES ASSUME Bad # {} PROVE FALSE
    OBVIOUS
  <2>1. PICK b \in Bad : \A c \in Bad : b <= c
    <3>1. Bad \subseteq Nat
      OBVIOUS
    <3> HIDE DEF Bad
    <3> QED  BY <3>1, LeastNatural
  <2>2. b \in Nat /\ b < m /\ ~At(b)
    BY <2>1
  <2>3. b # 0
    <3>1. At(0)
      <4>1. m - 0 = m
        OBVIOUS
      <4> QED  BY <4>1
    <3> QED  BY <2>2, <3>1
  <2>4. b - 1 \in Nat /\ b - 1 < m /\ b - 1 \notin Bad
    <3> HIDE DEF Bad
    <3> QED  BY <2>1, <2>2, <2>3
  <2>5. At(b - 1)
    BY <2>4
  <2> DEFINE j == o + (m - (b - 1))
  <2>6. j \in 1..Len(f) /\ j - 1 = o + (m - b)
    <3>1. j \in Int /\ 1 <= j /\ j <= o + m
      BY <2>2, <2>3
    <3>2. j - 1 = o + (m - b)
      BY <2>2
    <3> HIDE DEF j
    <3> QED  BY <1>1, <3>1, <3>2
  <2>7. f[j].no = no /\ f[j].place = m - (b - 1) /\ f[j].place > 1
    BY <2>2, <2>3, <2>5
  <2>8. f[j - 1].no = no /\ f[j - 1].place = (m - (b - 1)) - 1
    <3> HIDE DEF j, no
    <3>1. f[j].place > 1 => f[j - 1].no = f[j].no /\ f[j - 1].place = f[j].place - 1
      BY <2>6, OrderedAt
    <3> QED  BY <2>7, <3>1
  <2>9. (m - (b - 1)) - 1 = m - b
    BY <2>2
  <2> QED  BY <2>2, <2>6, <2>8, <2>9
<1>3. m - k \in Nat /\ m - k < m /\ m - (m - k) = k
  OBVIOUS
<1>4. At(m - k)
  BY <1>2, <1>3
<1>5. f[o + k].no = no /\ f[o + k].place = k
  BY <1>3, <1>4
<1>6. f[o + k] \in Bytes
  BY <1>1
<1> QED  BY <1>5, <1>6 DEF Bytes

-----------------------------------------------------------------------------
(***************************************************************************)
(* read_record.                                                            *)
(***************************************************************************)

\* The lengths read_record may find are numbers.
LEMMA LengthsType ==
    ASSUME NEW l \in Seq(LogRecords), NEW f \in Seq(Bytes), NEW o \in Nat,
           o < Len(f), InLog(l, f[o + 1])
    PROVE  Lengths(l, f, o) \subseteq Nat
<1>1. PayloadSize[l[f[o + 1].no].entry] \in Nat
  BY SizeFacts DEF InLog
<1>2. 0..(MaxRecordSize + 1) \subseteq Nat
  BY WalFileAssumption
<1> QED  BY <1>1, <1>2 DEF Lengths

\* An outcome of read_record: it fails, or reads bytes that end later and
\* still inside the file.
LEMMA ReadType ==
    ASSUME NEW l \in Seq(LogRecords), NEW f \in Seq(Bytes), NEW o \in 0..Len(f),
           \A i \in 1..Len(f) : InLog(l, f[i]), NEW r \in ReadRecord(l, f, o)
    PROVE  \/ r.status \in {"EOF_REACHED", "INCOMPLETE", "CORRUPTED"}
           \/ /\ r.status = "SUCCESS" /\ r.end \in (o + 1)..Len(f)
              /\ \E n \in Nat : /\ r.no \in MatchesAt(l, f, o + LengthSize, n)
                                /\ r.end = o + LengthSize + n + ChecksumSize
<1>1. Len(f) \in Nat /\ LengthSize \in Nat \ {0} /\ ChecksumSize \in Nat \ {0}
  BY WalFileAssumption
<1>2. CASE Len(f) - o < LengthSize
  BY <1>2 DEF ReadRecord, Failed, Outcome
<1>3. CASE ~(Len(f) - o < LengthSize)
  <2>1. o < Len(f) /\ o + 1 \in 1..Len(f)
    BY <1>1, <1>3
  <2>2. PICK n \in Lengths(l, f, o) : r = ReadPayload(l, f, o, n)
    BY <1>3 DEF ReadRecord
  <2>3. n \in Nat
    BY <2>1, LengthsType
  <2> DEFINE end == o + LengthSize + n + ChecksumSize
             matches == MatchesAt(l, f, o + LengthSize, n)
  <2>4. CASE r \in {Failed("CORRUPTED"), Failed("INCOMPLETE")}
    BY <2>4 DEF Failed, Outcome
  <2>5. CASE r \notin {Failed("CORRUPTED"), Failed("INCOMPLETE")}
    <3>1. /\ ~(Len(f) - o < LengthSize + n + ChecksumSize)
          /\ matches # {} /\ r = Outcome("SUCCESS", CHOOSE no \in matches : TRUE, end)
      BY <2>2, <2>5 DEF ReadPayload
    <3>2. (CHOOSE no \in matches : TRUE) \in matches
      BY <3>1
    <3>3. end \in (o + 1)..Len(f)
      BY <1>1, <2>3, <3>1
    <3> HIDE DEF matches, end
    <3>4. r.status = "SUCCESS" /\ r.no \in matches /\ r.end = end
      BY <3>1, <3>2 DEF Outcome
    <3> QED  BY <2>3, <3>3, <3>4 DEF matches, end
  <2> QED  BY <2>4, <2>5
<1> QED  BY <1>2, <1>3

\* A checksum that matches means that a whole record stands there, its length
\* included, although read_record does not compare that.
LEMMA SuccessReads ==
    ASSUME NEW l \in Seq(LogRecords), NEW f, Ordered(l, f), NEW o \in 0..Len(f),
           NEW r \in ReadRecord(l, f, o), r.status = "SUCCESS"
    PROVE  /\ r.no \in 1..Len(l) /\ r.end = o + SizeOf(l, r.no)
           /\ r.end \in (o + 1)..Len(f)
           /\ StandsAt(l, f, r.no, o)
<1>1. f \in Seq(Bytes) /\ Len(f) \in Nat /\ \A i \in 1..Len(f) : InLog(l, f[i])
  BY DEF Ordered
<1>2. PICK n \in Nat : /\ r.no \in MatchesAt(l, f, o + LengthSize, n)
                       /\ r.end = o + LengthSize + n + ChecksumSize
                       /\ r.end \in (o + 1)..Len(f)
  BY <1>1, ReadType
<1> DEFINE no == r.no
           S == SizeOf(l, no)
           a == o + LengthSize
           b == a + n + ChecksumSize
<1>3. no \in 1..Len(l)
  BY <1>2 DEF MatchesAt
<1>4. SubSeq(f, a + 1, b) = SubSeq(RecordBytes(l, no), LengthSize + 1, S)
  BY <1>2 DEF MatchesAt
<1>5. /\ S \in Nat /\ S > LengthSize /\ LengthSize \in Nat \ {0}
      /\ S = LengthSize + PayloadSize[l[no].entry] + ChecksumSize
      /\ PayloadSize[l[no].entry] \in Nat /\ ChecksumSize \in Nat \ {0}
  BY <1>3, SizeFacts
<1>6. /\ RecordBytes(l, no) \in Seq(Bytes) /\ Len(RecordBytes(l, no)) = S
      /\ \A i \in 1..S : RecordBytes(l, no)[i] = [no |-> no, place |-> i]
  BY <1>3, RecordBytesFacts
<1> DEFINE x == SubSeq(f, a + 1, b)
           y == SubSeq(RecordBytes(l, no), LengthSize + 1, S)
           rb == RecordBytes(l, no)
<1>7. a \in Nat /\ b \in Nat /\ a < b /\ b <= Len(f)
  BY <1>2, <1>5
<1>8. Len(x) = b - a /\ x[b - a] = f[b]
  <2> HIDE DEF a, b
  <2>1. Len(x) = b - a
    BY <1>1, <1>7
  <2>2. x[b - a] = f[(b - a) + a]
    BY <1>1, <1>7, <2>1
  <2>3. (b - a) + a = b
    BY <1>7
  <2> QED  BY <2>1, <2>2, <2>3
<1>9. Len(y) = S - LengthSize /\ y[S - LengthSize] = [no |-> no, place |-> S]
  <2>1. rb \in Seq(Bytes) /\ Len(rb) = S /\ y = SubSeq(rb, LengthSize + 1, S)
    BY <1>6
  <2>2. LengthSize \in Nat /\ S \in Nat /\ S > LengthSize
    BY <1>5
  <2> HIDE DEF S, rb, y
  <2>3. Len(y) = S - LengthSize /\ S - LengthSize \in 1..(S - LengthSize)
    BY <2>1, <2>2
  <2>4. y[S - LengthSize] = rb[(S - LengthSize) + LengthSize]
    BY <2>1, <2>2, <2>3
  <2>5. (S - LengthSize) + LengthSize = S /\ S \in 1..S
    BY <2>2
  <2> QED  BY <1>6, <2>3, <2>4, <2>5 DEF rb
<1>10. b - a = S - LengthSize /\ f[b] = [no |-> no, place |-> S]
  <2>1. x = y
    BY <1>4
  <2> HIDE DEF x, y, a, b, S
  <2> QED  BY <1>8, <1>9, <2>1
<1>11. b = o + S
  <2>1. b - (o + LengthSize) = S - LengthSize /\ b \in Nat /\ S \in Nat /\ LengthSize \in Nat
    BY <1>5, <1>7, <1>10
  <2> HIDE DEF S, b
  <2> QED  BY <2>1
<1>12. StandsAt(l, f, no, o)
  <2>1. o \in Nat /\ S \in Nat \ {0} /\ o + S <= Len(f) /\ f[o + S].place = S
        /\ f[o + S].no = no
    <3>1. S \in Nat \ {0} /\ o \in Nat
      BY <1>1, <1>5
    <3>2. o + S <= Len(f) /\ f[o + S] = [no |-> no, place |-> S]
      BY <1>7, <1>10, <1>11
    <3> HIDE DEF S, no
    <3> QED  BY <3>1, <3>2
  <2>2. Begins(f, no, o, S)
    <3> HIDE DEF S, no
    <3>1. Begins(f, f[o + S].no, o, S)
      BY <2>1, PieceStarts
    <3> QED  BY <2>1, <3>1
  <2> QED  BY <2>1, <2>2 DEF StandsAt, Begins
<1> QED  BY <1>2, <1>3, <1>11, <1>12

-----------------------------------------------------------------------------
(***************************************************************************)
(* recover_wal.                                                            *)
(***************************************************************************)

\* What recover_wal returns if read_record returns r, where F says what it
\* returns for the offsets behind.
AfterRead(F, r) ==
    IF r.status = "SUCCESS"
    THEN {[records |-> <<r.no>> \o x.records, status |-> x.status] : x \in F[r.end]}
    ELSE {[records |-> << >>, status |-> r.status]}

RecoverStep(l, f, F, o) == UNION {AfterRead(F, r) : r \in ReadRecord(l, f, o)}

\* F says what recover_wal returns for the offsets D.
Recovers(F, l, f, D) == F = [o \in D |-> RecoverStep(l, f, F, o)]

\* What Recovers says of one offset.
LEMMA RecoversAt ==
    ASSUME NEW F, NEW l, NEW f, NEW D, Recovers(F, l, f, D), NEW o \in D
    PROVE  F[o] = RecoverStep(l, f, F, o)
<1>1. [p \in D |-> RecoverStep(l, f, F, p)][o] = RecoverStep(l, f, F, o)
  OBVIOUS
<1> QED  BY <1>1 DEF Recovers

\* The last n offsets of a file, and its end.
LastOffsets(f, n) == {o \in 0..Len(f) : Len(f) - o <= n}

\* A step depends on later offsets only.
LEMMA RecoverStepAgrees ==
    ASSUME NEW l \in Seq(LogRecords), NEW f \in Seq(Bytes),
           \A i \in 1..Len(f) : InLog(l, f[i]), NEW o \in 0..Len(f),
           NEW F, NEW G, \A p \in (o + 1)..Len(f) : F[p] = G[p]
    PROVE  RecoverStep(l, f, F, o) = RecoverStep(l, f, G, o)
<1>1. ASSUME NEW r \in ReadRecord(l, f, o)
      PROVE  AfterRead(F, r) = AfterRead(G, r)
  <2>1. CASE r.status = "SUCCESS"
    <3>1. r.end \in (o + 1)..Len(f)
      BY <2>1, ReadType
    <3>2. F[r.end] = G[r.end]
      BY <3>1
    <3> QED  BY <2>1, <3>2 DEF AfterRead
  <2>2. CASE r.status # "SUCCESS"
    BY <2>2 DEF AfterRead
  <2> QED  BY <2>1, <2>2
<1>2. {AfterRead(F, r) : r \in ReadRecord(l, f, o)}
        = {AfterRead(G, r) : r \in ReadRecord(l, f, o)}
  BY <1>1
<1> QED  BY <1>2, Zenon DEF RecoverStep

\* The recursion of recover_wal has a solution, for the last n offsets.
LEMMA RecoversLastExist ==
    ASSUME NEW l \in Seq(LogRecords), NEW f \in Seq(Bytes),
           \A i \in 1..Len(f) : InLog(l, f[i]), NEW N \in Nat
    PROVE  \E F : Recovers(F, l, f, LastOffsets(f, N))
<1> DEFINE Good(n) == \E F : Recovers(F, l, f, LastOffsets(f, n))
           Bad == {n \in Nat : ~Good(n)}
<1>1. SUFFICES ASSUME Bad # {} PROVE FALSE
  OBVIOUS
<1>2. PICK b \in Bad : \A c \in Bad : b <= c
  <2>1. Bad \subseteq Nat
    OBVIOUS
  <2> HIDE DEF Bad
  <2> QED  BY <1>1, <2>1, LeastNatural
<1>3. Len(f) \in Nat
  OBVIOUS
<1> DEFINE D == LastOffsets(f, b)
<1>4. PICK F : \A p \in D : \A q \in (p + 1)..Len(f) : F[q] = RecoverStep(l, f, F, q)
  <2>1. CASE b = 0
    <3>1. \A p \in D : (p + 1)..Len(f) = {}
      BY <1>3, <2>1 DEF LastOffsets
    <3> HIDE DEF D
    <3> QED  BY <3>1
  <2>2. CASE b # 0
    <3>1. b \in Nat /\ b - 1 \in Nat /\ b - 1 \notin Bad
      <4>1. b \in Nat
        BY <1>2
      <4> HIDE DEF Bad
      <4> QED  BY <1>2, <2>2, <4>1
    <3>2. PICK F : Recovers(F, l, f, LastOffsets(f, b - 1))
      BY <3>1
    <3>3. \A p \in D : \A q \in (p + 1)..Len(f) : q \in LastOffsets(f, b - 1)
      BY <1>3, <3>1 DEF LastOffsets
    <3>4. \A p \in D : \A q \in (p + 1)..Len(f) : F[q] = RecoverStep(l, f, F, q)
      <4> HIDE DEF D
      <4> QED  BY <3>2, <3>3, RecoversAt
    <3> QED  BY <3>4
  <2> QED  BY <2>1, <2>2
<1> DEFINE G == [o \in D |-> RecoverStep(l, f, F, o)]
<1>5. ASSUME NEW o \in D
      PROVE  RecoverStep(l, f, F, o) = RecoverStep(l, f, G, o)
  <2>1. o \in 0..Len(f)
    BY DEF LastOffsets
  <2>2. \A q \in (o + 1)..Len(f) : q \in D
    BY <1>3 DEF LastOffsets
  <2>3. \A q \in (o + 1)..Len(f) : F[q] = G[q]
    <3> HIDE DEF D
    <3> QED  BY <1>4, <2>2
  <2> HIDE DEF G
  <2> QED  BY <2>1, <2>3, RecoverStepAgrees
<1>6. G = [o \in D |-> RecoverStep(l, f, G, o)]
  <2>1. [o \in D |-> RecoverStep(l, f, F, o)] = [o \in D |-> RecoverStep(l, f, G, o)]
    <3> HIDE DEF D, G
    <3> QED  BY <1>5
  <2> QED  BY <2>1
<1>7. Good(b)
  <2> HIDE DEF G
  <2> QED  BY <1>6 DEF Recovers
<1> QED  BY <1>2, <1>7

RecoveryFrom(l, f) == CHOOSE F : Recovers(F, l, f, 0..Len(f))

\* What recover_wal returns, offset by offset.
LEMMA RecoverFacts ==
    ASSUME NEW l \in Seq(LogRecords), NEW f \in Seq(Bytes),
           \A i \in 1..Len(f) : InLog(l, f[i])
    PROVE  /\ Recovers(RecoveryFrom(l, f), l, f, 0..Len(f))
           /\ Recover(l, f) = RecoveryFrom(l, f)[0]
<1>1. LastOffsets(f, Len(f)) = 0..Len(f) /\ Len(f) \in Nat
  BY DEF LastOffsets
<1>2. \E F : Recovers(F, l, f, LastOffsets(f, Len(f)))
  BY <1>1, RecoversLastExist
<1>3. Recovers(RecoveryFrom(l, f), l, f, 0..Len(f))
  BY <1>1, <1>2, Zenon DEF RecoveryFrom
<1>4. Recover(l, f) = RecoveryFrom(l, f)[0]
  BY DEF Recover, RecoveryFrom, Recovers, RecoverStep, AfterRead
<1> QED  BY <1>3, <1>4

\* The result x for offset o: the loop ends there, or goes on with a result
\* for the end of the record it read.
ComesFrom(l, f, F, o, x) ==
    \E r \in ReadRecord(l, f, o) :
        \/ r.status # "SUCCESS" /\ x = [records |-> << >>, status |-> r.status]
        \/ /\ r.status = "SUCCESS"
           /\ \E y \in F[r.end] :
                x = [records |-> <<r.no>> \o y.records, status |-> y.status]

\* Every result is of that form.
LEMMA RecoverCases ==
    ASSUME NEW l, NEW f, NEW F, Recovers(F, l, f, 0..Len(f)),
           NEW o \in 0..Len(f), NEW x \in F[o]
    PROVE  ComesFrom(l, f, F, o, x)
<1>1. x \in UNION {AfterRead(F, r) : r \in ReadRecord(l, f, o)}
  BY RecoversAt DEF RecoverStep
<1>2. PICK r \in ReadRecord(l, f, o) : x \in AfterRead(F, r)
  BY <1>1, Zenon
<1> QED  BY <1>2 DEF AfterRead, ComesFrom

\* s are the numbers of complete records of f behind offset o, by increasing
\* numbers, and it leaves out none that f has bytes of in front of another.
ReadsInOrder(l, f, o, s) ==
    /\ s \in Seq(Nat)
    /\ \A i \in 1..Len(s) :
        s[i] \in 1..Len(l) /\ \E p \in o..Len(f) : StandsAt(l, f, s[i], p)
    /\ \A i, j \in 1..Len(s) : i < j => s[i] < s[j]
    /\ \A i \in 1..Len(s), q \in (o + 1)..Len(f) :
        f[q].no < s[i] => \E j \in 1..Len(s) : s[j] = f[q].no

\* Putting a number in front of a sequence.
LEMMA ConsFacts ==
    ASSUME NEW n \in Nat, NEW t \in Seq(Nat)
    PROVE  /\ <<n>> \o t \in Seq(Nat) /\ Len(<<n>> \o t) = Len(t) + 1
           /\ (<<n>> \o t)[1] = n
           /\ \A i \in 1..Len(t) : (<<n>> \o t)[i + 1] = t[i]
OBVIOUS

\* One more record read.
LEMMA ReadsOneMore ==
    ASSUME NEW l \in Seq(LogRecords), NEW f, Ordered(l, f), NEW o \in 0..Len(f),
           NEW no \in 1..Len(l), StandsAt(l, f, no, o),
           NEW e \in (o + 1)..Len(f), e = o + SizeOf(l, no),
           NEW t, ReadsInOrder(l, f, e, t)
    PROVE  ReadsInOrder(l, f, o, <<no>> \o t)
<1>1. /\ f \in Seq(Bytes) /\ Len(f) \in Nat /\ t \in Seq(Nat) /\ Len(t) \in Nat
      /\ no \in Nat
  BY DEF Ordered, ReadsInOrder
<1> DEFINE s == <<no>> \o t
<1>2. /\ s \in Seq(Nat) /\ Len(s) = Len(t) + 1 /\ s[1] = no
      /\ \A i \in 1..Len(t) : s[i + 1] = t[i]
  BY <1>1, ConsFacts
<1> HIDE DEF s
<1>3. \A i \in 1..Len(s) : i = 1 \/ (i - 1 \in 1..Len(t) /\ s[i] = t[i - 1])
  <2> SUFFICES ASSUME NEW i \in 1..Len(s), i # 1
               PROVE  i - 1 \in 1..Len(t) /\ s[i] = t[i - 1]
    OBVIOUS
  <2>1. i - 1 \in 1..Len(t) /\ (i - 1) + 1 = i
    BY <1>1, <1>2
  <2> QED  BY <1>2, <2>1
<1>4. SizeOf(l, no) \in Nat /\ SizeOf(l, no) > 0
  BY SizeFacts
\* Behind the end of the record there are only records with larger numbers.
<1>5. ASSUME NEW q \in (e + 1)..Len(f) PROVE f[q].no > no
  <2>1. f[e] = [no |-> no, place |-> SizeOf(l, no)]
    BY <1>4 DEF StandsAt
  <2>2. f[e].no = no /\ f[e].place = SizeOf(l, f[e].no)
    BY <2>1
  <2>3. e \in 1..Len(f) /\ q \in 1..Len(f) /\ e < q
    BY <1>1
  <2>4. f[e].no < f[q].no
    BY <2>2, <2>3, OrderedAt
  <2> QED  BY <1>1, <2>2, <2>3, <2>4, OrderedAt
<1>6. ASSUME NEW i \in 1..Len(t)
      PROVE  /\ t[i] \in 1..Len(l) /\ t[i] > no
             /\ \E p \in o..Len(f) : StandsAt(l, f, t[i], p)
  <2>1. t[i] \in 1..Len(l)
    BY DEF ReadsInOrder
  <2>2. PICK p \in e..Len(f) : StandsAt(l, f, t[i], p)
    BY DEF ReadsInOrder
  <2>3. SizeOf(l, t[i]) \in Nat /\ SizeOf(l, t[i]) > 0
    BY <2>1, SizeFacts
  <2>4. p + 1 \in (e + 1)..Len(f) /\ f[p + 1] = [no |-> t[i], place |-> 1]
    <3> DEFINE S == SizeOf(l, t[i])
    <3>1. p + S <= Len(f) /\ \A k \in 1..S : f[p + k] = [no |-> t[i], place |-> k]
      BY <2>2 DEF StandsAt
    <3>2. S \in Nat /\ S > 0
      BY <2>3
    <3> HIDE DEF S
    <3> QED  BY <1>1, <3>1, <3>2
  <2>5. t[i] > no
    BY <1>5, <2>4
  <2>6. p \in o..Len(f)
    BY <1>1
  <2> QED  BY <2>1, <2>2, <2>5, <2>6
<1>7. ASSUME NEW i \in 1..Len(s)
      PROVE  s[i] \in 1..Len(l) /\ \E p \in o..Len(f) : StandsAt(l, f, s[i], p)
  <2>1. CASE i = 1
    <3>1. o \in o..Len(f)
      BY <1>1
    <3> QED  BY <1>2, <2>1, <3>1
  <2>2. CASE i # 1
    BY <1>3, <1>6, <2>2
  <2> QED  BY <2>1, <2>2
<1>8. ASSUME NEW i \in 1..Len(s), NEW j \in 1..Len(s), i < j PROVE s[i] < s[j]
  <2>1. j # 1 /\ j - 1 \in 1..Len(t) /\ s[j] = t[j - 1]
    <3>1. j # 1
      BY <1>1, <1>2, <1>8
    <3> QED  BY <1>3, <3>1
  <2>2. CASE i = 1
    BY <1>2, <1>6, <2>1, <2>2
  <2>3. CASE i # 1
    <3>1. i - 1 \in 1..Len(t) /\ s[i] = t[i - 1] /\ i - 1 < j - 1
      BY <1>1, <1>2, <1>3, <1>8, <2>3
    <3> QED  BY <2>1, <3>1 DEF ReadsInOrder
  <2> QED  BY <2>2, <2>3
<1>9. ASSUME NEW i \in 1..Len(s), NEW q \in (o + 1)..Len(f), f[q].no < s[i]
      PROVE  \E j \in 1..Len(s) : s[j] = f[q].no
  <2>1. CASE q <= e
    <3>1. q - o \in 1..SizeOf(l, no) /\ o + (q - o) = q
      BY <1>1, <1>4, <2>1
    <3>2. f[q].no = no
      <4>1. f[o + (q - o)] = [no |-> no, place |-> q - o]
        BY <3>1 DEF StandsAt
      <4> QED  BY <3>1, <4>1
    <3>3. 1 \in 1..Len(s)
      BY <1>1, <1>2
    <3> QED  BY <1>2, <3>2, <3>3
  <2>2. CASE q > e
    <3>1. q \in (e + 1)..Len(f)
      BY <1>1, <2>2
    <3>2. f[q].no > no /\ f[q].no \in Nat
      <4>1. q \in 1..Len(f)
        BY <1>1
      <4> QED  BY <1>1, <1>5, <3>1, <4>1, OrderedAt
    <3>3. i # 1
      BY <1>1, <1>2, <1>9, <3>2
    <3>4. i - 1 \in 1..Len(t) /\ f[q].no < t[i - 1]
      BY <1>3, <1>9, <3>3
    <3>5. PICK j \in 1..Len(t) : t[j] = f[q].no
      BY <3>1, <3>4 DEF ReadsInOrder
    <3>6. j + 1 \in 1..Len(s) /\ s[j + 1] = t[j]
      BY <1>1, <1>2
    <3> QED  BY <3>5, <3>6
  <2>3. q <= e \/ q > e
    BY <1>1
  <2> QED  BY <2>1, <2>2, <2>3
<1>10. ReadsInOrder(l, f, o, s)
  BY <1>2, <1>7, <1>8, <1>9 DEF ReadsInOrder
<1> QED  BY <1>10 DEF s

\* Whatever recover_wal returns, it read the records in order.
LEMMA RecoveryReadsInOrder ==
    ASSUME NEW l \in Seq(LogRecords), NEW f, Ordered(l, f), NEW x \in Recover(l, f)
    PROVE  ReadsInOrder(l, f, 0, x.records)
<1>1. /\ f \in Seq(Bytes) /\ Len(f) \in Nat
      /\ \A i \in 1..Len(f) : InLog(l, f[i])
  BY DEF Ordered
<1> DEFINE F == RecoveryFrom(l, f)
           Good(o) == \A y \in F[o] : ReadsInOrder(l, f, o, y.records)
           Bad == {n \in 0..Len(f) : ~Good(Len(f) - n)}
<1>2. Recovers(F, l, f, 0..Len(f)) /\ Recover(l, f) = F[0]
  BY <1>1, RecoverFacts
<1> HIDE DEF F
<1>3. ASSUME Bad # {} PROVE FALSE
  <2>1. PICK b \in Bad : \A c \in Bad : b <= c
    <3>1. Bad \subseteq Nat
      OBVIOUS
    <3> HIDE DEF Bad
    <3> QED  BY <1>3, <3>1, LeastNatural
  <2> DEFINE o == Len(f) - b
  <2>2. b \in 0..Len(f) /\ ~Good(o)
    BY <2>1
  <2>3. o \in 0..Len(f)
    BY <1>1, <2>2
  <2>4. ASSUME NEW e \in (o + 1)..Len(f) PROVE Good(e)
    <3>1. Len(f) - e \in 0..Len(f) /\ Len(f) - e < b /\ Len(f) - (Len(f) - e) = e
      BY <1>1, <2>2, <2>3
    <3>2. Len(f) - e \notin Bad
      <4> HIDE DEF Bad
      <4> QED  BY <1>1, <2>1, <2>2, <3>1
    <3>3. Good(Len(f) - (Len(f) - e))
      BY <3>1, <3>2
    <3> HIDE DEF Good
    <3> QED  BY <3>1, <3>3
  <2> HIDE DEF o, Bad
  <2>5. ASSUME NEW y \in F[o] PROVE ReadsInOrder(l, f, o, y.records)
    <3>1. PICK r \in ReadRecord(l, f, o) :
            \/ r.status # "SUCCESS" /\ y = [records |-> << >>, status |-> r.status]
            \/ /\ r.status = "SUCCESS"
               /\ \E z \in F[r.end] :
                    y = [records |-> <<r.no>> \o z.records, status |-> z.status]
      <4>1. ComesFrom(l, f, F, o, y)
        BY <1>2, <2>3, RecoverCases
      <4> QED  BY <4>1 DEF ComesFrom
    <3>2. CASE y.records = << >>
      BY <3>2 DEF ReadsInOrder
    <3>3. CASE r.status = "SUCCESS"
      <4>1. PICK z \in F[r.end] :
              y = [records |-> <<r.no>> \o z.records, status |-> z.status]
        BY <3>1, <3>3
      <4>2. /\ r.no \in 1..Len(l) /\ r.end = o + SizeOf(l, r.no)
            /\ r.end \in (o + 1)..Len(f) /\ StandsAt(l, f, r.no, o)
        BY <2>3, <3>3, SuccessReads
      <4>3. ReadsInOrder(l, f, r.end, z.records)
        BY <2>4, <4>2
      <4>4. ReadsInOrder(l, f, o, <<r.no>> \o z.records)
        BY <2>3, <4>2, <4>3, ReadsOneMore
      <4>5. y.records = <<r.no>> \o z.records
        BY <4>1
      <4> QED  BY <4>4, <4>5
    <3>4. y.records = << >> \/ r.status = "SUCCESS"
      BY <3>1
    <3> QED  BY <3>2, <3>3, <3>4
  <2>6. Good(o)
    BY <2>5
  <2> HIDE DEF Good
  <2> QED  BY <2>2, <2>6
<1>4. Good(0)
  <2>1. Len(f) \in 0..Len(f) /\ Len(f) - Len(f) = 0
    BY <1>1
  <2>2. Good(Len(f) - Len(f))
    BY <1>3, <2>1
  <2> HIDE DEF Good
  <2> QED  BY <2>1, <2>2
<1> QED  BY <1>2, <1>4

-----------------------------------------------------------------------------
(***************************************************************************)
(* What recover_wal reads of a file without torn bytes in its middle.      *)
(***************************************************************************)

NotGarbled(l, f) == \A i \in PieceEnds(f) : i = Len(f) \/ ~IsTorn(l, f[i])

NotTooLarge(l) == \A no \in 1..Len(l) : PayloadSize[l[no].entry] <= MaxRecordSize

\* A record ends at offset o, or the file begins there.
Boundary(l, f, o) == o = 0 \/ f[o].place = SizeOf(l, f[o].no)

\* The first k bytes of record no, and no more, end the file behind offset o.
TornTail(l, f, no, o, k) ==
    /\ k < SizeOf(l, no) /\ o + k = Len(f)
    /\ \A i \in 1..k : f[o + i] = [no |-> no, place |-> i]

\* f behind offset a and g behind offset b have the same n elements.
Agree(f, a, g, b, n) == \A i \in 1..n : f[a + i] = g[b + i]

\* Two parts of sequences with the same elements.
LEMMA SameParts ==
    ASSUME NEW U, NEW f \in Seq(U), NEW g \in Seq(U), NEW a \in Nat, NEW b \in Nat,
           NEW n \in Nat, a + n <= Len(f), b + n <= Len(g),
           Agree(f, a, g, b, n)
    PROVE  SubSeq(f, a + 1, a + n) = SubSeq(g, b + 1, b + n)
<1> DEFINE x == SubSeq(f, a + 1, a + n)
           y == SubSeq(g, b + 1, b + n)
<1>1. x \in Seq(U) /\ Len(x) = n /\ \A i \in 1..n : x[i] = f[a + i]
  OBVIOUS
<1>2. y \in Seq(U) /\ Len(y) = n /\ \A i \in 1..n : y[i] = g[b + i]
  OBVIOUS
<1> HIDE DEF x, y
<1>3. \A i \in 1..n : x[i] = y[i]
  BY <1>1, <1>2 DEF Agree
<1>4. x = y
  BY <1>1, <1>2, <1>3, SeqEqual
<1> QED  BY <1>4 DEF x, y

\* Where a record ends, the first byte of another one follows.
LEMMA BoundaryStarts ==
    ASSUME NEW l \in Seq(LogRecords), NEW f, Ordered(l, f), NEW o \in 0..Len(f),
           o < Len(f), Boundary(l, f, o)
    PROVE  f[o + 1] = [no |-> f[o + 1].no, place |-> 1] /\ f[o + 1].no \in 1..Len(l)
<1>1. f \in Seq(Bytes) /\ Len(f) \in Nat /\ o + 1 \in 1..Len(f)
  BY DEF Ordered
<1>2. /\ f[o + 1] \in Bytes /\ f[o + 1].no \in 1..Len(l)
      /\ f[o + 1].place \in 1..SizeOf(l, f[o + 1].no)
      /\ f[o + 1].place > 1 => o + 1 > 1 /\ f[(o + 1) - 1].no = f[o + 1].no
  BY <1>1, OrderedAt
<1>3. f[o + 1].place = 1
  <2> SUFFICES ASSUME f[o + 1].place > 1 PROVE FALSE
    BY <1>2, SizeFacts
  <2>1. o \in 1..Len(f) /\ f[o].no = f[o + 1].no
    <3>1. (o + 1) - 1 = o
      OBVIOUS
    <3> QED  BY <1>1, <1>2, <3>1
  <2>2. f[o].place = SizeOf(l, f[o].no)
    BY <2>1 DEF Boundary
  <2>3. f[o].no < f[o + 1].no
    BY <1>1, <2>1, <2>2, OrderedAt
  <2> QED  BY <1>2, <2>1, <2>3
<1> QED  BY <1>2, <1>3 DEF Bytes

\* A length that is all there is the record's.
LEMMA LengthIs ==
    ASSUME NEW l \in Seq(LogRecords), NEW f \in Seq(Bytes), NEW o \in Nat,
           NEW no \in 1..Len(l), o + LengthSize <= Len(f),
           \A i \in 1..LengthSize : f[o + i] = [no |-> no, place |-> i]
    PROVE  Lengths(l, f, o) = {PayloadSize[l[no].entry]}
<1> DEFINE rb == RecordBytes(l, no)
<1>1. LengthSize \in Nat \ {0} /\ SizeOf(l, no) \in Nat /\ SizeOf(l, no) > LengthSize
  BY SizeFacts
<1>2. /\ rb \in Seq(Bytes) /\ Len(rb) = SizeOf(l, no)
      /\ \A i \in 1..SizeOf(l, no) : rb[i] = [no |-> no, place |-> i]
  BY RecordBytesFacts
<1> HIDE DEF rb
<1>3. Agree(f, o, rb, 0, LengthSize)
  <2> SUFFICES ASSUME NEW i \in 1..LengthSize PROVE f[o + i] = rb[0 + i]
    BY DEF Agree
  <2>1. i \in 1..SizeOf(l, no) /\ 0 + i = i
    BY <1>1
  <2> QED  BY <1>2, <2>1
<1>4. SubSeq(f, o + 1, o + LengthSize) = SubSeq(rb, 0 + 1, 0 + LengthSize)
  <2>1. 0 + LengthSize <= Len(rb) /\ LengthSize \in Nat /\ 0 \in Nat
    BY <1>1, <1>2
  <2> QED  BY <1>2, <1>3, <2>1, SameParts
<1>5. 0 + 1 = 1 /\ 0 + LengthSize = LengthSize
  BY <1>1
<1>6. f[o + 1].no = no
  <2>1. 1 \in 1..LengthSize
    BY <1>1
  <2>2. f[o + 1] = [no |-> no, place |-> 1]
    BY <2>1
  <2> QED  BY <2>2
<1> QED  BY <1>4, <1>5, <1>6 DEF Lengths, rb

\* A complete record is read.
LEMMA CompleteIsRead ==
    ASSUME NEW l \in Seq(LogRecords), NEW f \in Seq(Bytes), NEW o \in 0..Len(f),
           NEW no \in 1..Len(l), StandsAt(l, f, no, o), NotTooLarge(l),
           NEW r \in ReadRecord(l, f, o)
    PROVE  r.status = "SUCCESS"
<1> DEFINE S == SizeOf(l, no)
           n == PayloadSize[l[no].entry]
           rb == RecordBytes(l, no)
           a == o + LengthSize
           m == n + ChecksumSize
<1>1. /\ LengthSize \in Nat \ {0} /\ ChecksumSize \in Nat \ {0} /\ n \in Nat \ {0}
      /\ S = LengthSize + n + ChecksumSize /\ S \in Nat
  BY SizeFacts
<1>2. /\ rb \in Seq(Bytes) /\ Len(rb) = S
      /\ \A i \in 1..S : rb[i] = [no |-> no, place |-> i]
  BY RecordBytesFacts
<1>3. o \in Nat /\ o + S <= Len(f) /\ \A i \in 1..S : f[o + i] = [no |-> no, place |-> i]
  BY DEF StandsAt
<1> HIDE DEF S, rb, n
<1>4. Lengths(l, f, o) = {n}
  <2>1. o + LengthSize <= Len(f)
    BY <1>1, <1>3
  <2>2. \A i \in 1..LengthSize : f[o + i] = [no |-> no, place |-> i]
    BY <1>1, <1>3
  <2>3. o \in Nat
    BY <1>3
  <2>4. Lengths(l, f, o) = {PayloadSize[l[no].entry]}
    BY <2>1, <2>2, <2>3, LengthIs
  <2> QED  BY <2>4 DEF n
<1>5. no \in MatchesAt(l, f, a, n)
  <2>1. ASSUME NEW i \in 1..m PROVE f[a + i] = rb[LengthSize + i]
    <3>1. LengthSize + i \in 1..S /\ a + i = o + (LengthSize + i)
      BY <1>1, <1>3
    <3> QED  BY <1>2, <1>3, <3>1
  <2>2. a \in Nat /\ m \in Nat /\ a + m <= Len(f) /\ LengthSize + m <= Len(rb)
        /\ LengthSize \in Nat
    BY <1>1, <1>2, <1>3
  <2>3. a + m = a + n + ChecksumSize /\ LengthSize + m = S
    BY <1>1, <1>3
  <2> HIDE DEF a, m
  <2>4. SubSeq(f, a + 1, a + m) = SubSeq(rb, LengthSize + 1, LengthSize + m)
    <3>1. rb \in Seq(Bytes)
      BY <1>2
    <3>2. Agree(f, a, rb, LengthSize, m)
      BY <2>1 DEF Agree
    <3> QED  BY <2>2, <3>1, <3>2, SameParts
  <2>5. SubSeq(f, a + 1, a + n + ChecksumSize) = SubSeq(rb, LengthSize + 1, S)
    BY <2>3, <2>4
  <2>6. no \in DOMAIN l
    OBVIOUS
  <2> QED  BY <2>5, <2>6 DEF MatchesAt, S, rb
<1>6. ~(Len(f) - o < LengthSize) /\ ~(Len(f) - o < LengthSize + n + ChecksumSize)
  BY <1>1, <1>3
<1>7. ~(n = 0 \/ n > MaxRecordSize)
  BY <1>1, WalFileAssumption DEF NotTooLarge, n
<1>8. r = ReadPayload(l, f, o, n)
  BY <1>4, <1>6 DEF ReadRecord
<1> QED  BY <1>5, <1>6, <1>7, <1>8 DEF ReadPayload, Outcome

\* A torn record at the end is taken for the end.
LEMMA TailIsEnd ==
    ASSUME NEW l \in Seq(LogRecords), NEW f \in Seq(Bytes), NEW o \in 0..Len(f),
           NEW no \in 1..Len(l), NEW k \in Nat, TornTail(l, f, no, o, k),
           NotTooLarge(l), NEW r \in ReadRecord(l, f, o)
    PROVE  r.status \in {"EOF_REACHED", "INCOMPLETE"}
<1> DEFINE n == PayloadSize[l[no].entry]
<1>1. /\ LengthSize \in Nat \ {0} /\ ChecksumSize \in Nat \ {0} /\ n \in Nat \ {0}
      /\ SizeOf(l, no) = LengthSize + n + ChecksumSize
  BY SizeFacts
<1>2. /\ k < SizeOf(l, no) /\ o + k = Len(f) /\ o \in Nat
      /\ \A i \in 1..k : f[o + i] = [no |-> no, place |-> i]
  BY DEF TornTail
<1>3. Len(f) - o = k
  BY <1>2
<1>4. CASE k < LengthSize
  BY <1>3, <1>4 DEF ReadRecord, Failed, Outcome
<1>5. CASE ~(k < LengthSize)
  <2>1. o + LengthSize <= Len(f)
    BY <1>1, <1>2, <1>5
  <2>2. \A i \in 1..LengthSize : f[o + i] = [no |-> no, place |-> i]
    BY <1>1, <1>2, <1>5
  <2>3. Lengths(l, f, o) = {n}
    BY <1>2, <2>1, <2>2, LengthIs
  <2>4. ~(n = 0 \/ n > MaxRecordSize)
    BY <1>1, WalFileAssumption DEF NotTooLarge
  <2> HIDE DEF n
  <2>5. r = ReadPayload(l, f, o, n)
    BY <1>3, <1>5, <2>3 DEF ReadRecord
  <2>6. Len(f) - o < LengthSize + n + ChecksumSize
    BY <1>1, <1>2, <1>3
  <2> QED  BY <2>4, <2>5, <2>6 DEF ReadPayload, Failed, Outcome
<1> QED  BY <1>4, <1>5

\* The first k bytes of record no, and no more, stand in f behind offset o.
TornPiece(l, f, no, o, k) ==
    k < SizeOf(l, no) /\ Begins(f, no, o, k) /\ o + k \in PieceEnds(f)

\* The pieces of a file end inside it.
LEMMA EndsFacts ==
    ASSUME NEW f \in Seq(Bytes)
    PROVE  /\ PieceEnds(f) \subseteq 1..Len(f) /\ PieceEnds(f) \subseteq Nat
           /\ IsFiniteSet(PieceEnds(f)) /\ Cardinality(PieceEnds(f)) \in Nat
           /\ Len(f) \in Nat
           /\ Len(f) # 0 => Len(f) \in PieceEnds(f)
<1>1. Len(f) \in Nat /\ PieceEnds(f) \subseteq 1..Len(f)
  BY DEF PieceEnds
<1>2. IsFiniteSet(1..Len(f))
  BY <1>1, FS_Interval
<1>3. IsFiniteSet(PieceEnds(f))
  BY <1>1, <1>2, FS_Subset
<1>4. Len(f) # 0 => Len(f) \in PieceEnds(f)
  BY <1>1 DEF PieceEnds
<1>5. PieceEnds(f) \subseteq Nat
  BY <1>1
<1> QED  BY <1>1, <1>3, <1>4, <1>5, FS_CardinalityType

\* What follows a boundary is a whole record or a torn one.
LEMMA PieceFollows ==
    ASSUME NEW l \in Seq(LogRecords), NEW f, Ordered(l, f),
           NEW o \in 0..Len(f), o < Len(f), Boundary(l, f, o)
    PROVE  \E no \in 1..Len(l) :
            \/ StandsAt(l, f, no, o)
            \/ \E k \in Nat \ {0} : TornPiece(l, f, no, o, k)
<1> DEFINE no == f[o + 1].no
           S == SizeOf(l, no)
           Here(i) == o + i <= Len(f) /\ f[o + i] = [no |-> no, place |-> i]
           Bad == {i \in 1..S : ~Here(i)}
<1>1. /\ f \in Seq(Bytes) /\ Len(f) \in Nat /\ o \in Nat
      /\ no \in 1..Len(l) /\ f[o + 1] = [no |-> no, place |-> 1]
  BY BoundaryStarts DEF Ordered
<1>2. S \in Nat /\ S > 0
  BY <1>1, SizeFacts
<1>3. CASE Bad = {}
  <2>1. \A i \in 1..S : Here(i)
    BY <1>3
  <2>2. S \in 1..S
    BY <1>2
  <2>3. StandsAt(l, f, no, o)
    BY <2>1, <2>2 DEF StandsAt
  <2> QED  BY <1>1, <2>3
<1>4. CASE Bad # {}
  <2>1. PICK b \in Bad : \A c \in Bad : b <= c
    <3>1. Bad \subseteq Nat
      BY <1>2
    <3> HIDE DEF Bad
    <3> QED  BY <1>4, <3>1, LeastNatural
  <2>2. b \in 1..S /\ ~Here(b)
    BY <2>1
  <2>3. b # 1
    <3>1. Here(1)
      BY <1>1
    <3> QED  BY <2>2, <3>1
  <2> DEFINE k == b - 1
  <2>4. k \in Nat \ {0} /\ k < S /\ k + 1 = b /\ o + k + 1 = o + b
    BY <1>1, <1>2, <2>2, <2>3
  <2>5. ASSUME NEW i \in 1..k PROVE Here(i)
    <3>1. i \in 1..S /\ i < b
      BY <1>2, <2>4
    <3>2. i \notin Bad
      <4> HIDE DEF Bad
      <4> QED  BY <1>2, <2>1, <2>2, <3>1
    <3> QED  BY <3>1, <3>2
  <2>6. Here(k)
    BY <2>4, <2>5
  <2> HIDE DEF k
  <2> DEFINE e == o + k
  <2>7. e \in 1..Len(f) /\ f[e] = [no |-> no, place |-> k]
    BY <1>1, <2>4, <2>6
  <2>8. [f[e] EXCEPT !.place = @ + 1] = [no |-> no, place |-> b]
    <3> HIDE DEF e, no
    <3> QED  BY <2>4, <2>7
  <2>9. e < Len(f) => f[e + 1] # [no |-> no, place |-> b]
    <3> SUFFICES ASSUME e < Len(f), f[e + 1] = [no |-> no, place |-> b] PROVE FALSE
      OBVIOUS
    <3>1. o + b <= Len(f) /\ f[o + b] = [no |-> no, place |-> b]
      BY <1>1, <2>2, <2>4
    <3> QED  BY <2>2, <3>1
  <2>10. e \in PieceEnds(f)
    <3> HIDE DEF e, no
    <3> QED  BY <1>1, <2>7, <2>8, <2>9 DEF PieceEnds
  <2>11. TornPiece(l, f, no, o, k)
    BY <2>4, <2>5, <2>10 DEF TornPiece, Begins
  <2> QED  BY <1>1, <2>4, <2>11
<1> QED  BY <1>3, <1>4

\* The last byte of a torn piece says that it is torn.
LEMMA TornPieceEnds ==
    ASSUME NEW l \in Seq(LogRecords), NEW f \in Seq(Bytes), NEW o \in Nat,
           NEW no \in 1..Len(l), NEW k \in Nat \ {0}, TornPiece(l, f, no, o, k)
    PROVE  /\ o + k \in PieceEnds(f) /\ IsTorn(l, f[o + k])
           /\ o + k = Len(f) => TornTail(l, f, no, o, k)
           /\ ~StandsAt(l, f, no, o)
<1>1. k < SizeOf(l, no) /\ Begins(f, no, o, k) /\ o + k \in PieceEnds(f)
  BY DEF TornPiece
<1>2. SizeOf(l, no) \in Nat
  BY SizeFacts
<1>3. f[o + k] = [no |-> no, place |-> k]
  BY <1>1 DEF Begins
<1>4. f[o + k].no = no /\ f[o + k].place = k /\ k # SizeOf(l, no)
  BY <1>1, <1>2, <1>3
<1>5. IsTorn(l, f[o + k])
  BY <1>4 DEF IsTorn
<1>6. ASSUME StandsAt(l, f, no, o) PROVE FALSE
  <2>1. /\ o + SizeOf(l, no) <= Len(f)
        /\ \A i \in 1..SizeOf(l, no) : f[o + i] = [no |-> no, place |-> i]
    BY <1>6 DEF StandsAt
  <2>2. k + 1 \in 1..SizeOf(l, no) /\ (o + k) + 1 = o + (k + 1) /\ o + k < Len(f)
    BY <1>1, <1>2, <2>1
  <2>3. f[(o + k) + 1] = [no |-> no, place |-> k + 1]
    BY <2>1, <2>2
  <2>4. [f[o + k] EXCEPT !.place = @ + 1] = [no |-> no, place |-> k + 1]
    BY <1>3
  <2> QED  BY <1>1, <2>2, <2>3, <2>4 DEF PieceEnds
<1>7. o + k = Len(f) => TornTail(l, f, no, o, k)
  BY <1>1 DEF TornTail, Begins
<1> QED  BY <1>1, <1>5, <1>6, <1>7

\* What follows a boundary is a whole record, or a torn one that ends the file.
LEMMA WholeOrTail ==
    ASSUME NEW l \in Seq(LogRecords), NEW f, Ordered(l, f), NotGarbled(l, f),
           NEW o \in 0..Len(f), o < Len(f), Boundary(l, f, o)
    PROVE  \E no \in 1..Len(l) :
            \/ StandsAt(l, f, no, o)
            \/ \E k \in Nat \ {0} : TornTail(l, f, no, o, k)
<1>1. PICK no \in 1..Len(l) : \/ StandsAt(l, f, no, o)
                              \/ \E k \in Nat \ {0} : TornPiece(l, f, no, o, k)
  BY PieceFollows
<1>2. CASE \E k \in Nat \ {0} : TornPiece(l, f, no, o, k)
  <2>1. PICK k \in Nat \ {0} : TornPiece(l, f, no, o, k)
    BY <1>2
  <2>2. f \in Seq(Bytes) /\ o \in Nat
    BY DEF Ordered
  <2>3. /\ o + k \in PieceEnds(f) /\ IsTorn(l, f[o + k])
        /\ o + k = Len(f) => TornTail(l, f, no, o, k)
    BY <2>1, <2>2, TornPieceEnds
  <2>4. TornTail(l, f, no, o, k)
    BY <2>3 DEF NotGarbled
  <2> QED  BY <2>4
<1> QED  BY <1>1, <1>2

\* The first and the last byte of a complete record.
LEMMA StandsEnds ==
    ASSUME NEW l \in Seq(LogRecords), NEW f \in Seq(Bytes), NEW no \in 1..Len(l),
           NEW p \in Nat, StandsAt(l, f, no, p)
    PROVE  /\ p + 1 \in 1..Len(f) /\ f[p + 1].no = no /\ f[p + 1].place = 1
           /\ p + SizeOf(l, no) \in 1..Len(f) /\ f[p + SizeOf(l, no)].no = no
           /\ f[p + SizeOf(l, no)].place = SizeOf(l, no)
<1> DEFINE S == SizeOf(l, no)
<1>1. S \in Nat /\ S > 0 /\ Len(f) \in Nat
  BY SizeFacts
<1>2. p + S <= Len(f) /\ \A i \in 1..S : f[p + i] = [no |-> no, place |-> i]
  BY DEF StandsAt
<1> HIDE DEF S
<1>3. p + 1 \in 1..Len(f) /\ p + S \in 1..Len(f) /\ 1 \in 1..S /\ S \in 1..S
  BY <1>1, <1>2
<1>4. f[p + 1] = [no |-> no, place |-> 1] /\ f[p + S] = [no |-> no, place |-> S]
  BY <1>2, <1>3
<1>5. /\ f[p + 1].no = no /\ f[p + 1].place = 1
      /\ f[p + S].no = no /\ f[p + S].place = S
  BY <1>4
<1> QED  BY <1>3, <1>5 DEF S

\* A record that stands behind the beginning of another one stands behind all
\* of it.
LEMMA StandsBehind ==
    ASSUME NEW l \in Seq(LogRecords), NEW f \in Seq(Bytes), NEW no \in 1..Len(l),
           NEW p \in Nat, StandsAt(l, f, no, p),
           NEW m \in 1..Len(l), NEW o \in Nat, NEW k \in Nat,
           Begins(f, m, o, k), o <= p
    PROVE  p >= o + k \/ (p = o /\ (k > 0 => no = m))
<1>1. f[p + 1].no = no /\ f[p + 1].place = 1
  BY StandsEnds
<1>2. CASE p < o + k
  <2> DEFINE i == (p + 1) - o
  <2>1. i \in 1..k /\ o + i = p + 1
    BY <1>2
  <2>2. f[p + 1] = [no |-> m, place |-> i]
    BY <2>1 DEF Begins
  <2> HIDE DEF i
  <2>3. f[p + 1].no = m /\ f[p + 1].place = i
    BY <2>2
  <2>4. i = 1 /\ no = m
    BY <1>1, <2>3
  <2>5. (p + 1) - o = 1
    BY <2>4 DEF i
  <2>6. p = o
    BY <2>5
  <2> QED  BY <2>4, <2>6
<1>3. CASE ~(p < o + k)
  BY <1>3
<1> QED  BY <1>2, <1>3

\* y is not corrupted, and has every record that is complete behind offset o.
ReadsAll(l, f, o, y) ==
    /\ y.status # "CORRUPTED"
    /\ y.records \in Seq(Nat)
    /\ \A no \in 1..Len(l), p \in o..Len(f) :
        StandsAt(l, f, no, p) => \E j \in 1..Len(y.records) : y.records[j] = no

\* The end of the file.
LEMMA ReadsTheEnd ==
    ASSUME NEW l \in Seq(LogRecords), NEW f, Ordered(l, f), NEW o \in 0..Len(f),
           NEW y, y.records = << >>, y.status # "CORRUPTED",
           \/ o = Len(f)
           \/ \E no \in 1..Len(l), k \in Nat \ {0} : TornTail(l, f, no, o, k)
    PROVE  ReadsAll(l, f, o, y)
<1>1. f \in Seq(Bytes) /\ Len(f) \in Nat
  BY DEF Ordered
<1>2. ASSUME NEW no \in 1..Len(l), NEW p \in o..Len(f), StandsAt(l, f, no, p)
      PROVE  FALSE
  <2>1. p \in Nat /\ p + 1 \in 1..Len(f) /\ p + SizeOf(l, no) <= Len(f)
        /\ SizeOf(l, no) \in Nat
    BY <1>1, <1>2, StandsEnds, SizeFacts
  <2>2. PICK m \in 1..Len(l), k \in Nat \ {0} : TornTail(l, f, m, o, k)
    BY <1>1, <2>1
  <2>3. /\ k < SizeOf(l, m) /\ o + k = Len(f) /\ o \in Nat
        /\ Begins(f, m, o, k)
    BY <1>1, <2>2 DEF TornTail, Begins
  <2>4. o <= p /\ ~(p >= o + k)
    BY <1>1, <2>1, <2>3
  <2>5. p = o /\ no = m
    BY <1>1, <1>2, <2>1, <2>3, <2>4, StandsBehind
  <2> QED  BY <1>1, <2>1, <2>3, <2>5
<1>3. y.records \in Seq(Nat)
  OBVIOUS
<1> QED  BY <1>2, <1>3 DEF ReadsAll

\* One more record.
LEMMA ReadsAllOneMore ==
    ASSUME NEW l \in Seq(LogRecords), NEW f, Ordered(l, f), NEW o \in 0..Len(f),
           NEW m \in 1..Len(l), StandsAt(l, f, m, o),
           NEW y, NEW z, ReadsAll(l, f, o + SizeOf(l, m), z),
           y.records = <<m>> \o z.records, y.status = z.status
    PROVE  ReadsAll(l, f, o, y)
<1>1. f \in Seq(Bytes) /\ Len(f) \in Nat /\ o \in Nat /\ m \in Nat
      /\ SizeOf(l, m) \in Nat /\ SizeOf(l, m) > 0
      /\ Begins(f, m, o, SizeOf(l, m))
  BY SizeFacts DEF Ordered, StandsAt, Begins
<1>2. z.records \in Seq(Nat) /\ Len(z.records) \in Nat /\ z.status # "CORRUPTED"
  BY DEF ReadsAll
<1>3. /\ y.records \in Seq(Nat) /\ Len(y.records) = Len(z.records) + 1
      /\ y.records[1] = m
      /\ \A i \in 1..Len(z.records) : y.records[i + 1] = z.records[i]
  BY <1>1, <1>2, ConsFacts
<1>4. ASSUME NEW no \in 1..Len(l), NEW p \in o..Len(f), StandsAt(l, f, no, p)
      PROVE  \E j \in 1..Len(y.records) : y.records[j] = no
  <2>1. p \in Nat /\ o <= p
    BY <1>1
  <2>2. p >= o + SizeOf(l, m) \/ (p = o /\ no = m)
    BY <1>1, <1>4, <2>1, StandsBehind
  <2>3. CASE no = m
    <3>1. 1 \in 1..Len(y.records)
      BY <1>2, <1>3
    <3> QED  BY <1>3, <2>3, <3>1
  <2>4. CASE p >= o + SizeOf(l, m)
    <3>1. p \in (o + SizeOf(l, m))..Len(f)
      BY <1>1, <2>4
    <3>2. PICK j \in 1..Len(z.records) : z.records[j] = no
      BY <1>4, <3>1 DEF ReadsAll
    <3>3. j + 1 \in 1..Len(y.records) /\ y.records[j + 1] = no
      BY <1>2, <1>3, <3>2
    <3> QED  BY <3>3
  <2> QED  BY <2>2, <2>3, <2>4
<1> QED  BY <1>2, <1>3, <1>4 DEF ReadsAll

\* recover_wal reads every complete record of a file without torn bytes in
\* its middle, and does not refuse it.
LEMMA RecoveryReadsAll ==
    ASSUME NEW l \in Seq(LogRecords), NEW f, Ordered(l, f), NotGarbled(l, f),
           NotTooLarge(l), NEW x \in Recover(l, f)
    PROVE  ReadsAll(l, f, 0, x)
<1>1. /\ f \in Seq(Bytes) /\ Len(f) \in Nat
      /\ \A i \in 1..Len(f) : InLog(l, f[i])
  BY DEF Ordered
<1> DEFINE F == RecoveryFrom(l, f)
           Good(o) == Boundary(l, f, o) => \A y \in F[o] : ReadsAll(l, f, o, y)
           Bad == {n \in 0..Len(f) : ~Good(Len(f) - n)}
<1>2. Recovers(F, l, f, 0..Len(f)) /\ Recover(l, f) = F[0]
  BY <1>1, RecoverFacts
<1> HIDE DEF F
<1>3. ASSUME Bad # {} PROVE FALSE
  <2>1. PICK b \in Bad : \A c \in Bad : b <= c
    <3>1. Bad \subseteq Nat
      OBVIOUS
    <3> HIDE DEF Bad
    <3> QED  BY <1>3, <3>1, LeastNatural
  <2> DEFINE o == Len(f) - b
  <2>2. b \in 0..Len(f) /\ ~Good(o)
    BY <2>1
  <2>3. o \in 0..Len(f) /\ o \in Nat
    BY <1>1, <2>2
  <2>4. ASSUME NEW e \in (o + 1)..Len(f) PROVE Good(e)
    <3>1. Len(f) - e \in 0..Len(f) /\ Len(f) - e < b /\ Len(f) - (Len(f) - e) = e
      BY <1>1, <2>2, <2>3
    <3>2. Len(f) - e \notin Bad
      <4> HIDE DEF Bad
      <4> QED  BY <1>1, <2>1, <2>2, <3>1
    <3>3. Good(Len(f) - (Len(f) - e))
      BY <3>1, <3>2
    <3> HIDE DEF Good
    <3> QED  BY <3>1, <3>3
  <2> HIDE DEF o, Bad
  <2>5. ASSUME NEW y \in F[o], Boundary(l, f, o) PROVE ReadsAll(l, f, o, y)
    <3>1. PICK r \in ReadRecord(l, f, o) :
            \/ r.status # "SUCCESS" /\ y = [records |-> << >>, status |-> r.status]
            \/ /\ r.status = "SUCCESS"
               /\ \E z \in F[r.end] :
                    y = [records |-> <<r.no>> \o z.records, status |-> z.status]
      <4>1. ComesFrom(l, f, F, o, y)
        BY <1>2, <2>3, RecoverCases
      <4> QED  BY <4>1 DEF ComesFrom
    <3>2. CASE \/ o = Len(f)
               \/ \E no \in 1..Len(l), k \in Nat \ {0} : TornTail(l, f, no, o, k)
      <4>1. r.status \in {"EOF_REACHED", "INCOMPLETE"}
        <5>1. CASE o = Len(f)
          <6>1. Len(f) - o = 0 /\ LengthSize \in Nat \ {0}
            BY <1>1, <5>1, WalFileAssumption
          <6>2. Len(f) - o < LengthSize
            BY <6>1
          <6> QED  BY <6>2 DEF ReadRecord, Failed, Outcome
        <5>2. CASE \E no \in 1..Len(l), k \in Nat \ {0} : TornTail(l, f, no, o, k)
          <6>1. PICK no \in 1..Len(l), k \in Nat \ {0} : TornTail(l, f, no, o, k)
            BY <5>2
          <6> QED  BY <1>1, <2>3, <6>1, TailIsEnd
        <5> QED  BY <3>2, <5>1, <5>2
      <4>2. y = [records |-> << >>, status |-> r.status]
        BY <3>1, <4>1
      <4>3. y.records = << >> /\ y.status # "CORRUPTED"
        BY <4>1, <4>2
      <4> QED  BY <2>3, <3>2, <4>3, ReadsTheEnd
    <3>3. CASE \E no \in 1..Len(l) : StandsAt(l, f, no, o)
      <4>1. r.status = "SUCCESS"
        BY <1>1, <2>3, <3>3, CompleteIsRead
      <4>2. PICK z \in F[r.end] :
              y = [records |-> <<r.no>> \o z.records, status |-> z.status]
        BY <3>1, <4>1
      <4>3. /\ r.no \in 1..Len(l) /\ r.end = o + SizeOf(l, r.no)
            /\ r.end \in (o + 1)..Len(f) /\ StandsAt(l, f, r.no, o)
        BY <2>3, <4>1, SuccessReads
      <4>4. Boundary(l, f, r.end)
        <5>1. f[r.end].no = r.no /\ f[r.end].place = SizeOf(l, r.no)
          BY <1>1, <2>3, <4>3, StandsEnds
        <5> QED  BY <5>1 DEF Boundary
      <4>5. ReadsAll(l, f, r.end, z)
        BY <2>4, <4>3, <4>4
      <4>6. y.records = <<r.no>> \o z.records /\ y.status = z.status
        BY <4>2
      <4>7. ReadsAll(l, f, o + SizeOf(l, r.no), z)
        BY <4>3, <4>5
      <4> QED  BY <2>3, <4>3, <4>6, <4>7, ReadsAllOneMore
    <3>4. o = Len(f) \/ o < Len(f)
      BY <1>1, <2>3
    <3>5. o < Len(f) => \E no \in 1..Len(l) :
                            \/ StandsAt(l, f, no, o)
                            \/ \E k \in Nat \ {0} : TornTail(l, f, no, o, k)
      BY <2>3, <2>5, WholeOrTail
    <3> QED  BY <3>2, <3>3, <3>4, <3>5
  <2>6. Good(o)
    BY <2>5
  <2> HIDE DEF Good
  <2> QED  BY <2>2, <2>6
<1>4. Good(0)
  <2>1. Len(f) \in 0..Len(f) /\ Len(f) - Len(f) = 0
    BY <1>1
  <2>2. Good(Len(f) - Len(f))
    BY <1>3, <2>1
  <2> HIDE DEF Good
  <2> QED  BY <2>1, <2>2
<1>5. Boundary(l, f, 0)
  BY DEF Boundary
<1> QED  BY <1>2, <1>4, <1>5

-----------------------------------------------------------------------------
(***************************************************************************)
(* The pieces of the file, numbered, and how far recovery gets.            *)
(***************************************************************************)

\* A complete record is a piece.
LEMMA StandsIsPiece ==
    ASSUME NEW l \in Seq(LogRecords), NEW f, Ordered(l, f), NEW o \in Nat,
           NEW no \in 1..Len(l), StandsAt(l, f, no, o)
    PROVE  /\ o + SizeOf(l, no) \in PieceEnds(f) /\ Begins(f, no, o, SizeOf(l, no))
           /\ f[o + SizeOf(l, no)].no = no /\ ~IsTorn(l, f[o + SizeOf(l, no)])
<1> DEFINE S == SizeOf(l, no)
           e == o + S
<1>1. S \in Nat \ {0} /\ f \in Seq(Bytes) /\ Len(f) \in Nat
  BY SizeFacts DEF Ordered
<1>2. e \in 1..Len(f) /\ f[e].no = no /\ f[e].place = S
  BY <1>1, StandsEnds
<1>3. Begins(f, no, o, S)
  BY DEF StandsAt, Begins
<1>4. ASSUME e < Len(f), f[e + 1] = [f[e] EXCEPT !.place = @ + 1] PROVE FALSE
  <2>1. e + 1 \in 1..Len(f) /\ f[e] \in Bytes
    BY <1>1, <1>2, <1>4
  <2>2. f[e + 1].no = no /\ f[e + 1].place = S + 1
    <3> HIDE DEF e, S
    <3> QED  BY <1>2, <1>4, <2>1 DEF Bytes
  <2>3. f[e + 1].place \in 1..SizeOf(l, f[e + 1].no)
    BY <2>1, OrderedAt
  <2>4. S + 1 \in 1..S
    BY <2>2, <2>3
  <2> HIDE DEF S
  <2> QED  BY <1>1, <2>4
<1>5. e \in PieceEnds(f)
  <2> HIDE DEF e
  <2> QED  BY <1>1, <1>2, <1>4 DEF PieceEnds
<1>6. ~IsTorn(l, f[e])
  BY <1>2 DEF IsTorn
<1> QED  BY <1>2, <1>3, <1>5, <1>6

\* A torn record is never read, and is an error only if something follows it.
LEMMA TornIsNotRead ==
    ASSUME NEW l \in Seq(LogRecords), NEW f, Ordered(l, f), NEW o \in 0..Len(f),
           NEW no \in 1..Len(l), NEW k \in Nat \ {0}, TornPiece(l, f, no, o, k),
           NotTooLarge(l), NEW r \in ReadRecord(l, f, o)
    PROVE  r.status # "SUCCESS" /\ (r.status = "CORRUPTED" => o + k < Len(f))
<1>1. f \in Seq(Bytes) /\ Len(f) \in Nat /\ o \in Nat
  BY DEF Ordered
<1>2. /\ o + k \in PieceEnds(f)
      /\ o + k = Len(f) => TornTail(l, f, no, o, k)
      /\ ~StandsAt(l, f, no, o)
  BY <1>1, TornPieceEnds
<1>3. ASSUME r.status = "SUCCESS" PROVE FALSE
  <2>1. r.no \in 1..Len(l) /\ StandsAt(l, f, r.no, o)
    BY <1>3, SuccessReads
  <2>2. f[o + 1].no = r.no
    BY <1>1, <2>1, StandsEnds
  <2>3. f[o + 1] = [no |-> no, place |-> 1]
    BY DEF TornPiece, Begins
  <2>4. r.no = no
    BY <2>2, <2>3
  <2> QED  BY <1>2, <2>1, <2>4
<1>4. ASSUME r.status = "CORRUPTED" PROVE o + k < Len(f)
  <2>1. o + k # Len(f)
    BY <1>1, <1>2, <1>4, TailIsEnd
  <2>2. o + k \in 1..Len(f)
    BY <1>1, <1>2, EndsFacts
  <2> QED  BY <1>1, <2>1, <2>2
<1> QED  BY <1>3, <1>4

\* The number of the pieces of f that end at offset o or in front of it.
Rank(f, o) == Cardinality(UpTo(PieceEnds(f), o))

\* No piece ends at 0, all end at the length or in front of it, and a piece is
\* known by its number.
LEMMA RankFacts ==
    ASSUME NEW f \in Seq(Bytes)
    PROVE  /\ Rank(f, 0) = 0 /\ Rank(f, Len(f)) = Cardinality(PieceEnds(f))
           /\ \A o \in Nat : Rank(f, o) \in Nat
           /\ \A p \in PieceEnds(f) : Rank(f, p) \in 1..Cardinality(PieceEnds(f))
           /\ \A p, q \in PieceEnds(f) : Rank(f, p) = Rank(f, q) => p = q
<1> DEFINE E == PieceEnds(f)
<1>1. E \subseteq 1..Len(f) /\ E \subseteq Nat /\ IsFiniteSet(E) /\ Len(f) \in Nat
  BY EndsFacts
<1> HIDE DEF E
<1>2. Cardinality(UpTo(E, 0)) = 0
  <2>1. \A x \in E : ~(x <= 0)
    BY <1>1
  <2>2. UpTo(E, 0) = {}
    BY <2>1 DEF UpTo
  <2> QED  BY <2>2, FS_EmptySet
<1>3. UpTo(E, Len(f)) = E
  <2>1. \A x \in E : x <= Len(f)
    BY <1>1
  <2> QED  BY <2>1 DEF UpTo
<1>4. ASSUME NEW o \in Nat PROVE Cardinality(UpTo(E, o)) \in Nat
  <2>1. UpTo(E, o) \subseteq E
    BY DEF UpTo
  <2> QED  BY <1>1, <2>1, FS_Subset, FS_CardinalityType
<1>5. \A p \in E : Cardinality(UpTo(E, p)) \in 1..Cardinality(E)
  BY <1>1, RankType
<1>6. \A p, q \in E : Cardinality(UpTo(E, p)) = Cardinality(UpTo(E, q)) => p = q
  BY <1>1, RankUnique
<1> QED  BY <1>2, <1>3, <1>4, <1>5, <1>6 DEF Rank, E

\* A piece of k bytes behind offset o is the next one.
LEMMA RankNext ==
    ASSUME NEW f \in Seq(Bytes), NEW o \in Nat, NEW no, NEW k \in Nat \ {0},
           Begins(f, no, o, k), o + k \in PieceEnds(f)
    PROVE  Rank(f, o + k) = Rank(f, o) + 1
<1> DEFINE E == PieceEnds(f)
           e == o + k
<1>1. E \subseteq 1..Len(f) /\ E \subseteq Nat /\ IsFiniteSet(E) /\ Len(f) \in Nat
  BY EndsFacts
<1>2. ASSUME NEW p \in E, p > o, p < e PROVE FALSE
  <2>1. PICK j : j = p - o
    OBVIOUS
  <2>2. p \in Nat /\ p < Len(f)
    BY <1>1, <1>2
  <2>3. j \in 1..k /\ j + 1 \in 1..k /\ o + j = p /\ o + (j + 1) = p + 1
    BY <1>2, <2>1, <2>2
  <2>4. f[p] = [no |-> no, place |-> j] /\ f[p + 1] = [no |-> no, place |-> j + 1]
    BY <2>3 DEF Begins
  <2>5. [f[p] EXCEPT !.place = @ + 1] = [no |-> no, place |-> j + 1]
    BY <2>3, <2>4
  <2> QED  BY <2>2, <2>4, <2>5 DEF PieceEnds
<1> HIDE DEF E
<1>3. UpTo(E, e) = UpTo(E, o) \cup {e} /\ e \notin UpTo(E, o)
  <2>1. e \in E
    BY DEF E
  <2>2. e \in Nat /\ e > o
    OBVIOUS
  <2> HIDE DEF e
  <2>3. ASSUME NEW p \in E, p <= e PROVE p <= o \/ p = e
    BY <1>1, <1>2, <2>2, <2>3
  <2>4. ASSUME NEW p \in E, p <= o PROVE p <= e
    BY <1>1, <2>2, <2>4
  <2>5. e <= e /\ ~(e <= o)
    BY <2>2
  <2> QED  BY <2>1, <2>3, <2>4, <2>5 DEF UpTo
<1>4. IsFiniteSet(UpTo(E, o))
  <2>1. UpTo(E, o) \subseteq E
    BY DEF UpTo
  <2> QED  BY <1>1, <2>1, FS_Subset
<1>5. Cardinality(UpTo(E, e)) = Cardinality(UpTo(E, o)) + 1
  BY <1>3, <1>4, FS_AddElement
<1> QED  BY <1>5 DEF Rank, E

\* Recovery with this status stopped behind piece n: at the end of the file, or
\* at a torn piece, and it complained only if that is not the last one.
StopsBehind(l, f, n, status) ==
    \/ n = Cardinality(PieceEnds(f)) /\ status # "CORRUPTED"
    \/ \E p \in PieceEnds(f) : /\ Rank(f, p) = n + 1 /\ IsTorn(l, f[p])
                               /\ status = "CORRUPTED" => p < Len(f)

\* Piece number n is all of record no.
IsWhole(l, f, n, no) ==
    \E p \in PieceEnds(f) : Rank(f, p) = n /\ f[p].no = no /\ ~IsTorn(l, f[p])

\* y has the records of the pieces behind offset o, up to where it stops.
Tracks(l, f, o, y) ==
    /\ y.records \in Seq(Nat)
    /\ \A i \in 1..Len(y.records) : IsWhole(l, f, Rank(f, o) + i, y.records[i])
    /\ StopsBehind(l, f, Rank(f, o) + Len(y.records), y.status)

\* Nothing is read at the end of the file or at a torn piece.
LEMMA TracksNothing ==
    ASSUME NEW l \in Seq(LogRecords), NEW f \in Seq(Bytes), NEW o \in 0..Len(f),
           NEW y, y.records = << >>,
           \/ o = Len(f) /\ y.status # "CORRUPTED"
           \/ \E no \in 1..Len(l), k \in Nat \ {0} :
                /\ TornPiece(l, f, no, o, k)
                /\ y.status = "CORRUPTED" => o + k < Len(f)
    PROVE  Tracks(l, f, o, y)
<1>1. y.records \in Seq(Nat) /\ Len(y.records) = 0
  OBVIOUS
<1>2. o \in Nat /\ Rank(f, o) \in Nat /\ Rank(f, Len(f)) = Cardinality(PieceEnds(f))
  BY RankFacts
<1>3. Rank(f, o) + Len(y.records) = Rank(f, o) /\ 1..Len(y.records) = {}
  BY <1>1, <1>2
<1>4. StopsBehind(l, f, Rank(f, o), y.status)
  <2>1. CASE o = Len(f) /\ y.status # "CORRUPTED"
    BY <1>2, <2>1 DEF StopsBehind
  <2>2. CASE \E no \in 1..Len(l), k \in Nat \ {0} :
                /\ TornPiece(l, f, no, o, k)
                /\ y.status = "CORRUPTED" => o + k < Len(f)
    <3>1. PICK no \in 1..Len(l), k \in Nat \ {0} :
                /\ TornPiece(l, f, no, o, k)
                /\ y.status = "CORRUPTED" => o + k < Len(f)
      BY <2>2
    <3>2. o + k \in PieceEnds(f) /\ IsTorn(l, f[o + k])
      BY <1>2, <3>1, TornPieceEnds
    <3>3. Rank(f, o + k) = Rank(f, o) + 1
      <4>1. Begins(f, no, o, k)
        BY <3>1 DEF TornPiece
      <4> QED  BY <1>2, <3>2, <4>1, RankNext
    <3> QED  BY <3>1, <3>2, <3>3 DEF StopsBehind
  <2> QED  BY <2>1, <2>2
<1> QED  BY <1>1, <1>3, <1>4 DEF Tracks

\* One more record.
LEMMA TracksOneMore ==
    ASSUME NEW l \in Seq(LogRecords), NEW f, Ordered(l, f), NEW o \in 0..Len(f),
           NEW m \in 1..Len(l), StandsAt(l, f, m, o),
           NEW y, NEW z, Tracks(l, f, o + SizeOf(l, m), z),
           y.records = <<m>> \o z.records, y.status = z.status
    PROVE  Tracks(l, f, o, y)
<1> DEFINE S == SizeOf(l, m)
<1>1. f \in Seq(Bytes) /\ o \in Nat /\ m \in Nat /\ S \in Nat \ {0}
  BY SizeFacts DEF Ordered
<1>2. /\ o + S \in PieceEnds(f) /\ Begins(f, m, o, S)
      /\ f[o + S].no = m /\ ~IsTorn(l, f[o + S])
  BY <1>1, StandsIsPiece
<1>3. Rank(f, o + S) = Rank(f, o) + 1 /\ Rank(f, o) \in Nat
  <2> HIDE DEF S
  <2> QED  BY <1>1, <1>2, RankNext, RankFacts
<1>4. /\ z.records \in Seq(Nat) /\ Len(z.records) \in Nat
      /\ \A i \in 1..Len(z.records) : IsWhole(l, f, Rank(f, o + S) + i, z.records[i])
      /\ StopsBehind(l, f, Rank(f, o + S) + Len(z.records), z.status)
  BY DEF Tracks
<1>5. /\ y.records \in Seq(Nat) /\ Len(y.records) = Len(z.records) + 1
      /\ y.records[1] = m
      /\ \A i \in 1..Len(z.records) : y.records[i + 1] = z.records[i]
  BY <1>1, <1>4, ConsFacts
<1> HIDE DEF S
<1>6. PICK a, b, c, d : /\ a = Rank(f, o) /\ b = Rank(f, o + S)
                        /\ c = Len(z.records) /\ d = Len(y.records)
  OBVIOUS
<1>7. a \in Nat /\ b = a + 1 /\ c \in Nat /\ d = c + 1
  BY <1>3, <1>4, <1>5, <1>6
<1>8. ASSUME NEW i \in 1..Len(y.records)
      PROVE  IsWhole(l, f, Rank(f, o) + i, y.records[i])
  <2>1. CASE i = 1
    BY <1>2, <1>3, <1>5, <2>1 DEF IsWhole
  <2>2. CASE i # 1
    <3>1. PICK j : j = i - 1
      OBVIOUS
    <3>2. j \in 1..c /\ j + 1 = i /\ b + j = a + i
      <4>1. i \in 1..d
        BY <1>6
      <4> QED  BY <1>7, <2>2, <3>1, <4>1
    <3>3. y.records[i] = z.records[j]
      BY <1>5, <1>6, <3>2
    <3>4. IsWhole(l, f, Rank(f, o + S) + j, z.records[j])
      BY <1>4, <1>6, <3>2
    <3> QED  BY <1>6, <3>2, <3>3, <3>4
  <2> QED  BY <2>1, <2>2
<1>9. b + c = a + d
  BY <1>7
<1>10. StopsBehind(l, f, Rank(f, o) + Len(y.records), y.status)
  BY <1>4, <1>9, <1>6
<1> QED  BY <1>5, <1>8, <1>10 DEF Tracks

\* recover_wal reads the pieces of the file in order and stops at the first one
\* that is torn.
LEMMA RecoveryTracks ==
    ASSUME NEW l \in Seq(LogRecords), NEW f, Ordered(l, f), NotTooLarge(l),
           NEW x \in Recover(l, f)
    PROVE  Tracks(l, f, 0, x)
<1>1. /\ f \in Seq(Bytes) /\ Len(f) \in Nat
      /\ \A i \in 1..Len(f) : InLog(l, f[i])
  BY DEF Ordered
<1> DEFINE F == RecoveryFrom(l, f)
           Good(o) == Boundary(l, f, o) => \A y \in F[o] : Tracks(l, f, o, y)
           Bad == {n \in 0..Len(f) : ~Good(Len(f) - n)}
<1>2. Recovers(F, l, f, 0..Len(f)) /\ Recover(l, f) = F[0]
  BY <1>1, RecoverFacts
<1> HIDE DEF F
<1>3. ASSUME Bad # {} PROVE FALSE
  <2>1. PICK b \in Bad : \A c \in Bad : b <= c
    <3>1. Bad \subseteq Nat
      OBVIOUS
    <3> HIDE DEF Bad
    <3> QED  BY <1>3, <3>1, LeastNatural
  <2> DEFINE o == Len(f) - b
  <2>2. b \in 0..Len(f) /\ ~Good(o)
    BY <2>1
  <2>3. o \in 0..Len(f) /\ o \in Nat
    BY <1>1, <2>2
  <2>4. ASSUME NEW e \in (o + 1)..Len(f) PROVE Good(e)
    <3>1. Len(f) - e \in 0..Len(f) /\ Len(f) - e < b /\ Len(f) - (Len(f) - e) = e
      BY <1>1, <2>2, <2>3
    <3>2. Len(f) - e \notin Bad
      <4> HIDE DEF Bad
      <4> QED  BY <1>1, <2>1, <2>2, <3>1
    <3>3. Good(Len(f) - (Len(f) - e))
      BY <3>1, <3>2
    <3> HIDE DEF Good
    <3> QED  BY <3>1, <3>3
  <2> HIDE DEF o, Bad
  <2>5. ASSUME NEW y \in F[o], Boundary(l, f, o) PROVE Tracks(l, f, o, y)
    <3>1. PICK r \in ReadRecord(l, f, o) :
            \/ r.status # "SUCCESS" /\ y = [records |-> << >>, status |-> r.status]
            \/ /\ r.status = "SUCCESS"
               /\ \E z \in F[r.end] :
                    y = [records |-> <<r.no>> \o z.records, status |-> z.status]
      <4>1. ComesFrom(l, f, F, o, y)
        BY <1>2, <2>3, RecoverCases
      <4> QED  BY <4>1 DEF ComesFrom
    <3>2. CASE o = Len(f)
      <4>1. Len(f) - o = 0 /\ LengthSize \in Nat \ {0}
        BY <1>1, <3>2, WalFileAssumption
      <4>2. Len(f) - o < LengthSize
        BY <4>1
      <4>3. r.status = "EOF_REACHED"
        BY <4>2 DEF ReadRecord, Failed, Outcome
      <4>4. y = [records |-> << >>, status |-> r.status]
        BY <3>1, <4>3
      <4>5. y.records = << >> /\ y.status # "CORRUPTED"
        BY <4>3, <4>4
      <4> QED  BY <1>1, <2>3, <3>2, <4>5, TracksNothing
    <3>3. CASE \E no \in 1..Len(l), k \in Nat \ {0} : TornPiece(l, f, no, o, k)
      <4>1. PICK no \in 1..Len(l), k \in Nat \ {0} : TornPiece(l, f, no, o, k)
        BY <3>3
      <4>2. r.status # "SUCCESS" /\ (r.status = "CORRUPTED" => o + k < Len(f))
        BY <2>3, <4>1, TornIsNotRead
      <4>3. y = [records |-> << >>, status |-> r.status]
        BY <3>1, <4>2
      <4>4. y.records = << >> /\ (y.status = "CORRUPTED" => o + k < Len(f))
        BY <4>2, <4>3
      <4> QED  BY <1>1, <2>3, <4>1, <4>4, TracksNothing
    <3>4. CASE \E no \in 1..Len(l) : StandsAt(l, f, no, o)
      <4>1. r.status = "SUCCESS"
        BY <1>1, <2>3, <3>4, CompleteIsRead
      <4>2. PICK z \in F[r.end] :
              y = [records |-> <<r.no>> \o z.records, status |-> z.status]
        BY <3>1, <4>1
      <4>3. /\ r.no \in 1..Len(l) /\ r.end = o + SizeOf(l, r.no)
            /\ r.end \in (o + 1)..Len(f) /\ StandsAt(l, f, r.no, o)
        BY <2>3, <4>1, SuccessReads
      <4>4. Boundary(l, f, r.end)
        <5>1. f[r.end].no = r.no /\ f[r.end].place = SizeOf(l, r.no)
          BY <1>1, <2>3, <4>3, StandsEnds
        <5> QED  BY <5>1 DEF Boundary
      <4>5. Tracks(l, f, r.end, z)
        BY <2>4, <4>3, <4>4
      <4>6. y.records = <<r.no>> \o z.records /\ y.status = z.status
        BY <4>2
      <4>7. Tracks(l, f, o + SizeOf(l, r.no), z)
        BY <4>3, <4>5
      <4> QED  BY <2>3, <4>3, <4>6, <4>7, TracksOneMore
    <3>5. o = Len(f) \/ o < Len(f)
      BY <1>1, <2>3
    <3>6. o < Len(f) => \E no \in 1..Len(l) :
                            \/ StandsAt(l, f, no, o)
                            \/ \E k \in Nat \ {0} : TornPiece(l, f, no, o, k)
      BY <2>3, <2>5, PieceFollows
    <3> QED  BY <3>2, <3>3, <3>4, <3>5, <3>6
  <2>6. Good(o)
    BY <2>5
  <2> HIDE DEF Good
  <2> QED  BY <2>2, <2>6
<1>4. Good(0)
  <2>1. Len(f) \in 0..Len(f) /\ Len(f) - Len(f) = 0
    BY <1>1
  <2>2. Good(Len(f) - Len(f))
    BY <1>3, <2>1
  <2> HIDE DEF Good
  <2> QED  BY <2>1, <2>2
<1>5. Boundary(l, f, 0)
  BY DEF Boundary
<1> QED  BY <1>2, <1>4, <1>5

-----------------------------------------------------------------------------
(***************************************************************************)
(* Bytes that are appended, and logs that grow.                            *)
(***************************************************************************)

\* Concatenations, element by element.
LEMMA ConcatFacts ==
    ASSUME NEW U, NEW f \in Seq(U), NEW g \in Seq(U)
    PROVE  /\ f \o g \in Seq(U) /\ Len(f \o g) = Len(f) + Len(g)
           /\ Len(f) \in Nat /\ Len(g) \in Nat
           /\ \A i \in 1..Len(f) : i \in 1..Len(f \o g) /\ (f \o g)[i] = f[i]
           /\ \A i \in 1..Len(f \o g) :
                \/ i \in 1..Len(f) /\ (f \o g)[i] = f[i]
                \/ /\ i > Len(f) /\ i - Len(f) \in 1..Len(g)
                   /\ (f \o g)[i] = g[i - Len(f)]
OBVIOUS

\* Grouping does not matter.
LEMMA ConcatAssoc ==
    ASSUME NEW U, NEW f \in Seq(U), NEW g \in Seq(U), NEW h \in Seq(U)
    PROVE  (f \o g) \o h = f \o (g \o h)
OBVIOUS

\* Cutting g behind n elements does not change what is appended to f.
CutsWell(f, g, n) == (f \o SubSeq(g, 1, n)) \o SubSeq(g, n + 1, Len(g)) = f \o g

\* Nor does where a sequence is cut.
LEMMA CutFacts ==
    ASSUME NEW U, NEW f \in Seq(U), NEW g \in Seq(U), NEW n \in 0..Len(g)
    PROVE  /\ SubSeq(g, 1, n) \in Seq(U) /\ Len(SubSeq(g, 1, n)) = n
           /\ \A i \in 1..n : SubSeq(g, 1, n)[i] = g[i]
           /\ SubSeq(g, n + 1, Len(g)) \in Seq(U)
           /\ Len(SubSeq(g, n + 1, Len(g))) = Len(g) - n
           /\ \A i \in 1..(Len(g) - n) : SubSeq(g, n + 1, Len(g))[i] = g[n + i]
           /\ CutsWell(f, g, n)
<1> DEFINE x == SubSeq(g, 1, n)
           y == SubSeq(g, n + 1, Len(g))
<1>1. x \in Seq(U) /\ Len(x) = n /\ \A i \in 1..n : x[i] = g[i]
  OBVIOUS
<1>2. y \in Seq(U) /\ Len(y) = Len(g) - n /\ \A i \in 1..(Len(g) - n) : y[i] = g[n + i]
  OBVIOUS
<1> HIDE DEF x, y
<1>3. x \o y \in Seq(U) /\ Len(x \o y) = Len(g)
  BY <1>1, <1>2
<1>4. ASSUME NEW i \in 1..Len(g) PROVE (x \o y)[i] = g[i]
  <2>1. CASE i <= n
    BY <1>1, <1>2, <2>1
  <2>2. CASE i > n
    <3>1. i - n \in 1..(Len(g) - n) /\ n + (i - n) = i
      BY <2>2
    <3>2. (x \o y)[i] = y[i - n]
      BY <1>1, <1>2, <2>2
    <3> QED  BY <1>2, <3>1, <3>2
  <2>3. i <= n \/ i > n
    OBVIOUS
  <2> QED  BY <2>1, <2>2, <2>3
<1>5. x \o y = g
  BY <1>3, <1>4, SeqEqual
<1>6. (f \o x) \o y = f \o (x \o y)
  <2>1. x \in Seq(U)
    BY <1>1
  <2>2. y \in Seq(U)
    BY <1>2
  <2> QED  BY <2>1, <2>2
<1> QED  BY <1>1, <1>2, <1>5, <1>6 DEF x, y, CutsWell

\* Nothing, and everything.
LEMMA WholeFacts ==
    ASSUME NEW U, NEW f \in Seq(U)
    PROVE  /\ << >> \in Seq(U) /\ f \o << >> = f /\ << >> \o f = f
           /\ SubSeq(f, 1, Len(f)) = f /\ SubSeq(f, Len(f) + 1, Len(f)) = << >>
OBVIOUS

\* m has the records of l, of the same sizes, and perhaps more.
Extends(l, m) ==
    /\ l \in Seq(LogRecords) /\ m \in Seq(LogRecords) /\ Len(l) <= Len(m)
    /\ \A no \in 1..Len(l) : SizeOf(m, no) = SizeOf(l, no)

\* Appending a record extends the log.
LEMMA AppendExtends ==
    ASSUME NEW l \in Seq(LogRecords), NEW r \in LogRecords
    PROVE  /\ Append(l, r) \in Seq(LogRecords) /\ Extends(l, Append(l, r))
           /\ Len(l) \in Nat /\ Len(Append(l, r)) = Len(l) + 1
           /\ Append(l, r)[Len(l) + 1] = r
           /\ \A no \in 1..Len(l) : Append(l, r)[no] = l[no]
           /\ \A no \in 1..Len(Append(l, r)) : no \in 1..Len(l) \/ no = Len(l) + 1
<1>1. /\ Append(l, r) \in Seq(LogRecords) /\ Len(l) \in Nat
      /\ Len(Append(l, r)) = Len(l) + 1 /\ Append(l, r)[Len(l) + 1] = r
      /\ \A no \in 1..Len(l) : Append(l, r)[no] = l[no]
  OBVIOUS
<1>2. \A no \in 1..Len(l) : SizeOf(Append(l, r), no) = SizeOf(l, no)
  BY <1>1 DEF SizeOf
<1>3. \A no \in 1..(Len(l) + 1) : no \in 1..Len(l) \/ no = Len(l) + 1
  BY <1>1
<1>4. Len(l) <= Len(Append(l, r))
  BY <1>1
<1>5. Extends(l, Append(l, r))
  BY <1>1, <1>2, <1>4 DEF Extends
<1> QED  BY <1>1, <1>3, <1>5

\* A byte of a record stays one.
LEMMA InLogExtends ==
    ASSUME NEW l, NEW m, Extends(l, m), NEW b, InLog(l, b)
    PROVE  InLog(m, b)
<1>1. Len(l) \in Nat /\ Len(m) \in Nat /\ Len(l) <= Len(m)
  BY DEF Extends
<1>2. b.no \in 1..Len(m) /\ SizeOf(m, b.no) = SizeOf(l, b.no)
  BY <1>1 DEF Extends, InLog
<1> QED  BY <1>2 DEF InLog

\* Bytes of records stay that.
LEMMA BytesOfExtends ==
    ASSUME NEW l, NEW m, Extends(l, m), NEW f, BytesOf(l, f)
    PROVE  BytesOf(m, f)
BY InLogExtends DEF BytesOf

\* Two such sequences make one.
LEMMA BytesOfConcat ==
    ASSUME NEW l, NEW f, BytesOf(l, f), NEW g, BytesOf(l, g)
    PROVE  BytesOf(l, f \o g)
<1> DEFINE w == f \o g
<1>1. /\ w \in Seq(Bytes)
      /\ \A i \in 1..Len(w) :
           \/ i \in 1..Len(f) /\ w[i] = f[i]
           \/ i > Len(f) /\ i - Len(f) \in 1..Len(g) /\ w[i] = g[i - Len(f)]
  BY ConcatFacts DEF BytesOf
<1> HIDE DEF w
<1>2. ASSUME NEW i \in 1..Len(w) PROVE InLog(l, w[i])
  BY <1>1 DEF BytesOf
<1>3. BytesOf(l, w)
  BY <1>1, <1>2 DEF BytesOf
<1> QED  BY <1>3 DEF w

\* Both parts of bytes that are cut.
LEMMA BytesOfCut ==
    ASSUME NEW l, NEW f, BytesOf(l, f), NEW n \in 0..Len(f)
    PROVE  BytesOf(l, SubSeq(f, 1, n)) /\ BytesOf(l, SubSeq(f, n + 1, Len(f)))
<1> DEFINE x == SubSeq(f, 1, n)
           y == SubSeq(f, n + 1, Len(f))
<1>1. f \in Seq(Bytes) /\ Len(f) \in Nat
  BY DEF BytesOf
<1>2. x \in Seq(Bytes) /\ Len(x) = n /\ \A i \in 1..n : x[i] = f[i]
  BY <1>1, CutFacts
<1>3. /\ y \in Seq(Bytes) /\ Len(y) = Len(f) - n
      /\ \A i \in 1..(Len(f) - n) : y[i] = f[n + i]
  BY <1>1, CutFacts
<1> HIDE DEF x, y
<1>4. ASSUME NEW i \in 1..Len(x) PROVE InLog(l, x[i])
  <2>1. i \in 1..Len(f) /\ x[i] = f[i]
    BY <1>1, <1>2
  <2> QED  BY <2>1 DEF BytesOf
<1>5. ASSUME NEW i \in 1..Len(y) PROVE InLog(l, y[i])
  <2>1. n + i \in 1..Len(f) /\ y[i] = f[n + i]
    BY <1>1, <1>3
  <2> QED  BY <2>1 DEF BytesOf
<1>6. BytesOf(l, x) /\ BytesOf(l, y)
  BY <1>2, <1>3, <1>4, <1>5 DEF BytesOf
<1> QED  BY <1>6 DEF x, y

\* Bytes in order stay so.
LEMMA OrderedExtends ==
    ASSUME NEW l, NEW m, Extends(l, m), NEW f, Ordered(l, f)
    PROVE  Ordered(m, f)
<1>1. f \in Seq(Bytes)
  BY DEF Ordered
<1>2. ASSUME NEW i \in 1..Len(f)
      PROVE  InLog(m, f[i]) /\ SizeOf(m, f[i].no) = SizeOf(l, f[i].no)
  <2>1. InLog(l, f[i])
    BY DEF Ordered
  <2> QED  BY <2>1, InLogExtends DEF Extends, InLog
<1>3. ASSUME NEW i \in 1..Len(f), NEW j \in 1..Len(f), i < j
      PROVE  /\ f[i].no <= f[j].no
             /\ f[i].place = SizeOf(m, f[i].no) => f[i].no < f[j].no
  BY <1>2, <1>3, OrderedAt
<1>4. ASSUME NEW i \in 1..Len(f), f[i].place > 1
      PROVE  i > 1 /\ f[i - 1].no = f[i].no /\ f[i - 1].place = f[i].place - 1
  BY <1>4, OrderedAt
<1> QED  BY <1>1, <1>2, <1>3, <1>4 DEF Ordered

\* Nor is the order of the first ones lost with the others.
LEMMA OrderedPrefix ==
    ASSUME NEW l, NEW f \in Seq(Bytes), NEW g \in Seq(Bytes), Ordered(l, f \o g)
    PROVE  Ordered(l, f)
<1> DEFINE w == f \o g
<1>1. /\ Len(f) \in Nat
      /\ \A i \in 1..Len(f) : i \in 1..Len(w) /\ w[i] = f[i]
  BY ConcatFacts
<1>2. Ordered(l, w)
  OBVIOUS
<1> HIDE DEF w
<1>3. ASSUME NEW i \in 1..Len(f)
      PROVE  InLog(l, f[i])
  BY <1>1, <1>2 DEF Ordered
<1>4. ASSUME NEW i \in 1..Len(f), NEW j \in 1..Len(f), i < j
      PROVE  /\ f[i].no <= f[j].no
             /\ f[i].place = SizeOf(l, f[i].no) => f[i].no < f[j].no
  <2>1. w[i] = f[i] /\ w[j] = f[j] /\ i \in 1..Len(w) /\ j \in 1..Len(w)
    BY <1>1
  <2>2. /\ w[i].no <= w[j].no
        /\ w[i].place = SizeOf(l, w[i].no) => w[i].no < w[j].no
    BY <1>2, <1>4, <2>1, OrderedAt
  <2> QED  BY <2>1, <2>2
<1>5. ASSUME NEW i \in 1..Len(f), f[i].place > 1
      PROVE  i > 1 /\ f[i - 1].no = f[i].no /\ f[i - 1].place = f[i].place - 1
  <2>1. i > 1 /\ w[i - 1].no = w[i].no /\ w[i - 1].place = w[i].place - 1
    <3>1. w[i].place > 1 /\ i \in 1..Len(w)
      BY <1>1, <1>5
    <3> QED  BY <1>2, <3>1, OrderedAt
  <2>2. i - 1 \in 1..Len(f)
    BY <1>1, <2>1
  <2> QED  BY <1>1, <2>1, <2>2
<1> QED  BY <1>3, <1>4, <1>5 DEF Ordered

\* f has only records before no, and perhaps torn pieces of no.
Before(l, f, no) ==
    \A i \in 1..Len(f) :
        f[i].no < no \/ (f[i].no = no /\ f[i].place < SizeOf(l, no))

\* g are the first bytes of record no.
FirstBytes(l, g, no) ==
    /\ g \in Seq(Bytes) /\ Len(g) <= SizeOf(l, no)
    /\ \A i \in 1..Len(g) : g[i].no = no /\ g[i].place = i

\* The first bytes of a record may be appended behind others, and again if
\* they were torn.
LEMMA OrderedGrows ==
    ASSUME NEW l \in Seq(LogRecords), NEW f, Ordered(l, f), NEW no \in 1..Len(l),
           Before(l, f, no), NEW g, FirstBytes(l, g, no)
    PROVE  /\ Ordered(l, f \o g)
           /\ Len(g) < SizeOf(l, no) => Before(l, f \o g, no)
<1> DEFINE w == f \o g
           S == SizeOf(l, no)
           a == Len(f)
<1>1. f \in Seq(Bytes) /\ g \in Seq(Bytes) /\ no \in Nat
  BY DEF Ordered, FirstBytes
<1>2. /\ w \in Seq(Bytes) /\ Len(w) = Len(f) + Len(g)
      /\ Len(f) \in Nat /\ Len(g) \in Nat
      /\ \A i \in 1..Len(f) : i \in 1..Len(w) /\ w[i] = f[i]
      /\ \A i \in 1..Len(w) :
           \/ i \in 1..Len(f) /\ w[i] = f[i]
           \/ i > Len(f) /\ i - Len(f) \in 1..Len(g) /\ w[i] = g[i - Len(f)]
  BY <1>1, ConcatFacts
<1>3. S \in Nat /\ S > 0 /\ Len(g) <= S
  BY SizeFacts DEF FirstBytes
<1> HIDE DEF w, S
<1>4. ASSUME NEW i \in 1..Len(w), ~(i \in 1..Len(f))
      PROVE  /\ i > Len(f) /\ i - Len(f) \in 1..Len(g)
             /\ w[i].no = no /\ w[i].place = i - Len(f)
  <2>1. i > Len(f) /\ i - Len(f) \in 1..Len(g) /\ w[i] = g[i - Len(f)]
    BY <1>2, <1>4
  <2> QED  BY <2>1 DEF FirstBytes
<1>5. ASSUME NEW i \in 1..Len(w) PROVE InLog(l, w[i])
  <2>1. CASE i \in 1..Len(f)
    BY <1>2, <2>1 DEF Ordered
  <2>2. CASE ~(i \in 1..Len(f))
    <3>1. w[i].no = no /\ w[i].place = i - Len(f) /\ i - Len(f) \in 1..Len(g)
      BY <1>4, <2>2
    <3>2. i - Len(f) \in 1..S
      BY <1>2, <1>3, <3>1
    <3> QED  BY <3>1, <3>2 DEF InLog, S
  <2> QED  BY <2>1, <2>2
<1>6. ASSUME NEW i \in 1..Len(w), w[i].place > 1
      PROVE  i > 1 /\ w[i - 1].no = w[i].no /\ w[i - 1].place = w[i].place - 1
  <2>1. CASE i \in 1..Len(f)
    <3>1. i > 1 /\ f[i - 1].no = f[i].no /\ f[i - 1].place = f[i].place - 1
      BY <1>2, <1>6, <2>1, OrderedAt
    <3>2. i - 1 \in 1..Len(f)
      BY <1>2, <2>1, <3>1
    <3> QED  BY <1>2, <2>1, <3>1, <3>2
  <2>2. CASE ~(i \in 1..Len(f))
    <3>1. /\ i > Len(f) /\ i - Len(f) \in 1..Len(g)
          /\ w[i].no = no /\ w[i].place = i - Len(f)
      BY <1>4, <2>2
    <3>2. i - Len(f) > 1 /\ i - 1 > Len(f) /\ i > 1
      BY <1>2, <1>6, <3>1
    <3>3. i - 1 \in 1..Len(w) /\ ~(i - 1 \in 1..Len(f))
      BY <1>2, <3>2
    <3>4. w[i - 1].no = no /\ w[i - 1].place = (i - 1) - Len(f)
      BY <1>4, <3>3
    <3>5. (i - 1) - Len(f) = (i - Len(f)) - 1
      BY <1>2
    <3> QED  BY <3>1, <3>2, <3>4, <3>5
  <2> QED  BY <2>1, <2>2
<1>7. ASSUME NEW i \in 1..Len(w), NEW j \in 1..Len(w), i < j
      PROVE  /\ w[i].no <= w[j].no
             /\ w[i].place = SizeOf(l, w[i].no) => w[i].no < w[j].no
  <2>1. CASE i \in 1..Len(f) /\ j \in 1..Len(f)
    <3>1. /\ f[i].no <= f[j].no
          /\ f[i].place = SizeOf(l, f[i].no) => f[i].no < f[j].no
      BY <1>7, <2>1, OrderedAt
    <3> QED  BY <1>2, <2>1, <3>1
  <2>2. CASE i \in 1..Len(f) /\ ~(j \in 1..Len(f))
    <3>1. w[j].no = no
      BY <1>4, <2>2
    <3>2. f[i].no < no \/ (f[i].no = no /\ f[i].place < S)
      BY <2>2 DEF Before, S
    <3>3. f[i] \in Bytes /\ w[i] = f[i]
      BY <1>1, <1>2, <2>2
    <3>4. f[i].no \in Nat /\ f[i].place \in Nat
      BY <3>3 DEF Bytes
    <3>5. CASE f[i].no < no
      BY <1>1, <3>1, <3>3, <3>4, <3>5
    <3>6. CASE f[i].no = no /\ f[i].place < S
      <4>1. f[i].place # S
        BY <1>3, <3>4, <3>6
      <4> QED  BY <1>1, <3>1, <3>3, <3>6, <4>1 DEF S
    <3> QED  BY <3>2, <3>5, <3>6
  <2>3. CASE ~(i \in 1..Len(f))
    <3>1. i > Len(f) /\ w[i].no = no /\ w[i].place = i - Len(f)
      BY <1>4, <2>3
    <3>2. ~(j \in 1..Len(f))
      BY <1>2, <1>7, <3>1
    <3>3. w[j].no = no /\ j - Len(f) \in 1..Len(g)
      BY <1>4, <3>2
    <3>4. i - Len(f) < S
      BY <1>2, <1>3, <1>7, <3>3
    <3>5. w[i].place # S
      BY <1>2, <1>3, <3>1, <3>4
    <3> QED  BY <1>1, <3>1, <3>3, <3>5 DEF S
  <2> QED  BY <2>1, <2>2, <2>3
<1>8. Ordered(l, w)
  BY <1>2, <1>5, <1>6, <1>7 DEF Ordered
<1>9. ASSUME Len(g) < S, NEW i \in 1..Len(w)
      PROVE  w[i].no < no \/ (w[i].no = no /\ w[i].place < S)
  <2>1. CASE i \in 1..Len(f)
    BY <1>2, <2>1 DEF Before, S
  <2>2. CASE ~(i \in 1..Len(f))
    <3>1. i - Len(f) \in 1..Len(g) /\ w[i].no = no /\ w[i].place = i - Len(f)
      BY <1>4, <2>2
    <3>2. i - Len(f) < S
      BY <1>2, <1>3, <1>9, <3>1
    <3> QED  BY <3>1, <3>2
  <2> QED  BY <2>1, <2>2
<1> QED  BY <1>8, <1>9 DEF Before, w, S

\* A complete record stays one.
LEMMA StandsGrows ==
    ASSUME NEW l, NEW m, Extends(l, m), NEW no \in 1..Len(l),
           NEW f \in Seq(Bytes), NEW g \in Seq(Bytes), Stands(l, f, no)
    PROVE  Stands(m, f \o g, no)
<1> DEFINE w == f \o g
           S == SizeOf(l, no)
<1>1. PICK p \in 0..Len(f) : StandsAt(l, f, no, p)
  BY DEF Stands
<1>2. /\ Len(w) = Len(f) + Len(g) /\ Len(f) \in Nat /\ Len(g) \in Nat
      /\ \A i \in 1..Len(f) : i \in 1..Len(w) /\ w[i] = f[i]
  BY ConcatFacts
<1>3. S \in Nat /\ SizeOf(m, no) = S
  BY SizeFacts DEF Extends
<1>4. p + S <= Len(f) /\ \A i \in 1..S : f[p + i] = [no |-> no, place |-> i]
  BY <1>1 DEF StandsAt
<1> HIDE DEF w, S
<1>5. ASSUME NEW i \in 1..S PROVE w[p + i] = [no |-> no, place |-> i]
  <2>1. p + i \in 1..Len(f)
    BY <1>2, <1>3, <1>4
  <2> QED  BY <1>2, <1>4, <2>1
<1>6. p \in 0..Len(w) /\ p + S <= Len(w)
  BY <1>2, <1>3, <1>4
<1>7. StandsAt(m, w, no, p)
  BY <1>3, <1>5, <1>6 DEF StandsAt
<1> QED  BY <1>6, <1>7 DEF Stands, w

\* What m has acknowledged, l has.
AcksFewer(l, m) == \A no \in 1..Len(m) : m[no].acked => no \in 1..Len(l) /\ l[no].acked

\* The acknowledged records stay complete.
LEMMA AllStandGrows ==
    ASSUME NEW l, NEW m, Extends(l, m), AcksFewer(l, m),
           NEW f \in Seq(Bytes), NEW g \in Seq(Bytes), AllStand(l, f)
    PROVE  AllStand(m, f \o g)
<1> SUFFICES ASSUME NEW no \in 1..Len(m), m[no].acked PROVE Stands(m, f \o g, no)
  BY DEF AllStand
<1>1. no \in 1..Len(l) /\ l[no].acked
  BY DEF AcksFewer
<1>2. Stands(l, f, no)
  BY <1>1 DEF AllStand
<1> QED  BY <1>1, <1>2, StandsGrows

\* The record that is appended is complete.
LEMMA AllStandAppended ==
    ASSUME NEW l \in Seq(LogRecords), NEW r \in LogRecords, NEW m, m = Append(l, r),
           NEW f \in Seq(Bytes), AllStand(l, f),
           NEW g, g = RecordBytes(m, Len(m))
    PROVE  AllStand(m, f \o g)
<1>1. /\ m \in Seq(LogRecords) /\ Extends(l, m)
      /\ Len(l) \in Nat /\ Len(m) = Len(l) + 1
      /\ \A no \in 1..Len(l) : m[no] = l[no]
      /\ \A no \in 1..Len(m) : no \in 1..Len(l) \/ no = Len(m)
  BY AppendExtends
<1> DEFINE k == Len(m)
           S == SizeOf(m, k)
           w == f \o g
<1>2. k \in 1..Len(m)
  BY <1>1
<1>3. /\ g \in Seq(Bytes) /\ Len(g) = S
      /\ \A i \in 1..S : g[i] = [no |-> k, place |-> i]
  BY <1>1, <1>2, RecordBytesFacts
<1>4. S \in Nat /\ S > 0
  <2>1. S \in Nat /\ S > LengthSize /\ LengthSize \in Nat
    BY <1>1, <1>2, SizeFacts
  <2> HIDE DEF S
  <2> QED  BY <2>1
<1>5. /\ Len(w) = Len(f) + Len(g) /\ Len(f) \in Nat
      /\ \A i \in 1..Len(w) :
           \/ i \in 1..Len(f) /\ w[i] = f[i]
           \/ i > Len(f) /\ i - Len(f) \in 1..Len(g) /\ w[i] = g[i - Len(f)]
  BY <1>3, ConcatFacts
<1> SUFFICES ASSUME NEW no \in 1..Len(m), m[no].acked PROVE Stands(m, w, no)
  BY DEF AllStand
<1>6. CASE no \in 1..Len(l)
  <2>1. Stands(l, f, no)
    BY <1>1, <1>6 DEF AllStand
  <2> QED  BY <1>1, <1>3, <1>6, <2>1, StandsGrows
<1>7. CASE no = k
  <2> HIDE DEF k, S, w
  <2>1. ASSUME NEW i \in 1..S PROVE w[Len(f) + i] = [no |-> k, place |-> i]
    <3>1. /\ Len(f) + i \in 1..Len(w) /\ ~(Len(f) + i \in 1..Len(f))
          /\ (Len(f) + i) - Len(f) = i
      BY <1>3, <1>4, <1>5
    <3>2. w[Len(f) + i] = g[(Len(f) + i) - Len(f)]
      BY <1>5, <3>1
    <3> QED  BY <1>3, <3>1, <3>2
  <2>2. Len(f) \in 0..Len(w) /\ Len(f) + S <= Len(w)
    BY <1>3, <1>4, <1>5
  <2>3. StandsAt(m, w, k, Len(f))
    BY <2>1, <2>2 DEF StandsAt, S
  <2> QED  BY <1>7, <2>2, <2>3 DEF Stands
<1> QED  BY <1>1, <1>6, <1>7

\* If the acknowledged records are complete in f \o g, there are no holes in f.
LEMMA HolesFacts ==
    ASSUME NEW l \in Seq(LogRecords), NEW f \in Seq(Bytes), NEW g \in Seq(Bytes),
           Ordered(l, f \o g), AllStand(l, f \o g)
    PROVE  NoHoles(l, f)
<1> DEFINE w == f \o g
<1>1. /\ w \in Seq(Bytes) /\ Len(w) = Len(f) + Len(g) /\ Len(f) \in Nat /\ Len(g) \in Nat
      /\ \A i \in 1..Len(f) : i \in 1..Len(w) /\ w[i] = f[i]
  BY ConcatFacts
<1>2. Ordered(l, w) /\ AllStand(l, w)
  OBVIOUS
<1> HIDE DEF w
<1> SUFFICES ASSUME NEW no \in 1..Len(l), NEW q \in 1..Len(f),
                    l[no].acked, no < f[q].no
             PROVE  \E p \in 1..Len(f) : f[p].no = no
  BY DEF NoHoles
<1>3. PICK p \in 0..Len(w) : StandsAt(l, w, no, p)
  BY <1>2 DEF AllStand, Stands
<1>4. p \in Nat /\ p + 1 \in 1..Len(w) /\ w[p + 1].no = no
  BY <1>1, <1>3, StandsEnds
<1>5. p + 1 \in 1..Len(f)
  <2> SUFFICES ASSUME ~(p + 1 \in 1..Len(f)) PROVE FALSE
    OBVIOUS
  <2>1. q \in 1..Len(w) /\ w[q] = f[q] /\ q < p + 1
    BY <1>1, <1>4
  <2>2. w[q].no <= w[p + 1].no /\ w[q].no \in 1..Len(l)
    BY <1>2, <1>4, <2>1, OrderedAt
  <2> QED  BY <1>4, <2>1, <2>2
<1> QED  BY <1>1, <1>4, <1>5

-----------------------------------------------------------------------------
(***************************************************************************)
(* Every action keeps the invariant.                                       *)
(***************************************************************************)

\* What an append begins with: the stream is not bad, the new record is the
\* last one, and its bytes come behind all others.
LEMMA AppendFacts ==
    ASSUME WalInv, CanAppend, NEW r \in LogRecords, NEW m, m = Append(log, r),
           NEW rec, rec = RecordBytes(m, Len(m))
    PROVE  /\ m \in Seq(LogRecords) /\ Extends(log, m) /\ Len(m) \in 1..Len(m)
           /\ Len(rec) = SizeOf(m, Len(m)) /\ Len(rec) \in Nat \ {0}
           /\ BytesOf(m, rec) /\ BytesOf(m, file) /\ BytesOf(m, buffer)
           /\ FirstBytes(m, rec, Len(m))
           /\ \A n \in 0..Len(rec) : FirstBytes(m, SubSeq(rec, 1, n), Len(m))
           /\ Sound => Ordered(m, Stream) /\ Before(m, Stream, Len(m))
<1>1. log \in Seq(LogRecords) /\ BytesOf(log, file) /\ BytesOf(log, buffer)
  BY DEF WalInv, StateOK
<1>2. /\ m \in Seq(LogRecords) /\ Extends(log, m)
      /\ Len(log) \in Nat /\ Len(m) = Len(log) + 1
  BY <1>1, AppendExtends
<1>3. Len(m) \in 1..Len(m)
  BY <1>2
<1> DEFINE S == SizeOf(m, Len(m))
<1>4. /\ rec \in Seq(Bytes) /\ Len(rec) = S
      /\ \A i \in 1..S : rec[i] = [no |-> Len(m), place |-> i]
  <2>1. /\ RecordBytes(m, Len(m)) \in Seq(Bytes) /\ Len(RecordBytes(m, Len(m))) = S
        /\ \A i \in 1..S : RecordBytes(m, Len(m))[i] = [no |-> Len(m), place |-> i]
    BY <1>2, <1>3, RecordBytesFacts
  <2> QED  BY <2>1
<1>5. S \in Nat \ {0}
  <2>1. S \in Nat /\ S > LengthSize /\ LengthSize \in Nat
    BY <1>2, <1>3, SizeFacts
  <2> HIDE DEF S
  <2> QED  BY <2>1
<1> HIDE DEF S
<1>6. ASSUME NEW i \in 1..S PROVE rec[i].no = Len(m) /\ rec[i].place = i
  <2>1. rec[i] = [no |-> Len(m), place |-> i]
    BY <1>4
  <2> QED  BY <2>1
<1>7. BytesOf(m, rec)
  BY <1>3, <1>4, <1>6 DEF BytesOf, InLog, S
<1>8. ASSUME NEW n \in 0..Len(rec) PROVE FirstBytes(m, SubSeq(rec, 1, n), Len(m))
  <2> DEFINE x == SubSeq(rec, 1, n)
  <2>1. x \in Seq(Bytes) /\ Len(x) = n /\ \A i \in 1..n : x[i] = rec[i]
    BY <1>4, CutFacts
  <2>2. n <= S /\ \A i \in 1..n : i \in 1..S
    BY <1>4, <1>5
  <2> HIDE DEF x
  <2>3. FirstBytes(m, x, Len(m))
    BY <1>6, <2>1, <2>2 DEF FirstBytes, S
  <2> QED  BY <2>3 DEF x
<1>9. FirstBytes(m, rec, Len(m))
  BY <1>4, <1>5, <1>6 DEF FirstBytes, S
<1>10. ASSUME Sound PROVE Ordered(m, Stream) /\ Before(m, Stream, Len(m))
  <2>1. Ordered(log, Stream)
    BY <1>10 DEF WalInv
  <2>2. Ordered(m, Stream)
    BY <1>2, <2>1, OrderedExtends
  <2>3. ASSUME NEW i \in 1..Len(Stream) PROVE Stream[i].no < Len(m)
    <3>1. Stream[i].no \in 1..Len(log)
      BY <2>1, OrderedAt
    <3> QED  BY <1>2, <3>1
  <2> QED  BY <2>2, <2>3 DEF Before
<1>11. BytesOf(m, file) /\ BytesOf(m, buffer)
  BY <1>1, <1>2, BytesOfExtends
<1> QED  BY <1>2, <1>3, <1>4, <1>5, <1>7, <1>8, <1>9, <1>10, <1>11 DEF S

\* In SYNC mode all acknowledged records are in the file.
LEMMA SyncStands ==
    ASSUME WalInv, mode = "SYNC"
    PROVE  AllStand(log, file)
BY DEF WalInv, Sound, AckedOK, Lasting

\* While the process runs and no write failed, they are in the stream.
LEMMA StreamStands ==
    ASSUME WalInv, Sound, process # "crashed", stream # "bad"
    PROVE  AllStand(log, Stream)
<1>1. AllStand(log, Lasting)
  BY DEF WalInv, AckedOK
<1>2. CASE mode = "SYNC"
  <2>1. buffer = << >> /\ file \in Seq(Bytes)
    BY <1>2 DEF WalInv, StreamOK, StateOK, BytesOf
  <2>2. Stream = file
    BY <2>1, WholeFacts DEF Stream
  <2> QED  BY <1>1, <1>2, <2>2 DEF Lasting
<1>3. CASE mode # "SYNC"
  BY <1>1, <1>3 DEF Lasting
<1> QED  BY <1>2, <1>3

\* A log extends itself.
LEMMA ExtendsItself ==
    ASSUME NEW l \in Seq(LogRecords)
    PROVE  Extends(l, l) /\ AcksFewer(l, l)
BY DEF Extends, AcksFewer

\* Initially there is nothing.
LEMMA InitWalInv == Init => WalInv
<1> SUFFICES ASSUME Init PROVE WalInv
  OBVIOUS
<1>1. StateOK
  BY WalFileAssumption DEF Init, StateOK, BytesOf
<1>2. StreamOK
  BY DEF Init, StreamOK
<1>3. Stream = << >>
  BY DEF Init, Stream
<1>4. Ordered(log, Stream)
  BY <1>3 DEF Ordered
<1>5. AckedOK
  BY DEF Init, AckedOK, AllStand, NoHoles
<1> QED  BY <1>1, <1>2, <1>4, <1>5 DEF WalInv

\* The log record of an append.
LEMMA LogRecordType ==
    ASSUME NEW k \in Keys, NEW e \in Entry, NEW a \in BOOLEAN
    PROVE  LogRecord(k, e, a) \in LogRecords /\ LogRecord(k, e, a).acked = a
BY DEF LogRecord, LogRecords

\* A record that is appended and acknowledged.
LEMMA AppendRecordKeeps ==
    ASSUME WalInv, NEW k \in Keys, NEW e \in Entry, AppendRecord(k, e)
    PROVE  WalInv'
<1>1. CanAppend /\ log' = Append(log, LogRecord(k, e, TRUE))
  BY DEF AppendRecord
<1>2. /\ stream' = "open" /\ appends' = appends + 1
      /\ UNCHANGED <<mode, process, crashes, faults>>
  BY DEF AppendRecord
<1>3. process = "running" /\ stream # "bad" /\ appends < MaxAppends
  BY <1>1 DEF CanAppend
<1>4. PICK r \in LogRecords : r = LogRecord(k, e, TRUE)
  BY LogRecordType
<1>5. PICK m : m = Append(log, r)
  OBVIOUS
<1>6. PICK rec : rec = RecordBytes(m, Len(m))
  OBVIOUS
<1>7. PICK bf : bf = buffer \o rec
  OBVIOUS
<1>8. log' = m /\ Buffered(log') = bf
  BY <1>1, <1>4, <1>5, <1>6, <1>7 DEF Buffered
<1>9. PICK n \in 0..Len(bf) :
        /\ IF mode = "SYNC" THEN n = Len(bf) ELSE Len(bf) - n <= BufferSize
        /\ file' = file \o SubSeq(bf, 1, n)
        /\ buffer' = SubSeq(bf, n + 1, Len(bf))
  BY <1>8 DEF AppendRecord, WriteOut
<1>10. /\ m \in Seq(LogRecords) /\ Len(m) \in 1..Len(m)
       /\ BytesOf(m, rec) /\ BytesOf(m, file) /\ BytesOf(m, buffer)
       /\ FirstBytes(m, rec, Len(m))
       /\ Sound => Ordered(m, Stream) /\ Before(m, Stream, Len(m))
  BY <1>1, <1>4, <1>5, <1>6, AppendFacts
<1>11. BytesOf(m, bf)
  BY <1>7, <1>10, BytesOfConcat
<1>12. BytesOf(m, file') /\ BytesOf(m, buffer')
  BY <1>9, <1>10, <1>11, BytesOfConcat, BytesOfCut
<1>13. /\ file \in Seq(Bytes) /\ buffer \in Seq(Bytes) /\ bf \in Seq(Bytes)
       /\ rec \in Seq(Bytes) /\ file' \in Seq(Bytes) /\ buffer' \in Seq(Bytes)
  BY <1>10, <1>11, <1>12 DEF BytesOf
<1>14. file' \o buffer' = Stream \o rec
  <2>1. file' \o buffer' = file \o bf
    <3>1. file \in Seq(Bytes) /\ bf \in Seq(Bytes) /\ n \in 0..Len(bf)
      BY <1>13
    <3>2. CutsWell(file, bf, n)
      BY <3>1, CutFacts
    <3> QED  BY <1>9, <3>2 DEF CutsWell
  <2>2. (file \o buffer) \o rec = file \o (buffer \o rec)
    <3>1. file \in Seq(Bytes) /\ buffer \in Seq(Bytes) /\ rec \in Seq(Bytes)
      BY <1>13
    <3> QED  BY <3>1, ConcatAssoc
  <2> QED  BY <1>7, <2>1, <2>2 DEF Stream
<1>15. Len(buffer') = Len(bf) - n /\ Len(bf) \in Nat
  BY <1>9, <1>13, CutFacts
<1>16. mode = "SYNC" => buffer' = << >> /\ file' = Stream'
  <2> SUFFICES ASSUME mode = "SYNC" PROVE buffer' = << >> /\ file' = Stream'
    OBVIOUS
  <2>1. n = Len(bf)
    BY <1>9
  <2>2. buffer' = << >>
    BY <1>9, <1>13, <2>1, WholeFacts
  <2> QED  BY <1>13, <2>2, WholeFacts DEF Stream
<1>17. StateOK'
  <2>1. Len(buffer') <= BufferSize
    BY <1>9, <1>15, WalFileAssumption
  <2>2. appends' \in 0..MaxAppends
    BY <1>2, <1>3, WalFileAssumption DEF WalInv, StateOK
  <2> QED  BY <1>2, <1>8, <1>10, <1>12, <2>1, <2>2 DEF WalInv, StateOK
<1>18. StreamOK'
  BY <1>2, <1>3, <1>16 DEF StreamOK
<1>19. ASSUME Sound' PROVE Ordered(log', Stream') /\ AckedOK'
  <2>1. Sound
    BY <1>2, <1>19 DEF Sound
  <2>2. Ordered(m, Stream \o rec)
    BY <1>10, <2>1, OrderedGrows
  <2>3. AllStand(log, Stream)
    BY <1>3, <2>1, StreamStands
  <2>4. AllStand(m, Stream \o rec)
    <3>1. log \in Seq(LogRecords) /\ Stream \in Seq(Bytes)
      BY <1>13 DEF WalInv, StateOK, Stream
    <3> QED  BY <1>4, <1>5, <1>6, <2>3, <3>1, AllStandAppended
  <2>5. NoHoles(m, file')
    BY <1>10, <1>13, <1>14, <2>2, <2>4, HolesFacts
  <2>6. Stream' = Stream \o rec /\ Lasting' = Stream'
    BY <1>2, <1>14, <1>16 DEF Stream, Lasting
  <2>7. AllStand(log', Lasting') /\ NoHoles(log', file')
    BY <1>8, <2>4, <2>5, <2>6
  <2>8. AckedOK'
    BY <2>7 DEF AckedOK
  <2> QED  BY <1>8, <2>2, <2>6, <2>8
<1> QED  BY <1>17, <1>18, <1>19 DEF WalInv

\* Nothing is acknowledged that was not before.
LEMMA UnackedFewer ==
    ASSUME NEW l \in Seq(LogRecords), NEW r \in LogRecords, r.acked = FALSE
    PROVE  AcksFewer(l, Append(l, r))
<1>1. /\ Append(l, r)[Len(l) + 1] = r
      /\ \A no \in 1..Len(l) : Append(l, r)[no] = l[no]
      /\ \A no \in 1..Len(Append(l, r)) : no \in 1..Len(l) \/ no = Len(l) + 1
  BY AppendExtends
<1> SUFFICES ASSUME NEW no \in 1..Len(Append(l, r)), Append(l, r)[no].acked
             PROVE  no \in 1..Len(l) /\ l[no].acked
  BY DEF AcksFewer
<1>2. CASE no \in 1..Len(l)
  BY <1>1, <1>2
<1>3. CASE no = Len(l) + 1
  <2>1. Append(l, r)[no] = r
    BY <1>1, <1>3
  <2> QED  BY <2>1
<1> QED  BY <1>1, <1>2, <1>3

\* If the acknowledged records are complete in f, there are no holes in f.
LEMMA HolesOfFile ==
    ASSUME NEW l \in Seq(LogRecords), NEW f \in Seq(Bytes), NEW g \in Seq(Bytes),
           Ordered(l, f \o g), AllStand(l, f)
    PROVE  NoHoles(l, f)
<1>1. AllStand(l, f \o g)
  BY ExtendsItself, AllStandGrows
<1> QED  BY <1>1, HolesFacts

\* A record whose bytes were not all written.
LEMMA AppendFailsKeeps ==
    ASSUME WalInv, NEW k \in Keys, NEW e \in Entry, AppendFails(k, e)
    PROVE  WalInv'
<1>1. CanAppend /\ log' = Append(log, LogRecord(k, e, FALSE))
  BY DEF AppendFails
<1>2. /\ stream' = "bad" /\ appends' = appends + 1 /\ faults < MaxFaults
      /\ faults' = faults + 1 /\ UNCHANGED <<mode, process, crashes>>
  BY DEF AppendFails
<1>3. process = "running" /\ stream # "bad" /\ appends < MaxAppends
  BY <1>1 DEF CanAppend
<1>4. PICK r \in LogRecords : r = LogRecord(k, e, FALSE) /\ r.acked = FALSE
  BY LogRecordType
<1>5. PICK m : m = Append(log, r)
  OBVIOUS
<1>6. PICK rec : rec = RecordBytes(m, Len(m))
  OBVIOUS
<1>7. PICK bf : bf = buffer \o rec
  OBVIOUS
<1>8. log' = m /\ Buffered(log') = bf
  BY <1>1, <1>4, <1>5, <1>6, <1>7 DEF Buffered
<1>9. buffer' = bf /\ \E n \in 0..(Len(bf) - 1) : file' = file \o SubSeq(bf, 1, n)
  BY <1>8 DEF AppendFails, WriteOut
<1>10. /\ m \in Seq(LogRecords) /\ Len(m) \in 1..Len(m) /\ Extends(log, m)
       /\ Len(rec) = SizeOf(m, Len(m))
       /\ BytesOf(m, rec) /\ BytesOf(m, file) /\ BytesOf(m, buffer)
       /\ FirstBytes(m, rec, Len(m))
       /\ \A n \in 0..Len(rec) : FirstBytes(m, SubSeq(rec, 1, n), Len(m))
       /\ Sound => Ordered(m, Stream) /\ Before(m, Stream, Len(m))
  BY <1>1, <1>4, <1>5, <1>6, AppendFacts
<1>11. BytesOf(m, bf)
  BY <1>7, <1>10, BytesOfConcat
<1>12. Len(bf) \in Nat
  BY <1>11 DEF BytesOf
<1>13. PICK n \in 0..Len(bf) : n < Len(bf) /\ file' = file \o SubSeq(bf, 1, n)
  <2>1. PICK n \in 0..(Len(bf) - 1) : file' = file \o SubSeq(bf, 1, n)
    BY <1>9
  <2>2. n \in 0..Len(bf) /\ n < Len(bf)
    BY <1>12
  <2> QED  BY <2>1, <2>2
<1>14. BytesOf(m, SubSeq(bf, 1, n)) /\ BytesOf(m, file') /\ BytesOf(m, buffer')
  BY <1>9, <1>10, <1>11, <1>13, BytesOfConcat, BytesOfCut
<1>15. StateOK'
  <2>1. appends' \in 0..MaxAppends
    BY <1>2, <1>3, WalFileAssumption DEF WalInv, StateOK
  <2>2. faults' \in 0..MaxFaults
    BY <1>2, WalFileAssumption DEF WalInv, StateOK
  <2> QED  BY <1>2, <1>8, <1>10, <1>14, <2>1, <2>2 DEF WalInv, StateOK
<1>16. StreamOK'
  <2>1. faults' > 0
    BY <1>2 DEF WalInv, StateOK
  <2> QED  BY <1>2, <1>3, <2>1 DEF StreamOK
<1>17. ASSUME Sound' PROVE Ordered(log', Stream') /\ AckedOK'
  <2>1. mode = "SYNC" /\ mode' = "SYNC"
    BY <1>2, <1>15, <1>17 DEF Sound, WalInv, StateOK
  <2>2. Sound /\ buffer = << >>
    BY <1>3, <2>1 DEF Sound, WalInv, StreamOK
  <2>3. file \in Seq(Bytes) /\ rec \in Seq(Bytes) /\ log \in Seq(LogRecords)
    BY <1>10 DEF BytesOf, WalInv, StateOK
  <2>4. bf = rec /\ Stream = file
    BY <1>7, <2>2, <2>3, WholeFacts DEF Stream
  <2>5. PICK x : x = SubSeq(rec, 1, n)
    OBVIOUS
  <2>6. FirstBytes(m, x, Len(m)) /\ Len(x) < SizeOf(m, Len(m)) /\ x \in Seq(Bytes)
    <3>1. n \in 0..Len(rec) /\ n < Len(rec)
      BY <1>13, <2>4
    <3>2. Len(x) = n
      BY <2>3, <2>5, <3>1, CutFacts
    <3> QED  BY <1>10, <2>5, <3>1, <3>2 DEF FirstBytes
  <2>7. Ordered(m, file \o x) /\ Before(m, file \o x, Len(m))
    BY <1>10, <2>2, <2>4, <2>6, OrderedGrows
  <2>8. Ordered(m, (file \o x) \o rec)
    BY <1>10, <2>7, OrderedGrows
  <2>9. AllStand(m, file \o x)
    <3>1. AllStand(log, file)
      BY <2>1, SyncStands
    <3>2. AcksFewer(log, m)
      BY <1>4, <1>5, <2>3, UnackedFewer
    <3> QED  BY <1>10, <2>3, <2>6, <3>1, <3>2, AllStandGrows
  <2>10. NoHoles(m, file \o x)
    <3>1. file \o x \in Seq(Bytes)
      BY <2>7 DEF Ordered
    <3> QED  BY <1>10, <2>3, <2>8, <2>9, <3>1, HolesOfFile
  <2>11. file' = file \o x /\ buffer' = rec /\ Stream' = (file \o x) \o rec
         /\ Lasting' = file'
    BY <1>9, <1>13, <2>1, <2>4, <2>5 DEF Stream, Lasting
  <2>12. AckedOK'
    BY <1>8, <2>9, <2>10, <2>11 DEF AckedOK
  <2> QED  BY <1>8, <2>8, <2>11, <2>12
<1> QED  BY <1>15, <1>16, <1>17 DEF WalInv

\* The process dies while it appends.
LEMMA CrashInAppendKeeps ==
    ASSUME WalInv, NEW k \in Keys, NEW e \in Entry, CrashInAppend(k, e)
    PROVE  WalInv'
<1>1. CanAppend /\ log' = Append(log, LogRecord(k, e, FALSE))
  BY DEF CrashInAppend
<1>2. /\ stream' = "closed" /\ appends' = appends + 1 /\ crashes < MaxCrashes
      /\ crashes' = crashes + 1 /\ process' = "crashed" /\ buffer' = << >>
      /\ UNCHANGED <<mode, faults>>
  BY DEF CrashInAppend
<1>3. process = "running" /\ stream # "bad" /\ appends < MaxAppends
  BY <1>1 DEF CanAppend
<1>4. PICK r \in LogRecords : r = LogRecord(k, e, FALSE) /\ r.acked = FALSE
  BY LogRecordType
<1>5. PICK m : m = Append(log, r)
  OBVIOUS
<1>6. PICK rec : rec = RecordBytes(m, Len(m))
  OBVIOUS
<1>7. PICK bf : bf = buffer \o rec
  OBVIOUS
<1>8. log' = m /\ Buffered(log') = bf
  BY <1>1, <1>4, <1>5, <1>6, <1>7 DEF Buffered
<1>9. PICK n \in 0..Len(bf) : file' = file \o SubSeq(bf, 1, n)
  BY <1>8 DEF CrashInAppend, WriteOut
<1>10. /\ m \in Seq(LogRecords) /\ Len(m) \in 1..Len(m) /\ Extends(log, m)
       /\ BytesOf(m, rec) /\ BytesOf(m, file) /\ BytesOf(m, buffer)
       /\ FirstBytes(m, rec, Len(m))
       /\ Sound => Ordered(m, Stream) /\ Before(m, Stream, Len(m))
  BY <1>1, <1>4, <1>5, <1>6, AppendFacts
<1>11. BytesOf(m, bf)
  BY <1>7, <1>10, BytesOfConcat
<1>12. PICK x, y : x = SubSeq(bf, 1, n) /\ y = SubSeq(bf, n + 1, Len(bf))
  OBVIOUS
<1>13. BytesOf(m, x) /\ BytesOf(m, y) /\ BytesOf(m, file \o x) /\ file' = file \o x
  BY <1>9, <1>10, <1>11, <1>12, BytesOfConcat, BytesOfCut
<1>14. BytesOf(m, << >>)
  BY DEF BytesOf
<1>15. StateOK'
  <2>1. appends' \in 0..MaxAppends /\ crashes' \in 0..MaxCrashes
    BY <1>2, <1>3, WalFileAssumption DEF WalInv, StateOK
  <2>2. Len(buffer') <= BufferSize
    BY <1>2, WalFileAssumption
  <2> QED  BY <1>2, <1>8, <1>10, <1>13, <1>14, <2>1, <2>2 DEF WalInv, StateOK
<1>16. StreamOK'
  BY <1>2 DEF StreamOK
<1>17. ASSUME Sound' PROVE Ordered(log', Stream') /\ AckedOK'
  <2>1. Sound
    BY <1>2, <1>17 DEF Sound
  <2>2. /\ file \in Seq(Bytes) /\ buffer \in Seq(Bytes) /\ rec \in Seq(Bytes)
        /\ bf \in Seq(Bytes) /\ x \in Seq(Bytes) /\ y \in Seq(Bytes)
        /\ file \o x \in Seq(Bytes) /\ log \in Seq(LogRecords)
    BY <1>10, <1>11, <1>13 DEF BytesOf, WalInv, StateOK
  <2>3. (file \o x) \o y = Stream \o rec
    <3>1. CutsWell(file, bf, n)
      BY <2>2, CutFacts
    <3>2. (file \o buffer) \o rec = file \o (buffer \o rec)
      <4>1. file \in Seq(Bytes) /\ buffer \in Seq(Bytes) /\ rec \in Seq(Bytes)
        BY <2>2
      <4> QED  BY <4>1, ConcatAssoc
    <3> QED  BY <1>7, <1>12, <3>1, <3>2 DEF CutsWell, Stream
  <2>4. Ordered(m, Stream \o rec)
    BY <1>10, <2>1, OrderedGrows
  <2>5. Ordered(m, (file \o x) \o y)
    BY <2>3, <2>4
  <2>6. Ordered(m, file \o x)
    BY <2>2, <2>5, OrderedPrefix
  <2>7. Stream' = file \o x
    BY <1>2, <1>13, <2>2, WholeFacts DEF Stream
  <2>8. AcksFewer(log, m)
    BY <1>4, <1>5, <2>2, UnackedFewer
  <2>9. NoHoles(m, file \o x)
    <3>1. AllStand(log, Stream) /\ Stream \in Seq(Bytes)
      BY <1>3, <2>1, <2>2, StreamStands DEF Stream
    <3>2. AllStand(m, Stream \o rec)
      BY <1>10, <2>2, <2>8, <3>1, AllStandGrows
    <3>3. AllStand(m, (file \o x) \o y)
      BY <2>3, <3>2
    <3> QED  BY <1>10, <2>2, <2>5, <3>3, HolesFacts
  <2>10. mode' = "SYNC" => AllStand(m, file \o x)
    <3> SUFFICES ASSUME mode' = "SYNC" PROVE AllStand(m, file \o x)
      OBVIOUS
    <3>1. AllStand(log, file)
      BY <1>2, SyncStands
    <3> QED  BY <1>10, <2>2, <2>8, <3>1, AllStandGrows
  <2>11. mode' = "SYNC" => Lasting' = file \o x
    BY <1>13 DEF Lasting
  <2>12. AckedOK'
    BY <1>2, <1>8, <1>13, <2>9, <2>10, <2>11 DEF AckedOK
  <2> QED  BY <1>8, <2>6, <2>7, <2>12
<1> QED  BY <1>15, <1>16, <1>17 DEF WalInv

\* The stream is flushed.
LEMMA SyncKeeps ==
    ASSUME WalInv, Sync
    PROVE  WalInv'
<1>1. /\ log \in Seq(LogRecords) /\ BytesOf(log, file) /\ BytesOf(log, buffer)
      /\ file \in Seq(Bytes) /\ buffer \in Seq(Bytes)
  BY DEF WalInv, StateOK, BytesOf
<1>2. /\ process = "running" /\ stream = "open" /\ buffer' = << >>
      /\ UNCHANGED <<mode, stream, process, log, appends, crashes, faults>>
  BY DEF Sync
<1>3. file' = Stream
  BY <1>1, WholeFacts DEF Sync, WriteOut, Stream
<1>4. BytesOf(log, Stream) /\ BytesOf(log, << >>) /\ Stream \in Seq(Bytes)
  BY <1>1, BytesOfConcat DEF Stream, BytesOf
<1>5. StateOK'
  <2>1. Len(buffer') <= BufferSize
    BY <1>2, WalFileAssumption
  <2> QED  BY <1>2, <1>3, <1>4, <2>1 DEF WalInv, StateOK
<1>6. StreamOK'
  BY <1>2 DEF WalInv, StreamOK
<1>7. Stream' = Stream /\ Lasting' = Stream
  BY <1>2, <1>3, <1>4, WholeFacts DEF Stream, Lasting
<1>8. ASSUME Sound' PROVE Ordered(log', Stream') /\ AckedOK'
  <2>1. Sound /\ Ordered(log, Stream)
    BY <1>2, <1>8 DEF Sound, WalInv
  <2>2. AllStand(log, Stream)
    BY <1>2, <2>1, StreamStands
  <2>3. NoHoles(log, Stream)
    <3>1. Stream \o << >> = Stream /\ << >> \in Seq(Bytes)
      BY <1>4, WholeFacts
    <3> QED  BY <1>1, <1>4, <2>1, <2>2, <3>1, HolesFacts
  <2>4. AckedOK'
    BY <1>2, <1>3, <1>7, <2>2, <2>3 DEF AckedOK
  <2> QED  BY <1>2, <1>7, <2>1, <2>4
<1> QED  BY <1>5, <1>6, <1>8 DEF WalInv

\* A flush fails: there is one only in ASYNC mode.
LEMMA SyncFailsKeeps ==
    ASSUME WalInv, SyncFails
    PROVE  WalInv'
<1>1. /\ log \in Seq(LogRecords) /\ BytesOf(log, file) /\ BytesOf(log, buffer)
      /\ Len(buffer) \in Nat
  BY DEF WalInv, StateOK, BytesOf
<1>2. /\ process = "running" /\ stream = "open" /\ buffer # << >> /\ faults < MaxFaults
      /\ stream' = "bad" /\ faults' = faults + 1
      /\ UNCHANGED <<mode, buffer, process, log, appends, crashes>>
  BY DEF SyncFails
<1>3. mode # "SYNC"
  BY <1>2 DEF WalInv, StreamOK
<1>4. BytesOf(log, file')
  <2>1. PICK n \in 0..(Len(buffer) - 1) : file' = file \o SubSeq(buffer, 1, n)
    BY DEF SyncFails, WriteOut
  <2>2. n \in 0..Len(buffer)
    BY <1>1
  <2> QED  BY <1>1, <2>1, <2>2, BytesOfCut, BytesOfConcat
<1>5. faults' \in 0..MaxFaults /\ faults' > 0
  BY <1>2, WalFileAssumption DEF WalInv, StateOK
<1>6. StateOK'
  BY <1>1, <1>2, <1>4, <1>5 DEF WalInv, StateOK
<1>7. StreamOK'
  BY <1>2, <1>3, <1>5 DEF StreamOK
<1>8. ~Sound'
  <2>1. faults' # 0
    BY <1>5
  <2> QED  BY <1>2, <1>3, <2>1 DEF Sound
<1> QED  BY <1>6, <1>7, <1>8 DEF WalInv

\* What closing the stream does to the bytes.
LEMMA CloseFacts ==
    ASSUME WalInv, process = "running", CloseStream, mode' = mode, log' = log
    PROVE  /\ BytesOf(log', file') /\ BytesOf(log', buffer')
           /\ buffer' = << >> /\ stream' = "closed"
           /\ Sound => /\ Ordered(log', Stream') /\ AllStand(log', Lasting')
                       /\ NoHoles(log', file')
<1>1. /\ log \in Seq(LogRecords) /\ BytesOf(log, file) /\ BytesOf(log, buffer)
      /\ file \in Seq(Bytes) /\ buffer \in Seq(Bytes)
  BY DEF WalInv, StateOK, BytesOf
<1>2. PICK n \in 0..Len(buffer) :
        (stream # "bad" => n = Len(buffer)) /\ file' = file \o SubSeq(buffer, 1, n)
  BY DEF CloseStream, WriteOut
<1>3. PICK x, y : x = SubSeq(buffer, 1, n) /\ y = SubSeq(buffer, n + 1, Len(buffer))
  OBVIOUS
<1>4. /\ BytesOf(log, x) /\ BytesOf(log, y) /\ BytesOf(log, file \o x)
      /\ BytesOf(log, << >>) /\ file' = file \o x
  <2>1. BytesOf(log, x) /\ BytesOf(log, y)
    BY <1>1, <1>3, BytesOfCut
  <2> QED  BY <1>1, <1>2, <1>3, <2>1, BytesOfConcat DEF BytesOf
<1>5. x \in Seq(Bytes) /\ y \in Seq(Bytes) /\ file \o x \in Seq(Bytes)
  BY <1>4 DEF BytesOf
<1>6. buffer' = << >> /\ stream' = "closed"
  BY DEF CloseStream
<1>7. Stream' = file \o x /\ Lasting' = file \o x
  BY <1>4, <1>5, <1>6, WholeFacts DEF Stream, Lasting
<1>8. (file \o x) \o y = Stream
  <2>1. CutsWell(file, buffer, n)
    BY <1>1, CutFacts
  <2> QED  BY <1>3, <2>1 DEF CutsWell, Stream
<1>9. ASSUME Sound
      PROVE  /\ Ordered(log, file \o x) /\ AllStand(log, file \o x)
             /\ NoHoles(log, file \o x)
  <2>1. Ordered(log, (file \o x) \o y)
    BY <1>8, <1>9 DEF WalInv
  <2>2. Ordered(log, file \o x)
    BY <1>5, <2>1, OrderedPrefix
  <2>3. AllStand(log, file \o x)
    <3>1. CASE mode = "SYNC"
      <4>1. AllStand(log, file)
        BY <3>1, SyncStands
      <4> QED  BY <1>1, <1>5, <4>1, ExtendsItself, AllStandGrows
    <3>2. CASE mode # "SYNC"
      <4>1. stream # "bad"
        <5>1. faults = 0
          BY <1>9, <3>2 DEF Sound
        <5> QED  BY <5>1 DEF WalInv, StreamOK
      <4>2. n = Len(buffer)
        BY <1>2, <4>1
      <4>3. x = buffer
        BY <1>1, <1>3, <4>2, WholeFacts
      <4> QED  BY <1>9, <4>1, <4>3, StreamStands DEF Stream
    <3> QED  BY <3>1, <3>2
  <2> QED  BY <1>1, <1>5, <2>1, <2>2, <2>3, HolesOfFile
<1> QED  BY <1>4, <1>6, <1>7, <1>9

\* truncate closes the stream, but does not empty the file.
LEMMA ResizeFailsKeeps ==
    ASSUME WalInv, TruncateFails, CloseStream, log' = log
    PROVE  WalInv'
<1>1. /\ process = "running" /\ faults < MaxFaults /\ faults' = faults + 1
      /\ UNCHANGED <<mode, process, log, appends, crashes>>
  BY DEF TruncateFails
<1>2. /\ BytesOf(log', file') /\ BytesOf(log', buffer')
      /\ buffer' = << >> /\ stream' = "closed"
      /\ Sound => /\ Ordered(log', Stream') /\ AllStand(log', Lasting')
                  /\ NoHoles(log', file')
  BY <1>1, CloseFacts
<1>3. faults' \in 0..MaxFaults /\ faults' # 0 /\ Len(buffer') <= BufferSize
  BY <1>1, <1>2, WalFileAssumption DEF WalInv, StateOK
<1>4. StateOK'
  BY <1>1, <1>2, <1>3 DEF WalInv, StateOK
<1>5. StreamOK'
  BY <1>2 DEF StreamOK
<1>6. ASSUME Sound' PROVE Ordered(log', Stream') /\ AckedOK'
  <2>1. Sound
    BY <1>1, <1>3, <1>6 DEF Sound
  <2> QED  BY <1>2, <2>1 DEF AckedOK
<1> QED  BY <1>4, <1>5, <1>6 DEF WalInv

\* The orderly end.
LEMMA DestroyKeeps ==
    ASSUME WalInv, Destroy
    PROVE  WalInv'
<1>1. /\ process = "running" /\ process' = "ended"
      /\ UNCHANGED <<mode, log, appends, crashes, faults>>
  BY DEF Destroy
<1>2. /\ BytesOf(log', file') /\ BytesOf(log', buffer')
      /\ buffer' = << >> /\ stream' = "closed"
      /\ Sound => /\ Ordered(log', Stream') /\ AllStand(log', Lasting')
                  /\ NoHoles(log', file')
  BY <1>1, CloseFacts DEF Destroy
<1>3. Len(buffer') <= BufferSize
  BY <1>2, WalFileAssumption
<1>4. StateOK'
  BY <1>1, <1>2, <1>3 DEF WalInv, StateOK
<1>5. StreamOK'
  BY <1>2 DEF StreamOK
<1>6. ASSUME Sound' PROVE Ordered(log', Stream') /\ AckedOK'
  <2>1. Sound
    BY <1>1, <1>6 DEF Sound
  <2> QED  BY <1>2, <2>1 DEF AckedOK
<1> QED  BY <1>4, <1>5, <1>6 DEF WalInv

\* The file is emptied, whether or not it can be opened again.
LEMMA EmptiedKeeps ==
    ASSUME WalInv, file' = << >>, buffer' = << >>, log' = << >>,
           stream' \in {"open", "closed"}, faults' \in 0..MaxFaults,
           UNCHANGED <<mode, process, appends, crashes>>
    PROVE  WalInv'
<1>1. StateOK'
  <2>1. log' \in Seq(LogRecords) /\ Len(buffer') <= BufferSize
    BY WalFileAssumption
  <2>2. BytesOf(log', << >>)
    BY DEF BytesOf
  <2> QED  BY <2>1, <2>2 DEF WalInv, StateOK
<1>2. StreamOK'
  BY DEF StreamOK
<1>3. Stream' = << >>
  BY DEF Stream
<1>4. Ordered(log', Stream')
  BY <1>3 DEF Ordered
<1>5. AckedOK'
  BY DEF AckedOK, AllStand, NoHoles
<1> QED  BY <1>1, <1>2, <1>4, <1>5 DEF WalInv

\* truncate.
LEMMA TruncateKeeps ==
    ASSUME WalInv, Truncate
    PROVE  WalInv'
<1>1. faults' \in 0..MaxFaults
  BY DEF Truncate, WalInv, StateOK
<1> QED  BY <1>1, EmptiedKeeps DEF Truncate

\* truncate fails before or after it emptied the file.
LEMMA TruncateFailsKeeps ==
    ASSUME WalInv, TruncateFails
    PROVE  WalInv'
<1>1. faults' \in 0..MaxFaults
  BY WalFileAssumption DEF TruncateFails, WalInv, StateOK
<1> QED  BY <1>1, EmptiedKeeps, ResizeFailsKeeps DEF TruncateFails

\* The process dies: the buffer is gone.
LEMMA CrashKeeps ==
    ASSUME WalInv, Crash
    PROVE  WalInv'
<1>1. /\ crashes < MaxCrashes /\ crashes' = crashes + 1 /\ process' = "crashed"
      /\ buffer' = << >> /\ stream' = "closed"
      /\ UNCHANGED <<mode, file, log, appends, faults>>
  BY DEF Crash
<1>2. file \in Seq(Bytes) /\ buffer \in Seq(Bytes)
  BY DEF WalInv, StateOK, BytesOf
<1>3. StateOK'
  <2>1. crashes' \in 0..MaxCrashes /\ Len(buffer') <= BufferSize
    BY <1>1, WalFileAssumption DEF WalInv, StateOK
  <2>2. BytesOf(log', << >>)
    BY DEF BytesOf
  <2> QED  BY <1>1, <2>1, <2>2 DEF WalInv, StateOK
<1>4. StreamOK'
  BY <1>1 DEF StreamOK
<1>5. Stream' = file
  BY <1>1, <1>2, WholeFacts DEF Stream
<1>6. ASSUME Sound' PROVE Ordered(log', Stream') /\ AckedOK'
  <2>1. Sound
    BY <1>1, <1>6 DEF Sound
  <2>2. Ordered(log, file)
    BY <1>2, <2>1, OrderedPrefix DEF WalInv, Stream
  <2>3. mode' = "SYNC" => AllStand(log', Lasting')
    BY <1>1, SyncStands DEF Lasting
  <2>4. NoHoles(log', file')
    BY <1>1, <2>1 DEF WalInv, AckedOK
  <2> QED  BY <1>1, <1>5, <2>2, <2>3, <2>4 DEF AckedOK
<1> QED  BY <1>3, <1>4, <1>6 DEF WalInv

\* The bytes of the file are in order.
LEMMA FileIsOrdered ==
    ASSUME WalInv, Sound
    PROVE  Ordered(log, file)
<1>1. file \in Seq(Bytes) /\ buffer \in Seq(Bytes)
  BY DEF WalInv, StateOK, BytesOf
<1> QED  BY <1>1, OrderedPrefix DEF WalInv, Stream

\* A start: what was not read does not count as acknowledged any more.
LEMMA StartKeeps ==
    ASSUME WalInv, Start
    PROVE  WalInv'
<1>1. /\ process # "running" /\ stream' = "open" /\ process' = "running"
      /\ UNCHANGED <<mode, buffer, file, appends, crashes, faults>>
  BY DEF Start
<1>2. PICK r \in Recover(log, file) :
        log' = [no \in DOMAIN log |->
                    [log[no] EXCEPT !.acked = @ /\ \E i \in DOMAIN r.records :
                                                        r.records[i] = no]]
  BY DEF Start
<1>3. PICK m : m = log'
  OBVIOUS
<1>4. /\ log \in Seq(LogRecords) /\ Len(log) \in Nat /\ DOMAIN log = 1..Len(log)
      /\ BytesOf(log, file) /\ file \in Seq(Bytes) /\ buffer = << >>
  BY <1>1 DEF WalInv, StateOK, StreamOK, BytesOf
<1>5. ASSUME NEW no \in 1..Len(log)
      PROVE  /\ m[no] \in LogRecords /\ m[no].entry = log[no].entry
             /\ m[no].acked => log[no].acked /\ \E i \in DOMAIN r.records : r.records[i] = no
  <2>1. log[no] \in LogRecords
    BY <1>4
  <2>2. m[no] = [log[no] EXCEPT !.acked = @ /\ \E i \in DOMAIN r.records :
                                                    r.records[i] = no]
    BY <1>2, <1>3, <1>4
  <2> DEFINE b == log[no].acked /\ \E i \in DOMAIN r.records : r.records[i] = no
  <2>3. b \in BOOLEAN
    OBVIOUS
  <2>4. m[no] = [log[no] EXCEPT !.acked = b]
    BY <2>1, <2>2 DEF LogRecords
  <2> HIDE DEF b
  <2>5. m[no] \in LogRecords /\ m[no].entry = log[no].entry /\ m[no].acked = b
    BY <2>1, <2>3, <2>4 DEF LogRecords
  <2>6. b => log[no].acked /\ \E i \in DOMAIN r.records : r.records[i] = no
    BY DEF b
  <2> QED  BY <2>5, <2>6
<1>6. m \in Seq(LogRecords) /\ Len(m) = Len(log)
  <2>1. m = [no \in 1..Len(log) |-> m[no]]
    BY <1>2, <1>3, <1>4
  <2>2. [no \in 1..Len(log) |-> m[no]] \in Seq(LogRecords)
    BY <1>4, <1>5, IsASeq
  <2>3. DOMAIN m = 1..Len(log)
    BY <1>2, <1>3, <1>4
  <2> QED  BY <1>4, <2>1, <2>2, <2>3
<1>7. Extends(log, m)
  BY <1>4, <1>5, <1>6 DEF Extends, SizeOf
<1>8. StateOK'
  <2>1. BytesOf(m, file) /\ BytesOf(m, << >>)
    BY <1>4, <1>7, BytesOfExtends DEF BytesOf
  <2>2. Len(buffer') <= BufferSize
    BY <1>1, <1>4, WalFileAssumption
  <2> QED  BY <1>1, <1>3, <1>4, <1>6, <2>1, <2>2 DEF WalInv, StateOK
<1>9. StreamOK'
  BY <1>1, <1>4 DEF StreamOK
<1>10. Stream' = file /\ Lasting' = file
  BY <1>1, <1>4, WholeFacts DEF Stream, Lasting
<1>11. ASSUME Sound' PROVE Ordered(log', Stream') /\ AckedOK'
  <2>1. Sound
    BY <1>1, <1>11 DEF Sound
  <2>2. Ordered(log, file)
    BY <2>1, FileIsOrdered
  <2>3. Ordered(m, file)
    BY <1>7, <2>2, OrderedExtends
  <2>4. ReadsInOrder(log, file, 0, r.records)
    BY <1>4, <2>2, RecoveryReadsInOrder
  <2>5. ASSUME NEW no \in 1..Len(m), m[no].acked PROVE Stands(m, file, no)
    <3>1. no \in 1..Len(log)
      BY <1>6
    <3>2. PICK i \in DOMAIN r.records : r.records[i] = no
      BY <1>5, <2>5, <3>1
    <3>3. i \in 1..Len(r.records)
      BY <2>4 DEF ReadsInOrder
    <3>4. Stands(log, file, no)
      BY <2>4, <3>2, <3>3 DEF ReadsInOrder, Stands
    <3>5. Stands(m, file \o << >>, no)
      BY <1>4, <1>7, <3>1, <3>4, WholeFacts, StandsGrows
    <3> QED  BY <1>4, <3>5, WholeFacts
  <2>6. AllStand(m, file)
    BY <2>5 DEF AllStand
  <2>7. NoHoles(m, file)
    <3>1. file \o << >> = file /\ << >> \in Seq(Bytes)
      BY <1>4, WholeFacts
    <3>2. Ordered(m, file \o << >>)
      BY <2>3, <3>1
    <3> QED  BY <1>4, <1>6, <2>6, <3>1, <3>2, HolesOfFile
  <2>8. AckedOK'
    BY <1>1, <1>3, <1>10, <2>6, <2>7 DEF AckedOK
  <2> QED  BY <1>3, <1>10, <2>3, <2>8
<1> QED  BY <1>8, <1>9, <1>11 DEF WalInv

\* Every step of the write-ahead log keeps the invariant.
LEMMA NextWalInv == WalInv /\ [Next]_vars => WalInv'
<1> SUFFICES ASSUME WalInv, [Next]_vars PROVE WalInv'
  OBVIOUS
<1>1. ASSUME NEW k \in Keys, NEW e \in Entry, AppendRecord(k, e) PROVE WalInv'
  BY <1>1, AppendRecordKeeps
<1>2. ASSUME NEW k \in Keys, NEW e \in Entry, AppendFails(k, e) PROVE WalInv'
  BY <1>2, AppendFailsKeeps
<1>3. ASSUME NEW k \in Keys, NEW e \in Entry, CrashInAppend(k, e) PROVE WalInv'
  BY <1>3, CrashInAppendKeeps
<1>4. CASE Sync
  BY <1>4, SyncKeeps
<1>5. CASE SyncFails
  BY <1>5, SyncFailsKeeps
<1>6. CASE Truncate
  BY <1>6, TruncateKeeps
<1>7. CASE TruncateFails
  BY <1>7, TruncateFailsKeeps
<1>8. CASE Destroy
  BY <1>8, DestroyKeeps
<1>9. CASE Crash
  BY <1>9, CrashKeeps
<1>10. CASE Start
  BY <1>10, StartKeeps
<1>11. CASE UNCHANGED vars
  BY <1>11 DEF vars, WalInv, StateOK, StreamOK, Sound, Stream, AckedOK, Lasting
<1> QED  BY <1>1, <1>2, <1>3, <1>4, <1>5, <1>6, <1>7, <1>8, <1>9, <1>10, <1>11 DEF Next

\* No record of the log is above the limit.
LEMMA NoneTooLarge ==
    ASSUME log \in Seq(LogRecords), ~TooLarge
    PROVE  NotTooLarge(log)
<1> SUFFICES ASSUME NEW no \in 1..Len(log)
             PROVE  PayloadSize[log[no].entry] <= MaxRecordSize
  BY DEF NotTooLarge
<1>1. PayloadSize[log[no].entry] \in Nat /\ MaxRecordSize \in Nat /\ no \in DOMAIN log
  BY SizeFacts, WalFileAssumption
<1>2. ~(PayloadSize[log[no].entry] > MaxRecordSize)
  BY <1>1 DEF TooLarge
<1> QED  BY <1>1, <1>2

-----------------------------------------------------------------------------
(***************************************************************************)
(* The file as module Wal sees it.                                         *)
(***************************************************************************)

\* Ascending(S) has at a rank the element of that rank.
LEMMA AscendingRanks ==
    ASSUME NEW S, S \subseteq Nat, IsFiniteSet(S)
    PROVE  /\ DOMAIN Ascending(S) = 1..Cardinality(S)
           /\ \A i \in 1..Cardinality(S) :
                Ascending(S)[i] \in S /\ Cardinality(UpTo(S, Ascending(S)[i])) = i
<1>1. ASSUME NEW i \in 1..Cardinality(S)
      PROVE  Ascending(S)[i] \in S /\ Cardinality(UpTo(S, Ascending(S)[i])) = i
  <2>1. \E x \in S : Cardinality({y \in S : y <= x}) = i
    BY RankExists DEF UpTo
  <2>2. Ascending(S)[i] = CHOOSE x \in S : Cardinality({y \in S : y <= x}) = i
    BY DEF Ascending
  <2> QED  BY <2>1, <2>2 DEF UpTo
<1>2. DOMAIN Ascending(S) = 1..Cardinality(S)
  BY DEF Ascending
<1> QED  BY <1>1, <1>2

\* The record that module Wal has for a piece which ends with byte b.
PieceRecord(b, gap) == TornRecord(log[b.no].key, log[b.no].entry, gap)

\* The pieces of the file as records, the torn ones with this gap.
LEMMA AsRecordsFacts ==
    ASSUME log \in Seq(LogRecords), BytesOf(log, file), NEW gap \in Nat \ {0},
           NEW n, n = Cardinality(PieceEnds(file)),
           NEW w, w = AsRecords([i \in 1..n |-> gap])
    PROVE  /\ n \in Nat /\ w \in Seq(Records) /\ Len(w) = n
           /\ \A p \in PieceEnds(file) :
                /\ IsTorn(log, file[p]) => w[Rank(file, p)] = PieceRecord(file[p], gap)
                /\ ~IsTorn(log, file[p]) => w[Rank(file, p)] = PieceRecord(file[p], 0)
<1> DEFINE E == PieceEnds(file)
           A == Ascending(E)
           g == [i \in 1..n |-> gap]
<1>1. file \in Seq(Bytes) /\ \A i \in 1..Len(file) : InLog(log, file[i])
  BY DEF BytesOf
<1>2. E \subseteq 1..Len(file) /\ E \subseteq Nat /\ IsFiniteSet(E) /\ n \in Nat
  BY <1>1, EndsFacts
<1>3. /\ DOMAIN A = 1..n
      /\ \A i \in 1..n : A[i] \in E /\ Rank(file, A[i]) = i
  <2>1. /\ DOMAIN A = 1..n
        /\ \A i \in 1..n : A[i] \in E /\ Cardinality(UpTo(E, A[i])) = i
    <3> HIDE DEF E
    <3>1. n = Cardinality(E)
      BY DEF E
    <3> QED  BY <1>2, <3>1, AscendingRanks
  <2> QED  BY <2>1 DEF Rank
<1>4. w = [i \in 1..n |-> PieceRecord(file[A[i]],
                                      IF IsTorn(log, file[A[i]]) THEN g[i] ELSE 0)]
  BY <1>3 DEF AsRecords, PieceRecord
<1> HIDE DEF A, E
<1>5. ASSUME NEW i \in 1..n
      PROVE  /\ IsTorn(log, file[A[i]]) => w[i] = PieceRecord(file[A[i]], gap)
             /\ ~IsTorn(log, file[A[i]]) => w[i] = PieceRecord(file[A[i]], 0)
  BY <1>4
<1>6. ASSUME NEW i \in 1..n PROVE w[i] \in Records
  <2>1. A[i] \in 1..Len(file)
    BY <1>2, <1>3
  <2>2. file[A[i]].no \in 1..Len(log)
    BY <1>1, <2>1 DEF InLog
  <2>3. log[file[A[i]].no] \in LogRecords
    BY <2>2
  <2>4. \A x \in Nat : PieceRecord(file[A[i]], x) \in Records
    BY <2>3 DEF PieceRecord, TornRecord, LogRecords, Records
  <2> QED  BY <1>5, <2>4
<1>7. w = [i \in 1..n |-> w[i]] /\ DOMAIN w = 1..n
  <2> HIDE DEF g
  <2> QED  BY <1>4
<1>8. w \in Seq(Records) /\ Len(w) = n
  <2>1. [i \in 1..n |-> w[i]] \in Seq(Records)
    BY <1>2, <1>6, IsASeq
  <2>2. w \in Seq(Records)
    BY <1>7, <2>1
  <2> QED  BY <1>2, <1>7, <2>2
<1>9. ASSUME NEW p \in E PROVE Rank(file, p) \in 1..n /\ A[Rank(file, p)] = p
  <2>1. /\ \A q \in E : Rank(file, q) \in 1..n
        /\ \A q, s \in E : Rank(file, q) = Rank(file, s) => q = s
    BY <1>1, RankFacts DEF E
  <2>2. A[Rank(file, p)] \in E /\ Rank(file, A[Rank(file, p)]) = Rank(file, p)
    BY <1>3, <2>1
  <2> QED  BY <2>1, <2>2
<1>10. ASSUME NEW p \in E
       PROVE /\ IsTorn(log, file[p]) => w[Rank(file, p)] = PieceRecord(file[p], gap)
             /\ ~IsTorn(log, file[p]) => w[Rank(file, p)] = PieceRecord(file[p], 0)
  BY <1>5, <1>9
<1> QED  BY <1>2, <1>8, <1>10 DEF E

\* The records up to the first torn one, of a log w with k complete records in
\* front of it.
LEMMA TornAtNext ==
    ASSUME NEW w \in Seq(Records), NEW k \in Nat, k < Len(w),
           \A i \in 1..k : w[i].gap = 0, w[k + 1].gap # 0
    PROVE  /\ ValidPrefix(w) = SubSeq(w, 1, k)
           /\ Corrupted(w) <=> Len(w) - (k + 1) >= w[k + 1].gap
<1>1. Len(w) \in Nat /\ k + 1 \in 1..Len(w)
  OBVIOUS
<1>2. k + 1 \in TornAt(w)
  BY <1>1 DEF TornAt
<1>3. ASSUME NEW i \in TornAt(w) PROVE i \in Nat /\ k + 1 <= i
  <2>1. i \in 1..Len(w) /\ w[i].gap # 0
    BY DEF TornAt
  <2>2. i \notin 1..k
    BY <2>1
  <2> QED  BY <1>1, <2>1, <2>2
<1>4. Min(TornAt(w)) = k + 1
  <2>1. Min(TornAt(w)) \in TornAt(w) /\ \A i \in TornAt(w) : Min(TornAt(w)) <= i
    BY <1>2, <1>3 DEF Min
  <2>2. Min(TornAt(w)) <= k + 1 /\ k + 1 <= Min(TornAt(w)) /\ Min(TornAt(w)) \in Nat
    BY <1>2, <1>3, <2>1
  <2> QED  BY <2>2
<1>5. TornAt(w) # {} /\ (k + 1) - 1 = k
  BY <1>2
<1> QED  BY <1>4, <1>5 DEF ValidPrefix, Corrupted

\* A log without torn records.
LEMMA NoneTorn ==
    ASSUME NEW w \in Seq(Records), \A i \in 1..Len(w) : w[i].gap = 0
    PROVE  ValidPrefix(w) = w /\ ~Corrupted(w)
<1>1. TornAt(w) = {}
  BY DEF TornAt
<1> QED  BY <1>1 DEF ValidPrefix, Corrupted

\* If recovery tracks the pieces of the file, then module Wal says the same of
\* the records they are, for one of the two gaps.
LEMMA TracksIsFaithful ==
    ASSUME log \in Seq(LogRecords), BytesOf(log, file), NEW r,
           Tracks(log, file, 0, r),
           NEW n, n = Cardinality(PieceEnds(file))
    PROVE  \E g \in [1..n -> {1, n + 1}] :
            /\ ValidPrefix(AsRecords(g))
                = [i \in DOMAIN r.records |->
                    Record(log[r.records[i]].key, log[r.records[i]].entry)]
            /\ Corrupted(AsRecords(g)) <=> r.status = "CORRUPTED"
<1>1. file \in Seq(Bytes) /\ n \in Nat
  BY EndsFacts DEF BytesOf
<1> DEFINE gap == IF r.status = "CORRUPTED" THEN 1 ELSE n + 1
           g == [i \in 1..n |-> gap]
           w == AsRecords(g)
           K == Len(r.records)
           v == [i \in 1..K |-> Record(log[r.records[i]].key, log[r.records[i]].entry)]
<1>2. gap \in {1, n + 1} /\ gap \in Nat \ {0} /\ g \in [1..n -> {1, n + 1}]
  BY <1>1
<1>3. /\ w \in Seq(Records) /\ Len(w) = n
      /\ \A p \in PieceEnds(file) :
           /\ IsTorn(log, file[p]) => w[Rank(file, p)] = PieceRecord(file[p], gap)
           /\ ~IsTorn(log, file[p]) => w[Rank(file, p)] = PieceRecord(file[p], 0)
  <2> HIDE DEF gap
  <2> QED  BY <1>2, AsRecordsFacts
<1>4. /\ r.records \in Seq(Nat) /\ K \in Nat
      /\ \A i \in 1..K : IsWhole(log, file, i, r.records[i])
      /\ StopsBehind(log, file, K, r.status)
  <2>1. Rank(file, 0) = 0
    BY <1>1, RankFacts
  <2>2. /\ r.records \in Seq(Nat)
        /\ \A i \in 1..K : IsWhole(log, file, 0 + i, r.records[i])
        /\ StopsBehind(log, file, 0 + K, r.status)
    BY <2>1 DEF Tracks
  <2>3. K \in Nat /\ 0 + K = K /\ \A i \in 1..K : 0 + i = i
    BY <2>2
  <2> QED  BY <2>2, <2>3
<1>5. \A p \in PieceEnds(file) : Rank(file, p) \in 1..n
  BY <1>1, RankFacts
<1> HIDE DEF gap, g, w, K, v
<1>6. ASSUME NEW i \in 1..K
      PROVE  i \in 1..n /\ w[i] = v[i] /\ w[i].gap = 0
  <2>1. PICK p \in PieceEnds(file) :
          Rank(file, p) = i /\ file[p].no = r.records[i] /\ ~IsTorn(log, file[p])
    BY <1>4 DEF IsWhole
  <2>2. w[i] = TornRecord(log[r.records[i]].key, log[r.records[i]].entry, 0)
    BY <1>3, <2>1 DEF PieceRecord
  <2>3. w[i] = Record(log[r.records[i]].key, log[r.records[i]].entry)
    BY <2>2 DEF TornRecord, Record
  <2>4. w[i].gap = 0
    BY <2>3 DEF Record
  <2> QED  BY <1>5, <2>1, <2>3, <2>4 DEF v
<1>7. ValidPrefix(w) = v /\ (Corrupted(w) <=> r.status = "CORRUPTED")
  <2>1. CASE K = n /\ r.status # "CORRUPTED"
    <3>1. \A i \in 1..Len(w) : w[i].gap = 0
      BY <1>3, <1>6, <2>1
    <3>2. ValidPrefix(w) = w /\ ~Corrupted(w)
      BY <1>3, <3>1, NoneTorn
    <3>3. w = v
      <4>1. w = [i \in 1..K |-> w[i]]
        BY <1>3, <2>1
      <4>2. v = [i \in 1..K |-> v[i]]
        BY DEF v
      <4> QED  BY <1>6, <4>1, <4>2
    <3> QED  BY <2>1, <3>2, <3>3
  <2>2. CASE \E p \in PieceEnds(file) :
                /\ Rank(file, p) = K + 1 /\ IsTorn(log, file[p])
                /\ r.status = "CORRUPTED" => p < Len(file)
    <3>1. PICK p \in PieceEnds(file) :
                /\ Rank(file, p) = K + 1 /\ IsTorn(log, file[p])
                /\ r.status = "CORRUPTED" => p < Len(file)
      BY <2>2
    <3>2. K + 1 \in 1..n /\ K < n
      BY <1>1, <1>4, <1>5, <3>1
    <3>3. w[K + 1].gap = gap /\ gap # 0
      <4>1. w[K + 1] = PieceRecord(file[p], gap)
        BY <1>3, <3>1
      <4>2. w[K + 1].gap = gap
        BY <4>1 DEF PieceRecord, TornRecord
      <4> QED  BY <1>2, <4>2
    <3>4. /\ ValidPrefix(w) = SubSeq(w, 1, K)
          /\ Corrupted(w) <=> Len(w) - (K + 1) >= w[K + 1].gap
      BY <1>3, <1>4, <1>6, <3>2, <3>3, TornAtNext
    <3>5. Corrupted(w) <=> n - (K + 1) >= gap
      <4>1. Len(w) = n /\ w[K + 1].gap = gap
        BY <1>3, <3>3
      <4> QED  BY <3>4, <4>1
    <3>6. ASSUME r.status = "CORRUPTED" PROVE Corrupted(w)
      <4>1. gap = 1
        BY <3>6 DEF gap
      <4>2. K + 1 # n
        <5> SUFFICES ASSUME K + 1 = n PROVE FALSE
          OBVIOUS
        <5>1. Len(file) \in PieceEnds(file) /\ Len(file) \in Nat
          <6>1. p \in 1..Len(file) /\ Len(file) \in Nat
            BY <1>1, EndsFacts
          <6>2. Len(file) # 0
            BY <6>1
          <6> QED  BY <1>1, <6>1, <6>2, EndsFacts
        <5>2. Rank(file, Len(file)) = Rank(file, p)
          BY <1>1, <3>1, RankFacts
        <5>3. Len(file) = p
          BY <1>1, <5>1, <5>2, RankFacts
        <5> QED  BY <3>1, <3>6, <5>1, <5>3
      <4>3. n - (K + 1) >= 1
        BY <1>1, <1>4, <3>2, <4>2
      <4> QED  BY <3>5, <4>1, <4>3
    <3>7. ASSUME r.status # "CORRUPTED" PROVE ~Corrupted(w)
      <4>1. gap = n + 1
        BY <3>7 DEF gap
      <4>2. ~(n - (K + 1) >= n + 1)
        BY <1>1, <1>4
      <4> QED  BY <3>5, <4>1, <4>2
    <3>8. SubSeq(w, 1, K) = v
      <4>1. /\ SubSeq(w, 1, K) \in Seq(Records) /\ Len(SubSeq(w, 1, K)) = K
            /\ \A i \in 1..K : SubSeq(w, 1, K)[i] = w[i]
        <5>1. K \in 0..Len(w)
          BY <1>1, <1>3, <1>4, <3>2
        <5> QED  BY <1>3, <5>1, CutFacts
      <4>2. SubSeq(w, 1, K) = [i \in 1..K |-> SubSeq(w, 1, K)[i]]
        BY <4>1
      <4>3. v = [i \in 1..K |-> v[i]]
        BY DEF v
      <4> HIDE DEF v
      <4>4. \A i \in 1..K : SubSeq(w, 1, K)[i] = v[i]
        BY <1>6, <4>1
      <4> QED  BY <4>2, <4>3, <4>4
    <3>9. Corrupted(w) <=> r.status = "CORRUPTED"
      BY <3>6, <3>7
    <3> QED  BY <3>4, <3>8, <3>9
  <2> QED  BY <1>4, <2>1, <2>2 DEF StopsBehind
<1>8. DOMAIN r.records = 1..K
  BY <1>4 DEF K
<1>9. v = [i \in DOMAIN r.records |->
            Record(log[r.records[i]].key, log[r.records[i]].entry)]
  BY <1>8 DEF v
<1> QED  BY <1>2, <1>7, <1>9 DEF w

-----------------------------------------------------------------------------
(***************************************************************************)
(* The theorems.                                                           *)
(***************************************************************************)

\* The invariant of the write-ahead log holds in every reachable state, for
\* all keys, entries, sizes of the format, modes and bounds (wal.cpp:129-331).
THEOREM WalInvariant == Spec => []WalInv
BY InitWalInv, NextWalInv, PTL DEF Spec

\* The bytes on disk are bytes of appended records, and what the stream holds
\* fits into its buffer as long as no write failed (wal.cpp:247-316).
THEOREM WalTypeCorrect == Spec => []TypeOK
<1>1. WalInv => TypeOK
  <2> SUFFICES ASSUME WalInv PROVE TypeOK
    OBVIOUS
  <2>1. StateOK
    BY DEF WalInv
  <2>2. log \in Seq(LogRecords) /\ file \in Seq(Bytes)
    BY <2>1 DEF StateOK, BytesOf
  <2>3. ASSUME NEW no \in DOMAIN log PROVE log[no].key \in Keys /\ log[no].entry \in Entry
    <3>1. log[no] \in LogRecords
      BY <2>2
    <3> QED  BY <3>1 DEF LogRecords
  <2>4. ASSUME NEW i \in DOMAIN file
        PROVE  file[i].no \in DOMAIN log /\ file[i].place \in 1..SizeOf(log, file[i].no)
    BY <2>1, <2>2 DEF StateOK, BytesOf, InLog
  <2> QED  BY <2>1, <2>3, <2>4 DEF StateOK, TypeOK
<1> QED  BY <1>1, WalInvariant, PTL

\* What recovery would read at any moment is in order, without repetition, and
\* misses only a suffix of the acknowledged records (wal.cpp:180-184, 311-315;
\* recovery.cpp:154-224).
THEOREM SuffixTheorem == Spec => []OnlyASuffixIsLost
<1>1. WalInv => OnlyASuffixIsLost
  <2> SUFFICES ASSUME WalInv, Sound, NEW r \in Recover(log, file)
               PROVE  /\ \A i, j \in DOMAIN r.records : i < j => r.records[i] < r.records[j]
                      /\ \A i \in DOMAIN r.records, no \in Acked :
                            no < r.records[i] =>
                                \E j \in DOMAIN r.records : r.records[j] = no
    BY DEF OnlyASuffixIsLost, Sound
  <2>1. Ordered(log, file) /\ log \in Seq(LogRecords) /\ file \in Seq(Bytes)
    BY FileIsOrdered DEF WalInv, StateOK, BytesOf
  <2>2. ReadsInOrder(log, file, 0, r.records)
    BY <2>1, RecoveryReadsInOrder
  <2>3. DOMAIN r.records = 1..Len(r.records)
    BY <2>2 DEF ReadsInOrder
  <2>4. ASSUME NEW i \in 1..Len(r.records), NEW no \in Acked, no < r.records[i]
        PROVE  \E j \in 1..Len(r.records) : r.records[j] = no
    <3>1. no \in 1..Len(log) /\ log[no].acked
      BY <2>1 DEF Acked
    <3>2. PICK p \in 0..Len(file) :
            r.records[i] \in 1..Len(log) /\ StandsAt(log, file, r.records[i], p)
      BY <2>2 DEF ReadsInOrder
    <3>3. p + 1 \in 1..Len(file) /\ file[p + 1].no = r.records[i]
      BY <2>1, <3>2, StandsEnds
    <3>4. PICK q \in 1..Len(file) : file[q].no = no
      <4>1. no < file[p + 1].no
        BY <2>4, <3>3
      <4> QED  BY <3>1, <3>3, <4>1 DEF WalInv, AckedOK, NoHoles
    <3>5. q \in (0 + 1)..Len(file) /\ file[q].no < r.records[i]
      BY <2>4, <3>4
    <3> QED  BY <2>2, <3>4, <3>5 DEF ReadsInOrder
  <2> QED  BY <2>2, <2>3, <2>4 DEF ReadsInOrder
<1> QED  BY <1>1, WalInvariant, PTL

\* Once the buffer is empty, recovery reads every acknowledged record and does
\* not refuse the file, unless something was written behind torn bytes or a
\* record is above the limit of recovery (wal.cpp:180-184, 311-331;
\* recovery.cpp:38-126).
THEOREM DurabilityTheorem == Spec => []AcknowledgedIsDurable
<1>1. WalInv => AcknowledgedIsDurable
  <2> SUFFICES ASSUME WalInv, mode = "SYNC" \/ (process # "crashed" /\ faults = 0),
                      stream # "bad", buffer = << >>, ~GarbledBytes, ~TooLarge,
                      NEW r \in Recover(log, file)
               PROVE  /\ r.status # "CORRUPTED"
                      /\ Acked \subseteq {r.records[i] : i \in DOMAIN r.records}
    BY DEF AcknowledgedIsDurable
  <2>1. Sound
    BY DEF Sound
  <2>2. Ordered(log, file) /\ log \in Seq(LogRecords) /\ file \in Seq(Bytes)
    BY <2>1, FileIsOrdered DEF WalInv, StateOK, BytesOf
  <2>3. NotGarbled(log, file)
    BY DEF GarbledBytes, NotGarbled
  <2>4. NotTooLarge(log)
    BY <2>2, NoneTooLarge
  <2>5. ReadsAll(log, file, 0, r)
    BY <2>2, <2>3, <2>4, RecoveryReadsAll
  <2>6. AllStand(log, file)
    <3>1. CASE mode = "SYNC"
      BY <3>1, SyncStands
    <3>2. CASE process # "crashed"
      <4>1. Stream = file
        BY <2>2, WholeFacts DEF Stream
      <4> QED  BY <2>1, <3>2, <4>1, StreamStands
    <3> QED  BY <3>1, <3>2
  <2>7. ASSUME NEW no \in Acked PROVE no \in {r.records[i] : i \in DOMAIN r.records}
    <3>1. no \in 1..Len(log) /\ log[no].acked
      BY <2>2 DEF Acked
    <3>2. PICK p \in 0..Len(file) : StandsAt(log, file, no, p)
      BY <2>6, <3>1 DEF AllStand, Stands
    <3>3. PICK j \in 1..Len(r.records) : r.records[j] = no
      BY <2>5, <3>1, <3>2 DEF ReadsAll
    <3>4. j \in DOMAIN r.records
      BY <2>5 DEF ReadsAll
    <3> QED  BY <3>3, <3>4
  <2>8. r.status # "CORRUPTED"
    BY <2>5 DEF ReadsAll
  <2> QED  BY <2>7, <2>8
<1> QED  BY <1>1, WalInvariant, PTL

\* What module Wal says of the records, for some gaps, is what recover_wal makes
\* of the bytes, unless a record is above the limit of recovery
\* (recovery.cpp:38-126, 154-224).
THEOREM FaithfulTheorem == Spec => []RecordLevelIsFaithful
<1>1. WalInv => RecordLevelIsFaithful
  <2> SUFFICES ASSUME WalInv, Sound, ~TooLarge, NEW r \in Recover(log, file)
               PROVE  LET pieces == Cardinality(PieceEnds(file))
                      IN \E g \in [1..pieces -> {1, pieces + 1}] :
                            /\ ValidPrefix(AsRecords(g))
                                = [i \in DOMAIN r.records |->
                                    Record(log[r.records[i]].key, log[r.records[i]].entry)]
                            /\ Corrupted(AsRecords(g)) <=> r.status = "CORRUPTED"
    BY DEF RecordLevelIsFaithful, Sound
  <2>1. Ordered(log, file) /\ log \in Seq(LogRecords) /\ BytesOf(log, file)
    BY FileIsOrdered DEF WalInv, StateOK
  <2>2. NotTooLarge(log)
    BY <2>1, NoneTooLarge
  <2>3. Tracks(log, file, 0, r)
    BY <2>1, <2>2, RecoveryTracks
  <2> QED  BY <2>1, <2>3, TracksIsFaithful
<1> QED  BY <1>1, WalInvariant, PTL
=============================================================================

---------------------------- MODULE ForgeDBProofs ----------------------------
(***************************************************************************)
(* Proofs about ForgeDB for every set of keys and values, all thresholds,  *)
(* any number of writes, crashes and failures, and every kind of failure:  *)
(* type correctness, the order of the MANIFEST, the immutability of listed *)
(* tables and that a start never trips over a table.  The inductive        *)
(* invariant is StorageInv.                                                *)
(***************************************************************************)
EXTENDS ForgeDB, OrderProofs

-----------------------------------------------------------------------------
(***************************************************************************)
(* Ascending enumerates a finite set of numbers in order.                  *)
(***************************************************************************)

\* Max of a finite set of natural numbers is its largest element.
LEMMA MaxIsLargest ==
    ASSUME NEW S, S \subseteq Nat, IsFiniteSet(S), S # {}
    PROVE  Max(S) \in S /\ \A y \in S : Max(S) >= y
BY LargestExists DEF Max

\* Ascending(S) lists elements of S, each larger than the one before.
LEMMA AscendingIsSorted ==
    ASSUME NEW S, S \subseteq Nat, IsFiniteSet(S)
    PROVE  /\ Cardinality(S) \in Nat
           /\ DOMAIN Ascending(S) = 1 .. Cardinality(S)
           /\ \A n \in 1 .. Cardinality(S) : Ascending(S)[n] \in S
           /\ \A i, j \in 1 .. Cardinality(S) :
                i < j => Ascending(S)[i] < Ascending(S)[j]
<1>1. Cardinality(S) \in Nat
  BY FS_CardinalityType
<1>2. DOMAIN Ascending(S) = 1 .. Cardinality(S)
  BY DEF Ascending
<1>3. ASSUME NEW n \in 1 .. Cardinality(S)
      PROVE  Ascending(S)[n] \in S /\ Cardinality(UpTo(S, Ascending(S)[n])) = n
  <2>1. \E x \in S : Cardinality({y \in S : y <= x}) = n
    BY RankExists DEF UpTo
  <2>2. Ascending(S)[n] = CHOOSE x \in S : Cardinality({y \in S : y <= x}) = n
    BY DEF Ascending
  <2> QED  BY <2>1, <2>2 DEF UpTo
<1>4. ASSUME NEW i \in 1 .. Cardinality(S), NEW j \in 1 .. Cardinality(S), i < j
      PROVE  Ascending(S)[i] < Ascending(S)[j]
  <2> DEFINE a == Ascending(S)[i]
             b == Ascending(S)[j]
  <2>1. /\ a \in S /\ Cardinality(UpTo(S, a)) = i
        /\ b \in S /\ Cardinality(UpTo(S, b)) = j
    BY <1>3
  <2> HIDE DEF a, b
  <2>2. a \in Nat /\ b \in Nat
    BY <2>1
  <2>3. ASSUME b <= a PROVE FALSE
    <3>1. UpTo(S, b) \subseteq UpTo(S, a)
      <4> SUFFICES ASSUME NEW y \in S, y <= b PROVE y <= a
        BY DEF UpTo
      <4>1. y \in Nat
        OBVIOUS
      <4> QED  BY <2>2, <2>3, <4>1
    <3>2. IsFiniteSet(UpTo(S, a))
      BY FS_Subset DEF UpTo
    <3>3. Cardinality(UpTo(S, b)) <= Cardinality(UpTo(S, a))
      BY <3>1, <3>2, FS_Subset
    <3> QED  BY <1>4, <2>1, <3>3
  <2>4. a < b
    BY <2>2, <2>3
  <2> QED  BY <2>4 DEF a, b
<1> QED  BY <1>1, <1>2, <1>3, <1>4

\* Ascending(S) leaves out no element of S.
LEMMA AscendingIsOnto ==
    ASSUME NEW S, S \subseteq Nat, IsFiniteSet(S), NEW x \in S
    PROVE  \E n \in 1 .. Cardinality(S) : Ascending(S)[n] = x
<1> DEFINE n == Cardinality(UpTo(S, x))
           y == Ascending(S)[n]
<1>1. n \in 1 .. Cardinality(S)
  BY RankType
<1>2. y \in S /\ Cardinality(UpTo(S, y)) = n
  <2>1. \E z \in S : Cardinality({u \in S : u <= z}) = n
    BY <1>1, RankExists DEF UpTo
  <2>2. y = CHOOSE z \in S : Cardinality({u \in S : u <= z}) = n
    BY <1>1 DEF Ascending
  <2> QED  BY <2>1, <2>2 DEF UpTo
<1> HIDE DEF n, y
<1>3. x = y
  BY <1>2, RankUnique DEF n
<1> QED  BY <1>1, <1>3 DEF y
-----------------------------------------------------------------------------
(***************************************************************************)
(* The operators on maps return maps.                                      *)
(***************************************************************************)

\* Merging a sequence of maps gives a map.
LEMMA MergeType ==
    ASSUME NEW s, NEW n \in Nat, DOMAIN s = 1 .. n,
           \A i \in 1 .. n : s[i] \in Map
    PROVE  Merge(s) \in Map
<1> SUFFICES ASSUME NEW k \in Keys PROVE NewestEntry(s, k) \in Entry \cup {Absent}
  BY DEF Merge, Map
<1>1. CASE Holders(s, k) = {}
  BY <1>1 DEF NewestEntry
<1>2. CASE Holders(s, k) # {}
  <2>1. Holders(s, k) \subseteq 1 .. n
    BY DEF Holders
  <2>2. IsFiniteSet(Holders(s, k)) /\ Holders(s, k) \subseteq Nat
    BY <2>1, FS_Interval, FS_Subset
  <2>3. Max(Holders(s, k)) \in 1 .. n
    BY <1>2, <2>1, <2>2, MaxIsLargest
  <2>4. s[Max(Holders(s, k))][k] \in Entry \cup {Absent}
    BY <2>3 DEF Map
  <2> QED  BY <1>2, <2>4 DEF NewestEntry
<1> QED  BY <1>1, <1>2

\* What the WAL holds is a map.
LEMMA RecoverWalType ==
    ASSUME NEW w \in Seq(Records)
    PROVE  RecoverWal(w) \in Map
<1> DEFINE v == ValidPrefix(w)
           s == [i \in DOMAIN v |-> RecordMap(v[i])]
<1>1. v \in Seq(Records)
  <2>1. CASE TornAt(w) = {}
    BY <2>1 DEF ValidPrefix
  <2>2. CASE TornAt(w) # {}
    <3>1. TornAt(w) \subseteq 1 .. Len(w)
      BY DEF TornAt
    <3>2. PICK x \in TornAt(w) : \A y \in TornAt(w) : x <= y
      BY <2>2, <3>1, LeastNatural
    <3>3. Min(TornAt(w)) \in 1 .. Len(w)
      BY <3>1, <3>2 DEF Min
    <3> QED  BY <2>2, <3>3 DEF ValidPrefix
  <2> QED  BY <2>1, <2>2
<1> HIDE DEF v
<1>2. \A i \in 1 .. Len(v) : RecordMap(v[i]) \in Map
  <2> SUFFICES ASSUME NEW i \in 1 .. Len(v) PROVE RecordMap(v[i]) \in Map
    OBVIOUS
  <2>1. v[i] \in Records
    BY <1>1
  <2>2. v[i].entry \in Entry
    BY <2>1 DEF Records
  <2> QED  BY <2>2 DEF RecordMap, Map
<1>3. /\ DOMAIN s = 1 .. Len(v)
      /\ Len(v) \in Nat
      /\ \A i \in 1 .. Len(v) : s[i] \in Map
  BY <1>1, <1>2
<1> HIDE DEF s
<1>4. Merge(s) \in Map
  BY <1>3, MergeType
<1> QED  BY <1>4 DEF s, v, RecoverWal

\* The merged contents of a manifest's tables are a map.
LEMMA ContentsType ==
    ASSUME NEW m \in Manifests, NEW fs,
           \A id \in DOMAIN fs : fs[id] \in Map
    PROVE  Merge(Contents(m, fs)) \in Map
<1> DEFINE s == Contents(m, fs)
<1>1. EmptyMap \in Map
  BY DEF EmptyMap, Map
<1>2. /\ Len(m.tables) \in Nat
      /\ DOMAIN m.tables = 1 .. Len(m.tables)
  BY DEF Manifests
<1>3. DOMAIN s = 1 .. Len(m.tables)
  BY <1>2 DEF Contents
<1>4. \A i \in 1 .. Len(m.tables) : s[i] \in Map
  BY <1>1, <1>2 DEF Contents
<1> HIDE DEF s
<1> QED  BY <1>2, <1>3, <1>4, MergeType DEF s

\* So is what Storage::load hands to the MemTable.
LEMMA LoadedDataType ==
    ASSUME NEW m \in Manifests, NEW fs,
           \A id \in DOMAIN fs : fs[id] \in Map,
           NEW w \in Seq(Records)
    PROVE  LoadedData(m, fs, w) \in Map
<1>1. Merge(Contents(m, fs)) \in Map
  BY ContentsType
<1>2. RecoverWal(w) \in Map
  BY RecoverWalType
<1> QED  BY <1>1, <1>2 DEF LoadedData, Overlay, Map

-----------------------------------------------------------------------------
(***************************************************************************)
(* The operators on manifests return manifests and keep them ordered.      *)
(***************************************************************************)

\* The parts of a manifest.
LEMMA ManifestParts ==
    ASSUME NEW m \in Manifests
    PROVE  /\ m = [next |-> m.next, tables |-> m.tables]
           /\ m.next \in Nat
           /\ m.tables \in Seq(Table)
           /\ Len(m.tables) \in Nat
           /\ DOMAIN m.tables = 1 .. Len(m.tables)
           /\ \A i \in DOMAIN m.tables : m.tables[i] \in Table
           /\ \A i \in DOMAIN m.tables : m.tables[i].id \in Nat
<1>1. /\ m = [next |-> m.next, tables |-> m.tables]
      /\ m.next \in Nat
      /\ m.tables \in Seq(Table)
  BY DEF Manifests
<1>2. Len(m.tables) \in Nat /\ DOMAIN m.tables = 1 .. Len(m.tables)
  BY <1>1
<1>3. \A i \in DOMAIN m.tables : m.tables[i] \in Table
  BY <1>1, <1>2
<1>4. \A i \in DOMAIN m.tables : m.tables[i].id \in Nat
  BY <1>3 DEF Table
<1> QED  BY <1>1, <1>2, <1>3, <1>4

\* A new database starts with an ordered manifest.
LEMMA NewManifestOrdered == NewManifest \in Manifests /\ Ordered(NewManifest)
BY DEF NewManifest, Manifests, Ordered

\* add_table of a table with the next id.
LEMMA AddTableOrdered ==
    ASSUME NEW m \in Manifests, Ordered(m),
           NEW t \in Table, t.id = m.next
    PROVE  /\ AddTable(m, t) \in Manifests
           /\ Ordered(AddTable(m, t))
           /\ TableIds(AddTable(m, t)) = TableIds(m) \cup {t.id}
<1>1. /\ m.next \in Nat
      /\ m.tables \in Seq(Table)
      /\ t.id \in Nat
      /\ \A i \in DOMAIN m.tables : m.tables[i].id \in Nat
  BY ManifestParts DEF Table
<1> DEFINE a == AddTable(m, t)
           n == Len(m.tables)
<1>2. a = [next |-> m.next + 1, tables |-> Append(m.tables, t)]
  <2>1. t.id >= m.next /\ t.id + 1 = m.next + 1
    BY <1>1
  <2> QED  BY <2>1 DEF AddTable
<1>3. /\ n \in Nat
      /\ DOMAIN m.tables = 1 .. n
      /\ DOMAIN a.tables = 1 .. n + 1
      /\ \A i \in 1 .. n : a.tables[i] = m.tables[i]
      /\ a.tables[n + 1] = t
  BY <1>1, <1>2
<1>4. \A i \in 1 .. n : m.tables[i].id \in Nat
  BY <1>1, <1>3
<1>5. a \in Manifests
  BY <1>1, <1>2 DEF Manifests
<1> HIDE DEF a, n
<1>6. \A i \in DOMAIN a.tables : a.tables[i].id < a.next
  BY <1>1, <1>2, <1>3, <1>4 DEF Ordered
<1>7. ASSUME NEW i \in DOMAIN a.tables, NEW j \in DOMAIN a.tables, i < j
      PROVE  a.tables[i].id < a.tables[j].id
  <2>1. i \in 1 .. n /\ (j = n + 1 \/ j \in 1 .. n)
    BY <1>3, <1>7
  <2>2. a.tables[i] = m.tables[i] /\ i \in DOMAIN m.tables
    BY <1>3, <2>1
  <2>3. CASE j = n + 1
    <3>1. m.tables[i].id < m.next
      BY <2>2 DEF Ordered
    <3> QED  BY <1>3, <2>2, <2>3, <3>1
  <2>4. CASE j \in 1 .. n
    <3>1. a.tables[j] = m.tables[j] /\ j \in DOMAIN m.tables
      BY <1>3, <2>4
    <3>2. m.tables[i].id < m.tables[j].id
      BY <1>7, <2>2, <3>1 DEF Ordered
    <3> QED  BY <2>2, <3>1, <3>2
  <2> QED  BY <2>1, <2>3, <2>4
<1>8. TableIds(a) = TableIds(m) \cup {t.id}
  BY <1>3 DEF TableIds
<1> QED  BY <1>5, <1>6, <1>7, <1>8 DEF a, Ordered

\* A rolled-back add_table leaves the tables alone and next_table_id_ above
\* all of them.
LEMMA UndoAddTableOrdered ==
    ASSUME NEW m \in Manifests, Ordered(m),
           NEW t \in Table, t.id = m.next
    PROVE  /\ UndoAddTable(m, t) \in Manifests
           /\ Ordered(UndoAddTable(m, t))
           /\ UndoAddTable(m, t).tables = m.tables
<1>1. /\ m.next \in Nat
      /\ m.tables \in Seq(Table)
      /\ \A i \in DOMAIN m.tables : m.tables[i].id \in Nat
  BY ManifestParts
<1>2. UndoAddTable(m, t) = [next   |-> IF m.tables = << >> THEN 1 ELSE m.next + 1,
                            tables |-> m.tables]
  BY <1>1 DEF UndoAddTable, AddTable
<1>3. UndoAddTable(m, t) \in Manifests
  BY <1>1, <1>2 DEF Manifests
<1>4. Ordered(UndoAddTable(m, t))
  <2>1. CASE m.tables = << >>
    BY <1>2, <2>1 DEF Ordered
  <2>2. CASE m.tables # << >>
    BY <1>1, <1>2, <2>2 DEF Ordered
  <2> QED  BY <2>1, <2>2
<1> QED  BY <1>2, <1>3, <1>4

\* remove_tables.
LEMMA RemoveTablesOrdered ==
    ASSUME NEW m \in Manifests, Ordered(m), NEW ids
    PROVE  /\ RemoveTables(m, ids) \in Manifests
           /\ Ordered(RemoveTables(m, ids))
           /\ TableIds(RemoveTables(m, ids)) \subseteq TableIds(m)
<1> DEFINE ts == m.tables
           P == {i \in DOMAIN ts : ts[i].id \notin ids}
           left == Ascending(P)
           n == Cardinality(P)
           r == [i \in DOMAIN left |-> ts[left[i]]]
<1>1. RemoveTables(m, ids) = [next |-> m.next, tables |-> r]
  BY DEF RemoveTables
<1>2. /\ m.next \in Nat
      /\ Len(ts) \in Nat
      /\ DOMAIN ts = 1 .. Len(ts)
      /\ \A i \in DOMAIN ts : ts[i] \in Table
  BY ManifestParts
<1>3. /\ \A i \in DOMAIN ts : ts[i].id < m.next
      /\ \A i, j \in DOMAIN ts : i < j => ts[i].id < ts[j].id
  BY DEF Ordered
<1>4. TableIds(m) = {ts[i].id : i \in DOMAIN ts}
  BY DEF TableIds
<1> HIDE DEF ts
<1>5. P \subseteq DOMAIN ts
  OBVIOUS
<1> HIDE DEF P
<1>6. P \subseteq Nat /\ IsFiniteSet(P)
  <2>1. IsFiniteSet(1 .. Len(ts))
    BY <1>2, FS_Interval
  <2> QED  BY <1>2, <1>5, <2>1, FS_Subset
<1>7. /\ n \in Nat
      /\ DOMAIN left = 1 .. n
      /\ \A i \in 1 .. n : left[i] \in P
      /\ \A i, j \in 1 .. n : i < j => left[i] < left[j]
  BY <1>6, AscendingIsSorted
<1> HIDE DEF left, n
<1>8. DOMAIN r = 1 .. n /\ \A i \in 1 .. n : r[i] = ts[left[i]]
  BY <1>7
<1>9. r \in Seq(Table)
  <2>1. r \in [1 .. n -> Table]
    BY <1>2, <1>5, <1>7
  <2> HIDE DEF r
  <2> QED  BY <1>7, <2>1
<1> HIDE DEF r
<1>10. RemoveTables(m, ids) \in Manifests
  BY <1>1, <1>2, <1>9 DEF Manifests
<1>11. Ordered(RemoveTables(m, ids))
  <2>1. \A i, j \in DOMAIN r : i < j => r[i].id < r[j].id
    BY <1>3, <1>5, <1>7, <1>8
  <2>2. \A i \in DOMAIN r : r[i].id < m.next
    BY <1>3, <1>5, <1>7, <1>8
  <2> QED  BY <1>1, <2>1, <2>2 DEF Ordered
<1>12. TableIds(RemoveTables(m, ids)) \subseteq TableIds(m)
  <2>1. TableIds(RemoveTables(m, ids)) = {r[i].id : i \in DOMAIN r}
    BY <1>1 DEF TableIds
  <2> QED  BY <1>4, <1>5, <1>7, <1>8, <2>1
<1> QED  BY <1>10, <1>11, <1>12

\* rebuild_from_directory.
LEMMA RebuildOrdered ==
    ASSUME NEW fs, DOMAIN fs \subseteq Nat, IsFiniteSet(DOMAIN fs)
    PROVE  /\ Rebuild(fs) \in Manifests
           /\ Ordered(Rebuild(fs))
           /\ TableIds(Rebuild(fs)) \subseteq DOMAIN fs
<1> DEFINE ids == RebuiltIds(fs)
           n == Cardinality(ids)
           r == RebuiltTables(fs)
           next == IF ids = {} THEN 1 ELSE Max(ids) + 1
<1>1. ids \subseteq Nat /\ IsFiniteSet(ids) /\ ids \subseteq DOMAIN fs
  BY FS_Subset DEF RebuiltIds
<1> HIDE DEF ids
<1>2. /\ n \in Nat
      /\ \A i \in 1 .. n : Ascending(ids)[i] \in ids
      /\ \A i, j \in 1 .. n : i < j => Ascending(ids)[i] < Ascending(ids)[j]
  BY <1>1, AscendingIsSorted
<1> HIDE DEF n
<1>3. r = [i \in 1 .. n |-> Metadata(Ascending(ids)[i], fs[Ascending(ids)[i]])]
  BY DEF RebuiltTables, ids, n
<1>4. \A i \in 1 .. n : r[i] \in Table /\ r[i].id = Ascending(ids)[i]
  <2> SUFFICES ASSUME NEW i \in 1 .. n
               PROVE  r[i] \in Table /\ r[i].id = Ascending(ids)[i]
    OBVIOUS
  <2>1. Ascending(ids)[i] \in Nat
    BY <1>1, <1>2
  <2>2. r[i] = [id |-> Ascending(ids)[i], range |-> KeyRange(fs[Ascending(ids)[i]])]
    BY <1>3 DEF Metadata
  <2>3. KeyRange(fs[Ascending(ids)[i]]) \in SUBSET Keys
    BY DEF KeyRange
  <2> QED  BY <2>1, <2>2, <2>3 DEF Table
<1>5. DOMAIN r = 1 .. n
  BY <1>3
<1>6. r \in Seq(Table)
  <2>1. r \in [1 .. n -> Table]
    BY <1>3, <1>4
  <2> HIDE DEF r
  <2> QED  BY <1>2, <2>1
<1>7. next \in Nat /\ \A id \in ids : id < next
  <2>1. CASE ids = {}
    BY <2>1
  <2>2. CASE ids # {}
    <3>1. Max(ids) \in ids /\ \A y \in ids : Max(ids) >= y
      BY <1>1, <2>2, MaxIsLargest
    <3>2. Max(ids) \in Nat /\ \A y \in ids : y \in Nat
      BY <1>1, <3>1
    <3>3. next = Max(ids) + 1
      BY <2>2
    <3> QED  BY <3>1, <3>2, <3>3
  <2> QED  BY <2>1, <2>2
<1>8. Rebuild(fs) = [next |-> next, tables |-> r]
  BY DEF Rebuild, ids
<1> HIDE DEF r, next
<1>9. Rebuild(fs) \in Manifests
  BY <1>6, <1>7, <1>8 DEF Manifests
<1>10. Ordered(Rebuild(fs))
  BY <1>2, <1>4, <1>5, <1>7, <1>8 DEF Ordered
<1>11. TableIds(Rebuild(fs)) \subseteq DOMAIN fs
  <2>1. TableIds(Rebuild(fs)) = {r[i].id : i \in DOMAIN r}
    BY <1>8 DEF TableIds
  <2> QED  BY <1>1, <1>2, <1>4, <1>5, <2>1
<1> QED  BY <1>9, <1>10, <1>11

\* The metadata of a file has the type of a table.
LEMMA MetadataType ==
    ASSUME NEW id \in Nat, NEW m
    PROVE  Metadata(id, m) \in Table /\ Metadata(id, m).id = id
BY DEF Metadata, Table, KeyRange

-----------------------------------------------------------------------------
(***************************************************************************)
(* StorageInv in five parts that different actions disturb.                *)
(***************************************************************************)

\* The control state, the MemTable and the WAL.
ControlOK ==
    /\ pc \in {"down", "failed", "load", "ready"} \cup Writing
    /\ IF pc \in Writing THEN req \in [key : Keys, entry : Entry]
                         ELSE req = NoRequest
    /\ reply \in [status : {"none", "OK", "ERROR", "NOT_FOUND", "value"},
                  key : Keys \cup {0},
                  value : Values \cup {Absent}]
    /\ mem \in Map
    /\ stream \in {"open", "closed", "bad"}
    /\ wal \in Seq(Records)
    /\ writes \in Nat
    /\ crashes \in Nat
    /\ faults \in Nat

\* The stream of the WAL, and the write it has kept.
StreamOK ==
    /\ IF stream = "bad" THEN kept \in [key : Keys, entry : Entry]
                         ELSE kept = NoRequest
    /\ stream = "bad" => pc \in {"ready", "append"}

\* Both manifests.
ManifestsOK ==
    /\ manifest \in Manifests /\ Ordered(manifest)
    /\ manifestFile \in Manifests /\ Ordered(manifestFile)

\* The table files.
FilesOK ==
    /\ DOMAIN files \in SUBSET Nat
    /\ IsFiniteSet(DOMAIN files)
    /\ \A id \in DOMAIN files : files[id] \in Map
    /\ torn \in SUBSET Nat
    /\ DOMAIN files \cap torn = {}

\* How the two belong together.
Publishing == pc \in {"flush_publish", "compact_publish"}

ListedOK ==
    /\ TableIds(manifestFile) \cap torn = {}
    /\ Running => manifest.tables = manifestFile.tables
    /\ Publishing => manifest.next \in DOMAIN files
    /\ pc = "load" => TableIds(manifest) \subseteq DOMAIN files

\* The parts make up the invariant.
LEMMA StorageInvParts ==
    StorageInv <=> ControlOK /\ StreamOK /\ ManifestsOK /\ FilesOK /\ ListedOK
BY DEF StorageInv, TypeOK, ManifestIsOrdered, TablesAreLoadable, AllReadable,
       ControlOK, StreamOK, ManifestsOK, FilesOK, ListedOK, Publishing

-----------------------------------------------------------------------------
(***************************************************************************)
(* What the steps on files do.                                             *)
(***************************************************************************)

\* SSTable::write.
LEMMA WriteFileOK ==
    ASSUME FilesOK, NEW id \in Nat, NEW m \in Map, WriteFile(id, m)
    PROVE  /\ FilesOK'
           /\ DOMAIN files' = DOMAIN files \cup {id}
           /\ torn' = torn \ {id}
           /\ \A i \in DOMAIN files : i # id => files'[i] = files[i]
<1>1. /\ DOMAIN files' = DOMAIN files \cup {id}
      /\ torn' = torn \ {id}
      /\ \A i \in DOMAIN files' : files'[i] = IF i = id THEN m ELSE files[i]
  BY DEF WriteFile
<1>2. IsFiniteSet(DOMAIN files')
  BY <1>1, FS_AddElement DEF FilesOK
<1>3. \A i \in DOMAIN files' : files'[i] \in Map
  BY <1>1 DEF FilesOK
<1> QED  BY <1>1, <1>2, <1>3 DEF FilesOK

\* SSTable::write that does not finish.
LEMMA TearFileOK ==
    ASSUME FilesOK, NEW id \in Nat, TearFile(id)
    PROVE  /\ FilesOK'
           /\ DOMAIN files' = DOMAIN files \ {id}
           /\ torn' = torn \cup {id}
           /\ \A i \in DOMAIN files' : files'[i] = files[i]
<1>1. /\ DOMAIN files' = DOMAIN files \ {id}
      /\ torn' = torn \cup {id}
      /\ \A i \in DOMAIN files' : files'[i] = files[i]
  BY DEF TearFile
<1>2. IsFiniteSet(DOMAIN files')
  BY <1>1, FS_Subset DEF FilesOK
<1>3. \A i \in DOMAIN files' : files'[i] \in Map
  BY <1>1 DEF FilesOK
<1> QED  BY <1>1, <1>2, <1>3 DEF FilesOK

\* std::filesystem::remove.
LEMMA RemoveFilesOK ==
    ASSUME FilesOK, NEW ids, RemoveFiles(ids)
    PROVE  /\ FilesOK'
           /\ DOMAIN files' \subseteq DOMAIN files
           /\ torn' \subseteq torn
           /\ \A i \in DOMAIN files' : files'[i] = files[i]
<1>1. /\ DOMAIN files' \subseteq DOMAIN files
      /\ torn' \subseteq torn
      /\ \A i \in DOMAIN files' : files'[i] = files[i]
  BY DEF RemoveFiles
<1>2. IsFiniteSet(DOMAIN files')
  BY <1>1, FS_Subset DEF FilesOK
<1>3. \A i \in DOMAIN files' : files'[i] \in Map
  BY <1>1 DEF FilesOK
<1> QED  BY <1>1, <1>2, <1>3 DEF FilesOK

\* What execute_get finds has the right type.
LEMMA LookupType ==
    ASSUME ControlOK, ManifestsOK, FilesOK, NEW k \in Keys
    PROVE  Lookup(k) \in Entry \cup {Absent, ReadError}
<1>1. mem[k] \in Entry \cup {Absent}
  BY DEF ControlOK, Map
<1>2. GetFromTables(k) \in Entry \cup {Absent, ReadError}
  <2>1. CASE StopsAt(k) = {}
    BY <2>1 DEF GetFromTables
  <2>2. CASE StopsAt(k) # {}
    <3> DEFINE id == manifest.tables[Max(StopsAt(k))].id
    <3>1. GetFromTables(k) = IF id \in DOMAIN files THEN files[id][k] ELSE ReadError
      BY <2>2 DEF GetFromTables
    <3> HIDE DEF id
    <3>2. id \in DOMAIN files => files[id][k] \in Entry \cup {Absent}
      BY DEF FilesOK, Map
    <3> QED  BY <3>1, <3>2
  <2> QED  BY <2>1, <2>2
<1> QED  BY <1>1, <1>2 DEF Lookup

\* Hence so does the reply.
LEMMA AnswerType ==
    ASSUME ControlOK, ManifestsOK, FilesOK, NEW k \in Keys
    PROVE  Answer(k) \in [status : {"none", "OK", "ERROR", "NOT_FOUND", "value"},
                          key : Keys \cup {0},
                          value : Values \cup {Absent}]
<1> DEFINE e == Lookup(k)
<1>1. e \in Entry \cup {Absent, ReadError}
  BY LookupType
<1>2. Answer(k) = CASE e = ReadError ->
                        [status |-> "ERROR", key |-> k, value |-> Absent]
                    [] e \in {Absent, Tombstone} ->
                        [status |-> "NOT_FOUND", key |-> k, value |-> Absent]
                    [] OTHER -> [status |-> "value", key |-> k, value |-> e]
  BY DEF Answer
<1> HIDE DEF e
<1>3. CASE e = ReadError
  BY <1>2, <1>3, StorageAssumption
<1>4. CASE e \in {Absent, Tombstone}
  BY <1>2, <1>4, StorageAssumption DEF Entry
<1>5. CASE e \in Values
  BY <1>2, <1>5, StorageAssumption, SentinelAssumption DEF Entry
<1> QED  BY <1>1, <1>3, <1>4, <1>5 DEF Entry

-----------------------------------------------------------------------------
(***************************************************************************)
(* Every step preserves the five parts.                                    *)
(***************************************************************************)

\* The initial state.
LEMMA InitStorageInv == Init => StorageInv
<1> SUFFICES ASSUME Init PROVE StorageInv
  OBVIOUS
<1>1. NewManifest \in Manifests /\ Ordered(NewManifest)
  BY NewManifestOrdered
<1>2. EmptyMap \in Map
  BY DEF EmptyMap, Map
<1>3. ControlOK
  BY <1>2 DEF Init, ControlOK, Writing, NoRequest, NoReply
<1>4. ManifestsOK
  BY <1>1 DEF Init, ManifestsOK
<1>5. IsFiniteSet({}) /\ DOMAIN << >> = {}
  BY FS_EmptySet
<1>6. FilesOK
  BY <1>5 DEF Init, FilesOK
<1>7. ListedOK
  BY DEF Init, ListedOK, Running, Writing, Publishing
<1>8. StreamOK
  BY DEF Init, StreamOK
<1> QED  BY <1>3, <1>4, <1>6, <1>7, <1>8, StorageInvParts

\* A call that returns leaves the control state well formed.
LEMMA ReturnType ==
    ASSUME ControlOK, pc \in Writing, NEW s \in {"OK", "ERROR"}, Return(s)
    PROVE  /\ pc' = "ready"
           /\ req' = NoRequest
           /\ reply' \in [status : {"none", "OK", "ERROR", "NOT_FOUND", "value"},
                          key : Keys \cup {0},
                          value : Values \cup {Absent}]
BY DEF ControlOK, Return

\* Counting a failure.
LEMMA FaultType ==
    ASSUME ControlOK, NEW f, Fault(f)
    PROVE  faults' \in Nat
BY DEF ControlOK, Fault

\* The control state, the MemTable and the WAL stay well formed.
LEMMA ControlStep ==
    ASSUME ControlOK, StreamOK, ManifestsOK, FilesOK, [Next]_vars
    PROVE  ControlOK'
<1> USE DEF Writing
<1>1. ASSUME Initialize PROVE ControlOK'
  BY <1>1 DEF Initialize, ControlOK, bounds
<1>2. ASSUME InitializeFails PROVE ControlOK'
  <2>1. faults' \in Nat
    BY <1>2, FaultType DEF InitializeFails, ControlOK
  <2> QED  BY <1>2, <2>1 DEF InitializeFails, ControlOK, memory, disk
<1>3. ASSUME NEW k \in Keys, Get(k) PROVE ControlOK'
  <2>1. Answer(k) \in [status : {"none", "OK", "ERROR", "NOT_FOUND", "value"},
                       key : Keys \cup {0},
                       value : Values \cup {Absent}]
    BY AnswerType
  <2> QED  BY <1>3, <2>1 DEF Get, ControlOK, memory, disk, bounds
<1>4. ASSUME NEW k \in Keys, NEW e \in Entry, Write(k, e) PROVE ControlOK'
  <2>1. NoReply \in [status : {"none", "OK", "ERROR", "NOT_FOUND", "value"},
                     key : Keys \cup {0},
                     value : Values \cup {Absent}]
    BY DEF NoReply
  <2> QED  BY <1>4, <2>1 DEF Write, ControlOK, memory, disk
<1>5. ASSUME Load PROVE ControlOK'
  <2>1. LoadedData(manifest, files, wal) \in Map
    BY LoadedDataType DEF ControlOK, ManifestsOK, FilesOK
  <2> QED  BY <1>5, <2>1 DEF Load, ControlOK, disk, bounds
<1>6. ASSUME LoadFails PROVE ControlOK'
  BY <1>6 DEF LoadFails, ControlOK, disk, bounds
<1>7. ASSUME AppendRecord PROVE ControlOK'
  <2>1. req.key \in Keys /\ req.entry \in Entry
    BY <1>7 DEF AppendRecord, ControlOK
  <2>2. Record(req.key, req.entry) \in Records
    BY <2>1 DEF Record, Records
  <2>3. wal' \in Seq(Records)
    BY <1>7, <2>2 DEF AppendRecord, ControlOK
  <2>4. mem' \in Map
    BY <1>7, <2>1 DEF AppendRecord, ControlOK, Map
  <2> QED  BY <1>7, <2>3, <2>4 DEF AppendRecord, ControlOK, bounds
<1>8. ASSUME AppendFails PROVE ControlOK'
  <2>1. req.key \in Keys /\ req.entry \in Entry /\ pc \in Writing
    BY <1>8 DEF AppendFails, ControlOK
  <2>2. \A g \in Gaps : TornRecord(req.key, req.entry, g) \in Records
    BY <2>1, StorageAssumption DEF TornRecord, Records
  <2>3. wal' \in Seq(Records)
    <3>1. CASE UNCHANGED wal
      BY <3>1 DEF ControlOK
    <3>2. CASE \E g \in Gaps : wal' = Append(wal, TornRecord(req.key, req.entry, g))
      BY <2>2, <3>2 DEF ControlOK
    <3> QED  BY <1>8, <3>1, <3>2 DEF AppendFails
  <2>4. faults' \in Nat
    BY <1>8, FaultType DEF AppendFails, ControlOK
  <2>5. stream' \in {"open", "closed", "bad"}
    BY <1>8 DEF AppendFails, ControlOK
  <2>6. Return("ERROR")
    BY <1>8 DEF AppendFails
  <2> QED  BY <1>8, <2>1, <2>3, <2>4, <2>5, <2>6, ReturnType
           DEF AppendFails, ControlOK
<1>9. ASSUME NoFlush PROVE ControlOK'
  BY <1>9, ReturnType DEF NoFlush, ControlOK, memory, disk, bounds
<1>10. ASSUME StartFlush PROVE ControlOK'
  BY <1>10 DEF StartFlush, ControlOK, memory, disk, bounds
<1>11. ASSUME FlushWrite PROVE ControlOK'
  BY <1>11 DEF FlushWrite, ControlOK, memory, bounds
<1>12. ASSUME FlushPublish PROVE ControlOK'
  BY <1>12 DEF FlushPublish, ControlOK, bounds
<1>13. ASSUME FlushReset PROVE ControlOK'
  <2>1. mem' \in Map /\ wal' \in Seq(Records)
    BY <1>13 DEF FlushReset, EmptyMap, Map
  <2>2. CASE pc' = "compact_write" /\ UNCHANGED <<req, reply>>
    BY <1>13, <2>1, <2>2 DEF FlushReset, ControlOK, bounds
  <2>3. CASE Return("OK")
    BY <1>13, <2>1, <2>3, ReturnType DEF FlushReset, ControlOK, bounds
  <2> QED  BY <1>13, <2>2, <2>3 DEF FlushReset
<1>14. ASSUME FlushResetFails PROVE ControlOK'
  <2>1. wal' \in Seq(Records)
    <3>1. wal \in Seq(Records) /\ << >> \in Seq(Records)
      BY DEF ControlOK
    <3> QED  BY <1>14, <3>1 DEF FlushResetFails
  <2>2. faults' \in Nat
    BY <1>14, FaultType DEF FlushResetFails
  <2> QED  BY <1>14, <2>1, <2>2, ReturnType DEF FlushResetFails, ControlOK
<1>15. ASSUME CompactWrite PROVE ControlOK'
  BY <1>15 DEF CompactWrite, ControlOK, memory, bounds
<1>16. ASSUME CompactUnreadable PROVE ControlOK'
  BY <1>16, ReturnType DEF CompactUnreadable, ControlOK, memory, disk, bounds
<1>17. ASSUME CompactPublish PROVE ControlOK'
  BY <1>17 DEF CompactPublish, ControlOK, bounds
<1>18. ASSUME CompactRetire PROVE ControlOK'
  BY <1>18 DEF CompactRetire, ControlOK, bounds
<1>19. ASSUME CompactRetireFails PROVE ControlOK'
  <2>1. faults' \in Nat
    BY <1>19, FaultType DEF CompactRetireFails
  <2> QED  BY <1>19, <2>1, ReturnType DEF CompactRetireFails, ControlOK, memory, disk
<1>20. ASSUME CompactUnlink PROVE ControlOK'
  BY <1>20, ReturnType DEF CompactUnlink, ControlOK, memory, bounds
<1>21. ASSUME WriteFails PROVE ControlOK'
  <2>1. faults' \in Nat /\ pc \in Writing
    BY <1>21, FaultType DEF WriteFails
  <2> QED  BY <1>21, <2>1, ReturnType DEF WriteFails, ControlOK, memory
<1>22. ASSUME PublishFails PROVE ControlOK'
  <2>1. faults' \in Nat /\ pc \in Writing
    BY <1>22, FaultType DEF PublishFails
  <2> QED  BY <1>22, <2>1, ReturnType DEF PublishFails, ControlOK
<1>23. ASSUME Ends, wal' \in Seq(Records),
              writes' \in Nat, crashes' \in Nat, faults' \in Nat
       PROVE  ControlOK'
  <2>1. mem' \in Map
    BY <1>23 DEF Ends, EmptyMap, Map
  <2>2. reply' \in [status : {"none", "OK", "ERROR", "NOT_FOUND", "value"},
                    key : Keys \cup {0},
                    value : Values \cup {Absent}]
    BY <1>23 DEF Ends, NoReply
  <2> QED  BY <1>23, <2>1, <2>2 DEF Ends, ControlOK
<1>24. ASSUME Crash PROVE ControlOK'
  <2>1. wal' \in Seq(Records)
    <3>1. CASE UNCHANGED wal
      BY <3>1 DEF ControlOK
    <3>2. CASE /\ pc = "append"
               /\ \E g \in Gaps :
                    wal' = Append(wal, TornRecord(req.key, req.entry, g))
      <4>1. req.key \in Keys /\ req.entry \in Entry
        BY <3>2 DEF ControlOK
      <4>2. \A g \in Gaps : TornRecord(req.key, req.entry, g) \in Records
        BY <4>1, StorageAssumption DEF TornRecord, Records
      <4> QED  BY <3>2, <4>2 DEF ControlOK
    <3> QED  BY <1>24, <3>1, <3>2 DEF Crash
  <2>2. Ends /\ writes' \in Nat /\ crashes' \in Nat /\ faults' \in Nat
    BY <1>24 DEF Crash, ControlOK
  <2> QED  BY <1>23, <2>1, <2>2
<1>25. ASSUME Shutdown PROVE ControlOK'
  <2>1. wal' \in Seq(Records)
    <3>1. CASE UNCHANGED wal
      BY <3>1 DEF ControlOK
    <3>2. CASE /\ stream = "bad"
               /\ \E g \in Gaps \cup {0} :
                    wal' = Append(wal, TornRecord(kept.key, kept.entry, g))
      <4>1. kept.key \in Keys /\ kept.entry \in Entry
        BY <3>2 DEF StreamOK
      <4>2. \A g \in Gaps \cup {0} : TornRecord(kept.key, kept.entry, g) \in Records
        BY <4>1, StorageAssumption DEF TornRecord, Records
      <4> QED  BY <3>2, <4>2 DEF ControlOK
    <3> QED  BY <1>25, <3>1, <3>2 DEF Shutdown
  <2>2. Ends /\ writes' \in Nat /\ crashes' \in Nat /\ faults' \in Nat
    BY <1>25 DEF Shutdown, ControlOK, bounds
  <2> QED  BY <1>23, <2>1, <2>2
<1>26. ASSUME UNCHANGED vars PROVE ControlOK'
  BY <1>26 DEF vars, memory, disk, bounds, ControlOK
<1> QED
  BY <1>1, <1>2, <1>3, <1>4, <1>5, <1>6, <1>7, <1>8, <1>9, <1>10, <1>11, <1>12,
     <1>13, <1>14, <1>15, <1>16, <1>17, <1>18, <1>19, <1>20, <1>21, <1>22,
     <1>24, <1>25, <1>26 DEF Next, Step

\* A stream has kept a write exactly when it is bad, and then the process is
\* between two calls or about to refuse the next write.
LEMMA StreamStep ==
    ASSUME ControlOK, StreamOK, [Next]_vars
    PROVE  StreamOK'
<1> USE DEF Writing
<1>1. ASSUME stream' # "bad", kept' = NoRequest PROVE StreamOK'
  BY <1>1 DEF StreamOK
<1>2. ASSUME UNCHANGED <<stream, kept>>, stream = "bad" => pc' \in {"ready", "append"}
      PROVE  StreamOK'
  BY <1>2 DEF StreamOK
<1>3. ASSUME AppendFails PROVE StreamOK'
  <2>1. req \in [key : Keys, entry : Entry] /\ pc' = "ready"
    BY <1>3 DEF AppendFails, Return, ControlOK
  <2>2. UNCHANGED <<stream, kept>> \/ (stream' = "bad" /\ kept' = req)
    BY <1>3 DEF AppendFails
  <2> QED  BY <1>2, <2>1, <2>2 DEF StreamOK
<1>4. ASSUME Crash \/ Shutdown PROVE StreamOK'
  BY <1>1, <1>4 DEF Crash, Shutdown, Ends
<1>5. ASSUME NEW k \in Keys, Get(k) PROVE StreamOK'
  BY <1>2, <1>5 DEF Get, memory
<1>6. ASSUME NEW k \in Keys, NEW e \in Entry, Write(k, e) PROVE StreamOK'
  BY <1>2, <1>6 DEF Write, memory
<1>7. ASSUME \/ Initialize \/ Load \/ LoadFails \/ AppendRecord \/ FlushReset
             \/ FlushResetFails
      PROVE  StreamOK'
  <2>1. stream # "bad" /\ kept = NoRequest
    BY <1>7 DEF Initialize, Load, LoadFails, AppendRecord, FlushReset,
                FlushResetFails, StreamOK
  <2>2. stream' # "bad" /\ kept' = kept
    BY <1>7, <2>1 DEF Initialize, Load, LoadFails, AppendRecord, FlushReset,
                FlushResetFails
  <2> QED  BY <1>1, <2>1, <2>2
<1>8. ASSUME \/ InitializeFails \/ NoFlush \/ StartFlush \/ FlushWrite \/ FlushPublish
             \/ CompactWrite \/ CompactUnreadable \/ CompactPublish \/ CompactRetire
             \/ CompactRetireFails \/ CompactUnlink \/ WriteFails \/ PublishFails
      PROVE  StreamOK'
  <2>1. stream # "bad"
    BY <1>8 DEF InitializeFails, NoFlush, StartFlush, FlushWrite, FlushPublish,
                CompactWrite, CompactUnreadable, CompactPublish, CompactRetire,
                CompactRetireFails, CompactUnlink, WriteFails, PublishFails, StreamOK
  <2>2. UNCHANGED <<stream, kept>>
    BY <1>8 DEF InitializeFails, NoFlush, StartFlush, FlushWrite, FlushPublish,
                CompactWrite, CompactUnreadable, CompactPublish, CompactRetire,
                CompactRetireFails, CompactUnlink, WriteFails, PublishFails, memory
  <2> QED  BY <1>2, <2>1, <2>2
<1>9. ASSUME UNCHANGED vars PROVE StreamOK'
  BY <1>9 DEF vars, memory, StreamOK
<1> QED
  BY <1>3, <1>4, <1>5, <1>6, <1>7, <1>8, <1>9 DEF Next, Step

\* Publishing the file that was written under next_table_id_.
LEMMA PublishOrdered ==
    ASSUME ManifestsOK, PublishTable
    PROVE  /\ manifest' \in Manifests /\ Ordered(manifest')
           /\ manifestFile' = manifest'
           /\ TableIds(manifest') = TableIds(manifest) \cup {manifest.next}
<1> DEFINE t == Metadata(manifest.next, files[manifest.next])
<1>1. manifest.next \in Nat
  BY ManifestParts DEF ManifestsOK
<1>2. t \in Table /\ t.id = manifest.next
  BY <1>1, MetadataType
<1>3. manifest' = AddTable(manifest, t) /\ manifestFile' = manifest'
  BY DEF PublishTable
<1> HIDE DEF t
<1> QED  BY <1>2, <1>3, AddTableOrdered DEF ManifestsOK

\* Both manifests stay well formed and ordered.
LEMMA ManifestsStep ==
    ASSUME ManifestsOK, FilesOK, [Next]_vars
    PROVE  ManifestsOK'
<1>1. ASSUME Initialize PROVE ManifestsOK'
  <2>1. Rebuild(files) \in Manifests /\ Ordered(Rebuild(files))
    BY RebuildOrdered DEF FilesOK
  <2>2. /\ RecoveredManifest(manifestFile, files, torn) \in Manifests
        /\ Ordered(RecoveredManifest(manifestFile, files, torn))
    BY <2>1 DEF RecoveredManifest, ManifestsOK
  <2> QED  BY <1>1, <2>2 DEF Initialize, ManifestsOK
<1>2. ASSUME LoadFails \/ Crash \/ Shutdown PROVE ManifestsOK'
  <2>1. manifest' = NewManifest /\ manifestFile' = manifestFile
    BY <1>2 DEF LoadFails, Crash, Shutdown, Ends, disk
  <2> QED  BY <2>1, NewManifestOrdered DEF ManifestsOK
<1>3. ASSUME FlushPublish \/ CompactPublish PROVE ManifestsOK'
  <2>1. PublishTable
    BY <1>3 DEF FlushPublish, CompactPublish
  <2> QED  BY <2>1, PublishOrdered DEF ManifestsOK
<1>4. ASSUME CompactRetire PROVE ManifestsOK'
  <2>1. /\ RemoveTables(manifest, OldIds) \in Manifests
        /\ Ordered(RemoveTables(manifest, OldIds))
    BY RemoveTablesOrdered DEF ManifestsOK
  <2> QED  BY <1>4, <2>1 DEF CompactRetire, ManifestsOK
<1>5. ASSUME PublishFails PROVE ManifestsOK'
  <2> DEFINE t == Metadata(manifest.next, files[manifest.next])
  <2>1. t \in Table /\ t.id = manifest.next
    BY ManifestParts, MetadataType DEF ManifestsOK
  <2>2. manifest' = UndoAddTable(manifest, t) /\ manifestFile' = manifestFile
    BY <1>5 DEF PublishFails
  <2> HIDE DEF t
  <2> QED  BY <2>1, <2>2, UndoAddTableOrdered DEF ManifestsOK
<1>6. ASSUME UNCHANGED <<manifest, manifestFile>> PROVE ManifestsOK'
  BY <1>6 DEF ManifestsOK
<1>7. ASSUME NEW k \in Keys, Get(k) PROVE ManifestsOK'
  BY <1>6, <1>7 DEF Get, memory, disk
<1>8. ASSUME NEW k \in Keys, NEW e \in Entry, Write(k, e) PROVE ManifestsOK'
  BY <1>6, <1>8 DEF Write, memory, disk
<1>9. ASSUME \/ InitializeFails \/ Load \/ AppendRecord \/ AppendFails
             \/ NoFlush \/ StartFlush \/ FlushWrite \/ FlushReset
             \/ FlushResetFails \/ CompactWrite \/ CompactUnreadable
             \/ CompactRetireFails \/ CompactUnlink \/ WriteFails
             \/ UNCHANGED vars
      PROVE  ManifestsOK'
  <2>1. UNCHANGED <<manifest, manifestFile>>
    BY <1>9 DEF InitializeFails, Load, AppendRecord, AppendFails, NoFlush,
                StartFlush, FlushWrite, FlushReset, FlushResetFails,
                CompactWrite, CompactUnreadable, CompactRetireFails,
                CompactUnlink, WriteFails, vars, memory, disk
  <2> QED  BY <1>6, <2>1
<1> QED
  BY <1>1, <1>2, <1>3, <1>4, <1>5, <1>7, <1>8, <1>9 DEF Next, Step

\* The table files stay readable or recognisably torn.
LEMMA FilesStep ==
    ASSUME ControlOK, ManifestsOK, FilesOK, [Next]_vars
    PROVE  FilesOK'
<1>1. manifest.next \in Nat
  BY ManifestParts DEF ManifestsOK
<1>2. ASSUME FlushWrite PROVE FilesOK'
  <2>1. mem \in Map /\ WriteFile(manifest.next, mem)
    BY <1>2 DEF FlushWrite, ControlOK
  <2> QED  BY <1>1, <2>1, WriteFileOK
<1>3. ASSUME CompactWrite PROVE FilesOK'
  <2>1. Merge(Contents(manifest, files)) \in Map
    BY ContentsType DEF ManifestsOK, FilesOK
  <2>2. Compacted \in Map
    BY <2>1 DEF Compacted, DropTombstones, Map
  <2>3. WriteFile(manifest.next, Compacted)
    BY <1>3 DEF CompactWrite
  <2> QED  BY <1>1, <2>2, <2>3, WriteFileOK
<1>4. ASSUME CompactUnlink PROVE FilesOK'
  BY <1>4, RemoveFilesOK DEF CompactUnlink
<1>5. ASSUME PublishFails PROVE FilesOK'
  BY <1>5, RemoveFilesOK DEF PublishFails
<1>6. ASSUME UNCHANGED <<files, torn>> PROVE FilesOK'
  BY <1>6 DEF FilesOK
<1>7. ASSUME WriteFails \/ Crash PROVE FilesOK'
  <2>1. UNCHANGED <<files, torn>> \/ TearFile(manifest.next)
    BY <1>7 DEF WriteFails, Crash
  <2> QED  BY <1>1, <1>6, <2>1, TearFileOK
<1>8. ASSUME NEW k \in Keys, Get(k) PROVE FilesOK'
  BY <1>6, <1>8 DEF Get, disk
<1>9. ASSUME NEW k \in Keys, NEW e \in Entry, Write(k, e) PROVE FilesOK'
  BY <1>6, <1>9 DEF Write, disk
<1>10. ASSUME \/ Initialize \/ InitializeFails \/ Load \/ LoadFails
              \/ AppendRecord \/ AppendFails \/ NoFlush \/ StartFlush
              \/ FlushPublish \/ FlushReset \/ FlushResetFails
              \/ CompactUnreadable \/ CompactPublish \/ CompactRetire
              \/ CompactRetireFails \/ Shutdown \/ UNCHANGED vars
       PROVE  FilesOK'
  <2>1. UNCHANGED <<files, torn>>
    BY <1>10 DEF Initialize, InitializeFails, Load, LoadFails, AppendRecord,
                 AppendFails, NoFlush, StartFlush, FlushPublish, FlushReset,
                 FlushResetFails, CompactUnreadable, CompactPublish,
                 CompactRetire, CompactRetireFails, Shutdown, vars, disk
  <2> QED  BY <1>6, <2>1
<1> QED
  BY <1>2, <1>3, <1>4, <1>5, <1>7, <1>8, <1>9, <1>10 DEF Next, Step

\* While the process runs, next_table_id_ belongs to no listed table.
LEMMA NextIdIsFresh ==
    ASSUME ManifestsOK, ListedOK, Running
    PROVE  /\ TableIds(manifest) = TableIds(manifestFile)
           /\ manifest.next \notin TableIds(manifestFile)
<1>1. TableIds(manifest) = TableIds(manifestFile)
  BY DEF ListedOK, TableIds
<1>2. \A i \in DOMAIN manifest.tables :
        /\ manifest.tables[i].id \in Nat
        /\ manifest.tables[i].id < manifest.next
  BY ManifestParts DEF ManifestsOK, Ordered
<1>3. manifest.next \in Nat
  BY ManifestParts DEF ManifestsOK
<1>4. \A i \in DOMAIN manifest.tables : manifest.tables[i].id # manifest.next
  BY <1>2, <1>3
<1>5. manifest.next \notin TableIds(manifest)
  BY <1>4 DEF TableIds
<1> QED  BY <1>1, <1>5

\* The manifests, the files and the leftovers keep belonging together.
LEMMA ListedStep ==
    ASSUME ControlOK, ManifestsOK, FilesOK, ListedOK, [Next]_vars
    PROVE  ListedOK'
<1> USE DEF Running, Publishing, Writing
<1>1. manifest.next \in Nat
  BY ManifestParts DEF ManifestsOK
<1>2. ASSUME Initialize PROVE ListedOK'
  <2> DEFINE m == RecoveredManifest(manifestFile, files, torn)
  <2>1. TableIds(m) \subseteq DOMAIN files
    <3>1. CASE MissingTable(manifestFile, files, torn)
      BY <3>1, RebuildOrdered DEF RecoveredManifest, FilesOK
    <3>2. CASE ~MissingTable(manifestFile, files, torn)
      BY <3>2 DEF RecoveredManifest, MissingTable, ListedOK
    <3> QED  BY <3>1, <3>2
  <2>2. /\ manifest' = m /\ manifestFile' = m /\ pc' = "load"
        /\ files' = files /\ torn' = torn
    BY <1>2 DEF Initialize
  <2> HIDE DEF m
  <2> QED  BY <2>1, <2>2 DEF ListedOK, FilesOK
<1>3. ASSUME LoadFails \/ InitializeFails \/ Shutdown PROVE ListedOK'
  BY <1>3 DEF LoadFails, InitializeFails, Shutdown, Ends, ListedOK, disk
<1>4. ASSUME Crash PROVE ListedOK'
  <2>1. pc' = "down" /\ manifestFile' = manifestFile
    BY <1>4 DEF Crash, Ends
  <2>2. torn' = torn \/ (Running /\ torn' = torn \cup {manifest.next})
    BY <1>4 DEF Crash, TearFile
  <2>3. TableIds(manifestFile) \cap torn' = {}
    BY <2>2, NextIdIsFresh DEF ListedOK
  <2> QED  BY <2>1, <2>3 DEF ListedOK
<1>5. ASSUME FlushWrite PROVE ListedOK'
  <2>1. mem \in Map /\ WriteFile(manifest.next, mem)
    BY <1>5 DEF FlushWrite, ControlOK
  <2>2. DOMAIN files' = DOMAIN files \cup {manifest.next} /\ torn' \subseteq torn
    BY <1>1, <2>1, WriteFileOK
  <2> QED  BY <1>5, <2>2 DEF FlushWrite, ListedOK, memory
<1>6. ASSUME CompactWrite PROVE ListedOK'
  <2>1. DOMAIN files' = DOMAIN files \cup {manifest.next} /\ torn' \subseteq torn
    BY <1>6 DEF CompactWrite, WriteFile
  <2> QED  BY <1>6, <2>1 DEF CompactWrite, ListedOK, memory
<1>7. ASSUME FlushPublish \/ CompactPublish PROVE ListedOK'
  <2>1. PublishTable /\ Running /\ Publishing
    BY <1>7 DEF FlushPublish, CompactPublish
  <2>2. /\ manifestFile' = manifest'
        /\ TableIds(manifest') = TableIds(manifest) \cup {manifest.next}
    BY <2>1, PublishOrdered
  <2>3. TableIds(manifest') \cap torn = {}
    BY <2>1, <2>2, NextIdIsFresh DEF ListedOK, FilesOK
  <2> QED  BY <1>7, <2>2, <2>3 DEF FlushPublish, CompactPublish, ListedOK
<1>8. ASSUME CompactRetire PROVE ListedOK'
  <2>1. TableIds(manifest') \subseteq TableIds(manifest) /\ manifestFile' = manifest'
    BY <1>8, RemoveTablesOrdered DEF CompactRetire, ManifestsOK
  <2>2. TableIds(manifest) = TableIds(manifestFile)
    BY <1>8, NextIdIsFresh DEF CompactRetire
  <2>3. TableIds(manifestFile') \cap torn = {}
    BY <2>1, <2>2 DEF ListedOK
  <2> QED  BY <1>8, <2>1, <2>3 DEF CompactRetire, ListedOK
<1>9. ASSUME CompactUnlink PROVE ListedOK'
  <2>1. torn' \subseteq torn
    BY <1>9, RemoveFilesOK DEF CompactUnlink
  <2> QED  BY <1>9, <2>1 DEF CompactUnlink, Return, ListedOK, memory
<1>10. ASSUME WriteFails PROVE ListedOK'
  <2>1. Running /\ (torn' = torn \/ torn' = torn \cup {manifest.next})
    BY <1>10 DEF WriteFails, TearFile
  <2>2. TableIds(manifestFile) \cap torn' = {}
    BY <2>1, NextIdIsFresh DEF ListedOK
  <2> QED  BY <1>10, <2>2 DEF WriteFails, Return, ListedOK, memory
<1>11. ASSUME PublishFails PROVE ListedOK'
  <2> DEFINE t == Metadata(manifest.next, files[manifest.next])
  <2>1. t \in Table /\ t.id = manifest.next
    BY <1>1, MetadataType
  <2>2. manifest' = UndoAddTable(manifest, t)
    BY <1>11 DEF PublishFails
  <2> HIDE DEF t
  <2>3. manifest'.tables = manifest.tables
    BY <2>1, <2>2, UndoAddTableOrdered DEF ManifestsOK
  <2>4. torn' \subseteq torn
    BY <1>11, RemoveFilesOK DEF PublishFails
  <2> QED  BY <1>11, <2>3, <2>4 DEF PublishFails, Return, ListedOK
<1>12. ASSUME UNCHANGED <<manifest, manifestFile, files, torn>>,
              pc' # "load", ~Publishing', Running' => Running
       PROVE  ListedOK'
  BY <1>12 DEF ListedOK
<1>13. ASSUME NEW k \in Keys, Get(k) PROVE ListedOK'
  BY <1>12, <1>13 DEF Get, memory, disk
<1>14. ASSUME NEW k \in Keys, NEW e \in Entry, Write(k, e) PROVE ListedOK'
  BY <1>12, <1>14 DEF Write, memory, disk
<1>15. ASSUME Load \/ AppendRecord \/ AppendFails \/ NoFlush \/ StartFlush
       PROVE  ListedOK'
  BY <1>12, <1>15 DEF Load, AppendRecord, AppendFails, NoFlush, StartFlush,
                      Return, memory, disk
<1>16. ASSUME FlushReset \/ FlushResetFails \/ CompactUnreadable \/ CompactRetireFails
       PROVE  ListedOK'
  BY <1>12, <1>16 DEF FlushReset, FlushResetFails, CompactUnreadable,
                      CompactRetireFails, Return, memory, disk
<1>17. ASSUME UNCHANGED vars PROVE ListedOK'
  BY <1>17 DEF vars, memory, disk, ListedOK
<1> QED
  BY <1>2, <1>3, <1>4, <1>5, <1>6, <1>7, <1>8, <1>9, <1>10, <1>11, <1>13, <1>14,
     <1>15, <1>16, <1>17 DEF Next, Step

-----------------------------------------------------------------------------
(***************************************************************************)
(* The theorems.                                                           *)
(***************************************************************************)

\* StorageInv holds in every state the storage engine reaches.
THEOREM StorageInvariant == Spec => []StorageInv
<1>1. Init => StorageInv
  BY InitStorageInv
<1>2. StorageInv /\ [Next]_vars => StorageInv'
  <2> SUFFICES ASSUME StorageInv, [Next]_vars PROVE StorageInv'
    OBVIOUS
  <2>1. ControlOK /\ StreamOK /\ ManifestsOK /\ FilesOK /\ ListedOK
    BY StorageInvParts
  <2>2. ControlOK' /\ StreamOK' /\ ManifestsOK' /\ FilesOK' /\ ListedOK'
    BY <2>1, ControlStep, StreamStep, ManifestsStep, FilesStep, ListedStep
  <2> QED
    BY <2>2 DEF StorageInv, TypeOK, ManifestIsOrdered, TablesAreLoadable,
                AllReadable, ControlOK, StreamOK, ManifestsOK, FilesOK, ListedOK,
                Publishing
<1> QED  BY <1>1, <1>2, PTL DEF Spec

\* Every variable keeps its type: Database, Storage and Manifest only ever
\* hold states the code's types and tests admit.
THEOREM TypeCorrect == Spec => []TypeOK
<1>1. StorageInv => TypeOK
  BY DEF StorageInv
<1> QED  BY <1>1, StorageInvariant, PTL

\* The tables of the MANIFEST are in the order of their ids and
\* next_table_id_ is above all of them, in memory and on disk, whatever
\* calls to add_table, remove_tables and rebuild_from_directory failed.
THEOREM ManifestOrderTheorem == Spec => []ManifestIsOrdered
<1>1. StorageInv => ManifestIsOrdered
  BY DEF StorageInv
<1> QED  BY <1>1, StorageInvariant, PTL

\* Storage::load never fails because a table the MANIFEST lists is missing
\* or does not parse, wherever the process died before.
THEOREM LoadTheorem == Spec => []TablesAreLoadable
<1>1. StorageInv => TablesAreLoadable
  BY DEF StorageInv
<1> QED  BY <1>1, StorageInvariant, PTL

\* No step rewrites or truncates a table file that the MANIFEST on disk
\* lists: flushes and compactions, failed and interrupted ones included,
\* only touch the file of next_table_id_.
THEOREM ImmutabilityTheorem == Spec => TablesAreImmutable
<1> DEFINE Keeps ==
        \A id \in TableIds(manifestFile) \cap TableIds(manifestFile)' :
            /\ id \notin torn => id \notin torn'
            /\ id \in DOMAIN files \cap DOMAIN files' => files'[id] = files[id]
<1>1. StorageInv /\ [Next]_vars => [Keeps]_vars
  <2> SUFFICES ASSUME StorageInv, Next PROVE Keeps
    OBVIOUS
  <2>1. ControlOK /\ StreamOK /\ ManifestsOK /\ FilesOK /\ ListedOK
    BY StorageInvParts
  <2>2. manifest.next \in Nat
    BY <2>1, ManifestParts DEF ManifestsOK
  <2>3. CASE UNCHANGED <<files, torn>>
    BY <2>3
  <2>4. CASE FlushWrite \/ CompactWrite
    <3>1. /\ Running
          /\ torn' \subseteq torn
          /\ \A i \in DOMAIN files : i # manifest.next => files'[i] = files[i]
      BY <2>4 DEF FlushWrite, CompactWrite, WriteFile, Running, Writing
    <3>2. manifest.next \notin TableIds(manifestFile)
      BY <2>1, <3>1, NextIdIsFresh
    <3> QED  BY <3>1, <3>2
  <2>5. CASE WriteFails \/ Crash
    <3>1. \/ UNCHANGED <<files, torn>>
          \/ TearFile(manifest.next) /\ Running
      BY <2>5 DEF WriteFails, Crash, Running, Writing
    <3>2. ASSUME TearFile(manifest.next), Running PROVE Keeps
      <4>1. /\ torn' = torn \cup {manifest.next}
            /\ \A i \in DOMAIN files' : files'[i] = files[i]
        BY <2>1, <2>2, <3>2, TearFileOK
      <4>2. manifest.next \notin TableIds(manifestFile)
        BY <2>1, <3>2, NextIdIsFresh
      <4> QED  BY <4>1, <4>2
    <3> QED  BY <2>3, <3>1, <3>2
  <2>6. CASE CompactUnlink \/ PublishFails
    <3>1. torn' \subseteq torn /\ \A i \in DOMAIN files' : files'[i] = files[i]
      BY <2>1, <2>6, RemoveFilesOK DEF CompactUnlink, PublishFails
    <3> QED  BY <3>1
  <2>7. \/ UNCHANGED <<files, torn>>
        \/ FlushWrite \/ CompactWrite \/ WriteFails \/ Crash
        \/ CompactUnlink \/ PublishFails
    BY DEF Next, Step, Initialize, InitializeFails, Get, Write, Load, LoadFails,
           AppendRecord, AppendFails, NoFlush, StartFlush, FlushPublish,
           FlushReset, FlushResetFails, CompactUnreadable, CompactPublish,
           CompactRetire, CompactRetireFails, Shutdown, disk
  <2> QED  BY <2>3, <2>4, <2>5, <2>6, <2>7
<1> QED  BY <1>1, StorageInvariant, PTL DEF Spec, TablesAreImmutable

-----------------------------------------------------------------------------
(***************************************************************************)
(* A start is refused only after a compaction to nothing or a write behind *)
(* a torn record.  A flush never publishes an empty table, because the     *)
(* MemTable holds at least the entry of the current write.                 *)
(***************************************************************************)

\* From the append to the end of the flush the MemTable holds the entry of the
\* current write, and the table about to be published is the MemTable.
FlushesEntry ==
    /\ pc \in {"check", "flush_write", "flush_publish", "flush_reset"} =>
           mem[req.key] # Absent
    /\ pc = "flush_publish" => files[manifest.next] = mem

\* FlushesEntry is an invariant of its own.
LEMMA FlushesEntryStep ==
    ASSUME StorageInv, FlushesEntry, [Next]_vars
    PROVE  FlushesEntry'
<1>1. ASSUME pc' \notin {"check", "flush_write", "flush_publish", "flush_reset"}
      PROVE  FlushesEntry'
  BY <1>1 DEF FlushesEntry
<1>2. ASSUME AppendRecord PROVE FlushesEntry'
  <2>1. req.key \in Keys /\ req.entry \in Entry /\ mem \in Map
    BY <1>2 DEF AppendRecord, StorageInv, TypeOK, Writing
  <2>2. req.entry # Absent
    BY <2>1, SentinelAssumption DEF Entry
  <2>3. mem'[req'.key] = req.entry
    BY <1>2, <2>1 DEF AppendRecord, Map
  <2> QED  BY <1>2, <2>2, <2>3 DEF AppendRecord, FlushesEntry
<1>3. ASSUME StartFlush PROVE FlushesEntry'
  BY <1>3 DEF StartFlush, FlushesEntry, memory
<1>4. ASSUME FlushWrite PROVE FlushesEntry'
  <2>1. files'[manifest.next] = mem
    BY <1>4 DEF FlushWrite, WriteFile
  <2> QED  BY <1>4, <2>1 DEF FlushWrite, FlushesEntry, memory
<1>5. ASSUME FlushPublish PROVE FlushesEntry'
  BY <1>5 DEF FlushPublish, FlushesEntry
<1>6. ASSUME UNCHANGED vars PROVE FlushesEntry'
  BY <1>6 DEF vars, memory, disk, FlushesEntry
<1>7. ASSUME NEW k \in Keys, Get(k) PROVE FlushesEntry'
  BY <1>1, <1>7 DEF Get
<1>8. ASSUME NEW k \in Keys, NEW e \in Entry, Write(k, e) PROVE FlushesEntry'
  BY <1>1, <1>8 DEF Write
<1>9. ASSUME \/ Initialize \/ InitializeFails \/ Load \/ LoadFails \/ AppendFails
             \/ NoFlush \/ FlushReset \/ FlushResetFails \/ CompactWrite
             \/ CompactUnreadable \/ CompactPublish \/ CompactRetire
             \/ CompactRetireFails \/ CompactUnlink \/ WriteFails \/ PublishFails
             \/ Crash \/ Shutdown
      PROVE  FlushesEntry'
  <2>1. pc' \in {"load", "failed", "ready", "compact_write", "compact_publish",
                 "compact_retire", "compact_unlink", "down"}
    BY <1>9 DEF Initialize, InitializeFails, Load, LoadFails, AppendFails, NoFlush,
                FlushReset, FlushResetFails, CompactWrite, CompactUnreadable,
                CompactPublish, CompactRetire, CompactRetireFails, CompactUnlink,
                WriteFails, PublishFails, Crash, Shutdown, Ends, Return
  <2> QED  BY <1>1, <2>1
<1> QED
  BY <1>2, <1>3, <1>4, <1>5, <1>6, <1>7, <1>8, <1>9 DEF Next, Step

\* A map with an entry has a key range that is not empty, and so the metadata
\* of its table loads.
LEMMA PresentKeyInRange ==
    ASSUME NEW m, NEW k \in Keys, m[k] # Absent
    PROVE  KeyRange(m) # {}
<1>1. k \in Present(m) /\ k <= k
  BY KeysAssumption DEF Present
<1>2. k \in KeyRange(m)
  BY <1>1 DEF KeyRange
<1> QED  BY <1>2

\* rebuild_from_directory leaves out the tables that would not load.
LEMMA RebuildLoadable ==
    ASSUME NEW fs, DOMAIN fs \subseteq Nat, IsFiniteSet(DOMAIN fs)
    PROVE  Loadable(Rebuild(fs))
<1> DEFINE ids == RebuiltIds(fs)
           n == Cardinality(ids)
           r == RebuiltTables(fs)
<1>1. ids \subseteq Nat /\ IsFiniteSet(ids)
  BY FS_Subset DEF RebuiltIds
<1>2. \A id \in ids : KeyRange(fs[id]) # {}
  BY PresentKeyInRange DEF RebuiltIds, Present
<1> HIDE DEF ids
<1>3. \A i \in 1 .. n : Ascending(ids)[i] \in ids
  BY <1>1, AscendingIsSorted
<1> HIDE DEF n
<1>4. r = [i \in 1 .. n |-> Metadata(Ascending(ids)[i], fs[Ascending(ids)[i]])]
  BY DEF RebuiltTables, ids, n
<1>5. \A i \in 1 .. n : r[i].range = KeyRange(fs[Ascending(ids)[i]])
  BY <1>4 DEF Metadata
<1>6. DOMAIN r = 1 .. n /\ Rebuild(fs).tables = r
  BY <1>4 DEF Rebuild
<1> HIDE DEF r
<1> QED  BY <1>2, <1>3, <1>5, <1>6 DEF Loadable

\* remove_tables takes away entries of a MANIFEST that loads.
LEMMA RemoveTablesLoadable ==
    ASSUME NEW m \in Manifests, Loadable(m), NEW ids
    PROVE  Loadable(RemoveTables(m, ids))
<1> DEFINE P == {i \in DOMAIN m.tables : m.tables[i].id \notin ids}
           r == [i \in DOMAIN Ascending(P) |-> m.tables[Ascending(P)[i]]]
<1>1. RemoveTables(m, ids).tables = r
  BY DEF RemoveTables
<1>2. P \subseteq DOMAIN m.tables
  OBVIOUS
<1>3. Len(m.tables) \in Nat /\ DOMAIN m.tables = 1 .. Len(m.tables)
  BY ManifestParts
<1> HIDE DEF P
<1>4. P \subseteq Nat /\ IsFiniteSet(P)
  <2>1. IsFiniteSet(1 .. Len(m.tables))
    BY <1>3, FS_Interval
  <2> QED  BY <1>2, <1>3, <2>1, FS_Subset
<1>5. \A i \in DOMAIN Ascending(P) : Ascending(P)[i] \in P
  BY <1>4, AscendingIsSorted
<1>6. \A i \in DOMAIN r : r[i].range # {}
  BY <1>2, <1>5 DEF Loadable
<1> HIDE DEF r
<1> QED  BY <1>1, <1>6 DEF Loadable

\* A file that was published has the key range of its contents.
LEMMA PublishLoadable ==
    ASSUME ManifestsOK, Loadable(manifest), PublishTable,
           KeyRange(files[manifest.next]) # {}
    PROVE  Loadable(manifestFile')
<1> DEFINE t == Metadata(manifest.next, files[manifest.next])
<1>1. t.range # {}
  BY DEF Metadata
<1>2. manifestFile'.tables = Append(manifest.tables, t)
  BY DEF PublishTable, AddTable
<1>3. t \in Table
  BY ManifestParts, MetadataType DEF ManifestsOK
<1> HIDE DEF t
<1>4. manifest.tables \in Seq(Table)
  BY ManifestParts DEF ManifestsOK
<1>5. /\ DOMAIN manifestFile'.tables = 1 .. Len(manifest.tables) + 1
      /\ DOMAIN manifest.tables = 1 .. Len(manifest.tables)
      /\ \A i \in 1 .. Len(manifest.tables) : manifestFile'.tables[i] = manifest.tables[i]
      /\ manifestFile'.tables[Len(manifest.tables) + 1] = t
  BY <1>2, <1>3, <1>4
<1> QED  BY <1>1, <1>4, <1>5 DEF Loadable

\* The MANIFEST on disk stays loadable in every step but the publication of a
\* compacted table without entries.
LEMMA LoadableStep ==
    ASSUME StorageInv, FlushesEntry, Next, Loadable(manifestFile),
           ~(pc = "compact_publish" /\ files[manifest.next] = EmptyMap)
    PROVE  Loadable(manifestFile')
<1>1. ControlOK /\ ManifestsOK /\ FilesOK /\ ListedOK
  BY StorageInvParts
<1>2. Running => Loadable(manifest)
  BY <1>1 DEF ListedOK, Loadable
<1>3. CASE Initialize
  <2>1. Loadable(Rebuild(files))
    BY <1>1, RebuildLoadable DEF FilesOK
  <2> QED  BY <1>3, <2>1 DEF Initialize, RecoveredManifest
<1>4. CASE FlushPublish
  <2>1. req.key \in Keys /\ files[manifest.next][req.key] # Absent
    BY <1>1, <1>4 DEF FlushPublish, FlushesEntry, ControlOK, Writing
  <2>2. KeyRange(files[manifest.next]) # {}
    BY <2>1, PresentKeyInRange
  <2>3. PublishTable /\ Running
    BY <1>4 DEF FlushPublish, Running, Writing
  <2> QED  BY <1>1, <1>2, <2>2, <2>3, PublishLoadable
<1>5. CASE CompactPublish
  <2>1. PublishTable /\ Running /\ Publishing /\ files[manifest.next] # EmptyMap
    BY <1>5 DEF CompactPublish, Running, Writing, Publishing
  <2>2. files[manifest.next] \in Map
    BY <1>1, <2>1 DEF ListedOK, FilesOK
  <2>3. \E k \in Keys : files[manifest.next][k] # Absent
    BY <2>1, <2>2 DEF Map, EmptyMap
  <2>4. KeyRange(files[manifest.next]) # {}
    BY <2>3, PresentKeyInRange
  <2> QED  BY <1>1, <1>2, <2>1, <2>4, PublishLoadable
<1>6. CASE CompactRetire
  <2>1. Running /\ manifestFile' = RemoveTables(manifest, OldIds)
    BY <1>6 DEF CompactRetire, Running, Writing
  <2> QED  BY <1>1, <1>2, <2>1, RemoveTablesLoadable DEF ManifestsOK
<1>7. CASE UNCHANGED manifestFile
  BY <1>7
<1>8. \/ Initialize \/ FlushPublish \/ CompactPublish \/ CompactRetire
      \/ UNCHANGED manifestFile
  BY DEF Next, Step, InitializeFails, Get, Write, Load, LoadFails, AppendRecord,
         AppendFails, NoFlush, StartFlush, FlushWrite, FlushReset, FlushResetFails,
         CompactWrite, CompactUnreadable, CompactRetireFails, CompactUnlink,
         WriteFails, PublishFails, Crash, Shutdown, disk
<1> QED  BY <1>3, <1>4, <1>5, <1>6, <1>7, <1>8

\* Whatever a crash left, the manifest Storage::initialize ends up with lists
\* only files that can be read.
LEMMA RecoveredIsReadable ==
    ASSUME NEW mf, NEW fs, DOMAIN fs \subseteq Nat, IsFiniteSet(DOMAIN fs),
           NEW tn, TableIds(mf) \cap tn = {}
    PROVE  AllReadable(RecoveredManifest(mf, fs, tn), fs)
<1>1. CASE MissingTable(mf, fs, tn)
  BY <1>1, RebuildOrdered DEF RecoveredManifest, AllReadable
<1>2. CASE ~MissingTable(mf, fs, tn)
  BY <1>2 DEF RecoveredManifest, MissingTable, AllReadable
<1> QED  BY <1>1, <1>2

\* The log is emptied, left alone, or gets one more record.
WalGrows ==
    \/ wal' \in {wal, << >>}
    \/ \E r \in Records : wal' = Append(wal, r)

\* Every step treats the log in one of these ways.
LEMMA WalStep ==
    ASSUME StorageInv, Next
    PROVE  WalGrows
<1>1. ASSUME pc = "append", NEW g \in Nat
      PROVE  TornRecord(req.key, req.entry, g) \in Records
  BY <1>1 DEF StorageInv, TypeOK, Writing, TornRecord, Records
<1>2. CASE AppendRecord
  <2>1. Record(req.key, req.entry) = TornRecord(req.key, req.entry, 0)
    BY DEF Record, TornRecord
  <2> QED  BY <1>1, <1>2, <2>1 DEF AppendRecord, WalGrows
<1>3. CASE AppendFails \/ Crash
  <2>1. \/ UNCHANGED wal
        \/ pc = "append" /\ \E g \in Gaps :
               wal' = Append(wal, TornRecord(req.key, req.entry, g))
    BY <1>3 DEF AppendFails, Crash
  <2> QED  BY <1>1, <2>1, StorageAssumption DEF WalGrows
<1>4. CASE Shutdown
  <2>1. stream = "bad" => kept \in [key : Keys, entry : Entry]
    BY DEF StorageInv, TypeOK
  <2>2. ASSUME stream = "bad", NEW g \in Nat
        PROVE  TornRecord(kept.key, kept.entry, g) \in Records
    BY <2>1, <2>2 DEF TornRecord, Records
  <2> QED  BY <1>4, <2>2, StorageAssumption DEF Shutdown, WalGrows
<1>5. CASE FlushReset \/ FlushResetFails
  BY <1>5 DEF FlushReset, FlushResetFails, WalGrows
<1>6. CASE UNCHANGED wal
  BY <1>6 DEF WalGrows
<1>7. \/ AppendRecord \/ AppendFails \/ Crash \/ Shutdown \/ FlushReset
      \/ FlushResetFails \/ UNCHANGED wal
  BY DEF Next, Step, Initialize, InitializeFails, Get, Write, Load, LoadFails,
         NoFlush, StartFlush, FlushWrite, FlushPublish, CompactWrite,
         CompactUnreadable, CompactPublish, CompactRetire, CompactRetireFails,
         CompactUnlink, WriteFails, PublishFails, disk
<1> QED  BY <1>2, <1>3, <1>4, <1>5, <1>6, <1>7

\* One record behind complete ones does not corrupt the log: nothing stands
\* behind a torn last record that recovery could take for its bytes.
LEMMA AppendNotCorrupted ==
    ASSUME NEW w \in Seq(Records), TornAt(w) = {}, NEW r \in Records
    PROVE  ~Corrupted(Append(w, r))
<1> DEFINE v == Append(w, r)
           n == Len(w) + 1
<1>1. /\ Len(w) \in Nat /\ DOMAIN w = 1 .. Len(w)
      /\ Len(v) = n /\ DOMAIN v = 1 .. n
      /\ \A i \in DOMAIN w : v[i] = w[i]
      /\ v[n] = r
  OBVIOUS
<1> HIDE DEF v
<1>2. TornAt(v) \subseteq {n}
  BY <1>1 DEF TornAt
<1>3. CASE TornAt(v) = {}
  BY <1>3 DEF Corrupted, v
<1>4. CASE TornAt(v) # {}
  <2>1. TornAt(v) = {n} /\ n \in TornAt(v)
    BY <1>2, <1>4
  <2>2. v[n].gap # 0 /\ v[n].gap \in Nat
    BY <1>1, <2>1 DEF TornAt, Records
  <2>3. Min(TornAt(v)) = n
    BY <1>1, <2>1 DEF Min
  <2>4. ~(Len(v) - n >= v[n].gap)
    BY <1>1, <2>2
  <2> QED  BY <2>3, <2>4 DEF Corrupted, v
<1> QED  BY <1>3, <1>4

\* Nothing but a write behind a torn record makes the log one that recover_wal
\* rejects.
LEMMA CorruptedStep ==
    ASSUME wal \in Seq(Records), WalGrows, Corrupted(wal'), ~Corrupted(wal)
    PROVE  TornAt(wal) # {} /\ Len(wal') > Len(wal)
<1>1. wal' # << >>
  BY DEF Corrupted, TornAt
<1>2. PICK r \in Records : wal' = Append(wal, r)
  BY <1>1 DEF WalGrows
<1>3. Len(wal') > Len(wal)
  BY <1>2
<1>4. TornAt(wal) # {}
  BY <1>2, AppendNotCorrupted
<1> QED  BY <1>3, <1>4

\* A start that is possible stays possible through every crash, every failure
\* and every step of a flush or a compaction, except that a compaction may
\* publish a table without entries and that a record may be written behind a
\* torn one.
THEOREM StartsTheorem == Spec => StartsStayPossible
<1> DEFINE Lasts ==
        Refused(manifestFile', files', torn', wal') =>
            \/ Refused(manifestFile, files, torn, wal)
            \/ pc = "compact_publish" /\ files[manifest.next] = EmptyMap
            \/ TornAt(wal) # {} /\ Len(wal') > Len(wal)
<1>1. Init => FlushesEntry
  BY DEF Init, FlushesEntry
<1>2. StorageInv /\ FlushesEntry /\ [Next]_vars => FlushesEntry'
  BY FlushesEntryStep
<1>3. StorageInv /\ StorageInv' /\ FlushesEntry /\ [Next]_vars => [Lasts]_vars
  <2> SUFFICES ASSUME StorageInv, StorageInv', FlushesEntry, Next PROVE Lasts
    OBVIOUS
  <2> SUFFICES ASSUME Refused(manifestFile', files', torn', wal'),
                      ~Refused(manifestFile, files, torn, wal),
                      ~(pc = "compact_publish" /\ files[manifest.next] = EmptyMap)
               PROVE  TornAt(wal) # {} /\ Len(wal') > Len(wal)
    OBVIOUS
  <2>1. Loadable(manifestFile')
    BY LoadableStep DEF Refused
  <2>2. AllReadable(RecoveredManifest(manifestFile', files', torn'), files')
    <3>1. /\ DOMAIN files' \subseteq Nat /\ IsFiniteSet(DOMAIN files')
          /\ TableIds(manifestFile') \cap torn' = {}
      BY DEF StorageInv, TypeOK
    <3> QED  BY <3>1, RecoveredIsReadable
  <2>3. Corrupted(wal') /\ ~Corrupted(wal)
    BY <2>1, <2>2 DEF Refused
  <2>4. wal \in Seq(Records) /\ WalGrows
    BY WalStep DEF StorageInv, TypeOK
  <2> QED  BY <2>3, <2>4, CorruptedStep
<1> QED  BY <1>1, <1>2, <1>3, StorageInvariant, PTL DEF Spec, StartsStayPossible
=============================================================================

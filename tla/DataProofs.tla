----------------------------- MODULE DataProofs -----------------------------
(***************************************************************************)
(* Proofs about the data ForgeDB keeps, again for every value of the       *)
(* constants: a read never returns an outdated or a vanished value, and    *)
(* the data in the files changes only when a record is appended.  The      *)
(* inductive invariant is DataInv, on top of StorageInv.  It allows        *)
(* Manifest::add_table to fail, as long as the process does not end with   *)
(* more than one failure since it last published a table (the run          *)
(* stale_table shows what two do).                                         *)
(***************************************************************************)
EXTENDS ForgeDBProofs

-----------------------------------------------------------------------------
(***************************************************************************)
(* The entry a key has in a set of table files: that of the file with the  *)
(* largest id among those that hold one.                                   *)
(***************************************************************************)
HoldersIn(fs, S, k) == {id \in S \cap DOMAIN fs : fs[id][k] # Absent}

Newest(fs, S, k) ==
    IF HoldersIn(fs, S, k) = {} THEN Absent ELSE fs[Max(HoldersIn(fs, S, k))][k]

\* What a reader sees of an entry.
Visible(e) == IF e = Absent THEN Tombstone ELSE e

Below(fs, n) == {id \in DOMAIN fs : id < n}

\* The files a restart reads: the listed ones, or all of them if a listed
\* one is gone and the MANIFEST is rebuilt.
Base(mf, fs) == IF AllReadable(mf, fs) THEN TableIds(mf) ELSE DOMAIN fs

\* What it finds for a key that is not in the WAL.
TableView(mf, fs, k) == Visible(Newest(fs, Base(mf, fs), k))

-----------------------------------------------------------------------------
(***************************************************************************)
(* Facts about Newest.                                                     *)
(***************************************************************************)

\* A set of table files as FilesOK has it.
TableFiles(fs) ==
    /\ DOMAIN fs \subseteq Nat
    /\ IsFiniteSet(DOMAIN fs)
    /\ \A id \in DOMAIN fs : fs[id] \in Map

\* Either no file holds the key, or Newest comes from the largest holder.
LEMMA NewestCases ==
    ASSUME NEW fs, TableFiles(fs), NEW S, NEW k \in Keys
    PROVE  \/ HoldersIn(fs, S, k) = {} /\ Newest(fs, S, k) = Absent
           \/ \E id \in HoldersIn(fs, S, k) :
                /\ \A j \in HoldersIn(fs, S, k) : j <= id
                /\ Newest(fs, S, k) = fs[id][k]
                /\ Newest(fs, S, k) # Absent
<1> DEFINE H == HoldersIn(fs, S, k)
<1>1. H \subseteq Nat /\ IsFiniteSet(H) /\ \A id \in H : fs[id][k] # Absent
  BY FS_Subset DEF HoldersIn, TableFiles
<1>2. Newest(fs, S, k) = IF H = {} THEN Absent ELSE fs[Max(H)][k]
  BY DEF Newest
<1> HIDE DEF H
<1>3. CASE H = {}
  BY <1>2, <1>3 DEF H
<1>4. CASE H # {}
  <2>1. Max(H) \in H /\ \A y \in H : Max(H) >= y
    BY <1>1, <1>4, MaxIsLargest
  <2>2. \A y \in H : y <= Max(H)
    BY <1>1, <2>1
  <2> QED  BY <1>1, <1>2, <1>4, <2>1, <2>2 DEF H
<1> QED  BY <1>3, <1>4

\* The largest holder determines Newest.
LEMMA NewestIs ==
    ASSUME NEW fs, TableFiles(fs), NEW S, NEW k \in Keys,
           NEW id \in HoldersIn(fs, S, k),
           \A j \in HoldersIn(fs, S, k) : j <= id
    PROVE  Newest(fs, S, k) = fs[id][k] /\ fs[id][k] # Absent
<1>1. HoldersIn(fs, S, k) \subseteq Nat /\ fs[id][k] # Absent
  BY DEF HoldersIn, TableFiles
<1>2. PICK x \in HoldersIn(fs, S, k) :
        /\ \A j \in HoldersIn(fs, S, k) : j <= x
        /\ Newest(fs, S, k) = fs[x][k]
  BY NewestCases
<1>3. x = id
  BY <1>1, <1>2
<1> QED  BY <1>1, <1>2, <1>3

\* Newest depends only on the files that hold the key.
LEMMA NewestSame ==
    ASSUME NEW fs, NEW S, NEW gs, NEW T, NEW k \in Keys,
           TableFiles(fs), TableFiles(gs),
           HoldersIn(gs, T, k) = HoldersIn(fs, S, k),
           \A id \in HoldersIn(fs, S, k) : gs[id][k] = fs[id][k]
    PROVE  Newest(gs, T, k) = Newest(fs, S, k)
<1>1. CASE HoldersIn(fs, S, k) = {}
  BY <1>1 DEF Newest
<1>2. CASE HoldersIn(fs, S, k) # {}
  <2>1. PICK x \in HoldersIn(fs, S, k) :
            /\ \A j \in HoldersIn(fs, S, k) : j <= x
            /\ Newest(fs, S, k) = fs[x][k]
    BY <1>2, NewestCases
  <2>2. Newest(gs, T, k) = gs[x][k]
    BY <2>1, NewestIs
  <2> QED  BY <2>1, <2>2
<1> QED  BY <1>1, <1>2

\* A file that is newer than all the others overrides them where it has an
\* entry.
LEMMA NewestTop ==
    ASSUME NEW fs, NEW S, NEW gs, NEW T, NEW k \in Keys, NEW n \in Nat,
           TableFiles(fs), TableFiles(gs),
           n \in DOMAIN gs \cap T,
           HoldersIn(gs, T, k) \ {n} = HoldersIn(fs, S, k) \ {n},
           n \notin HoldersIn(fs, S, k),
           \A id \in HoldersIn(fs, S, k) : id < n /\ gs[id][k] = fs[id][k]
    PROVE  Newest(gs, T, k) = IF gs[n][k] = Absent THEN Newest(fs, S, k)
                                                   ELSE gs[n][k]
<1>1. CASE gs[n][k] = Absent
  <2>1. HoldersIn(gs, T, k) = HoldersIn(fs, S, k)
    BY <1>1 DEF HoldersIn
  <2>2. Newest(gs, T, k) = Newest(fs, S, k)
    BY <2>1, NewestSame
  <2> QED  BY <1>1, <2>2
<1>2. CASE gs[n][k] # Absent
  <2>1. n \in HoldersIn(gs, T, k)
    BY <1>2 DEF HoldersIn
  <2>2. \A j \in HoldersIn(gs, T, k) : j <= n
    <3> SUFFICES ASSUME NEW j \in HoldersIn(gs, T, k), j # n PROVE j <= n
      OBVIOUS
    <3>1. j \in HoldersIn(fs, S, k) /\ j \in Nat
      BY DEF HoldersIn, TableFiles
    <3>2. j < n
      BY <3>1
    <3> QED  BY <3>1, <3>2
  <2>3. Newest(gs, T, k) = gs[n][k]
    BY <2>1, <2>2, NewestIs
  <2> QED  BY <1>2, <2>3
<1> QED  BY <1>1, <1>2

\* An entry is what a map of Map can hold.
LEMMA NewestType ==
    ASSUME NEW fs, TableFiles(fs), NEW S, NEW k \in Keys
    PROVE  Newest(fs, S, k) \in Entry \cup {Absent}
<1>1. \A id \in HoldersIn(fs, S, k) : fs[id][k] \in Entry \cup {Absent}
  BY DEF HoldersIn, TableFiles, Map
<1> QED  BY <1>1, NewestCases

\* Holding a key is holding data.
LEMMA HoldersHaveData ==
    ASSUME NEW fs, NEW S, NEW k \in Keys
    PROVE  HoldersIn(fs, S, k) \subseteq RebuiltIds(fs) \cap S \cap DOMAIN fs
BY DEF HoldersIn, RebuiltIds, Present

-----------------------------------------------------------------------------
(***************************************************************************)
(* What Storage::load reads, in terms of Newest.                           *)
(***************************************************************************)

\* Copying the tables of an ordered manifest one over the other leaves every
\* key with its newest entry.
LEMMA MergeIsNewest ==
    ASSUME NEW m \in Manifests, Ordered(m), NEW fs, TableFiles(fs),
           AllReadable(m, fs), NEW k \in Keys
    PROVE  Merge(Contents(m, fs))[k] = Newest(fs, TableIds(m), k)
<1> DEFINE ts == m.tables
           c == Contents(m, fs)
           H == Holders(c, k)
<1>1. /\ Len(ts) \in Nat
      /\ DOMAIN ts = 1 .. Len(ts)
      /\ \A i \in DOMAIN ts : ts[i].id \in Nat
      /\ \A i, j \in DOMAIN ts : i < j => ts[i].id < ts[j].id
      /\ TableIds(m) = {ts[i].id : i \in DOMAIN ts}
      /\ \A i \in DOMAIN ts : ts[i].id \in DOMAIN fs
  <2>1. TableIds(m) = {ts[i].id : i \in DOMAIN ts}
    BY DEF TableIds
  <2>2. \A i \in DOMAIN ts : ts[i].id \in DOMAIN fs
    BY <2>1 DEF AllReadable
  <2> QED  BY <2>1, <2>2, ManifestParts DEF Ordered
<1>2. DOMAIN c = DOMAIN ts /\ \A i \in DOMAIN ts : c[i] = fs[ts[i].id]
  BY <1>1 DEF Contents
<1> HIDE DEF ts, c
<1>3. H = {i \in DOMAIN ts : fs[ts[i].id][k] # Absent}
  BY <1>2 DEF Holders
<1> HIDE DEF H
<1>4. HoldersIn(fs, TableIds(m), k) = {ts[i].id : i \in H}
  BY <1>1, <1>3 DEF HoldersIn
<1>5. Merge(c)[k] = IF H = {} THEN Absent ELSE c[Max(H)][k]
  BY DEF Merge, NewestEntry, H
<1>6. CASE H = {}
  <2>1. HoldersIn(fs, TableIds(m), k) = {}
    BY <1>4, <1>6
  <2>2. Newest(fs, TableIds(m), k) = Absent
    BY <2>1 DEF Newest
  <2> QED  BY <1>5, <1>6, <2>2 DEF c
<1>7. CASE H # {}
  <2>1. H \subseteq Nat /\ IsFiniteSet(H) /\ H \subseteq DOMAIN ts
    <3>1. H \subseteq 1 .. Len(ts)
      BY <1>1, <1>3
    <3>2. IsFiniteSet(1 .. Len(ts))
      BY <1>1, FS_Interval
    <3>3. IsFiniteSet(H)
      BY <3>1, <3>2, FS_Subset
    <3> QED  BY <1>1, <3>1, <3>3
  <2> DEFINE i == Max(H)
  <2>2. i \in H /\ \A j \in H : i >= j
    BY <1>7, <2>1, MaxIsLargest
  <2> HIDE DEF i
  <2>3. \A j \in H : ts[j].id <= ts[i].id
    <3> SUFFICES ASSUME NEW j \in H PROVE ts[j].id <= ts[i].id
      OBVIOUS
    <3>1. j \in Nat /\ i \in Nat /\ j <= i
      BY <2>1, <2>2
    <3>2. ts[j].id \in Nat /\ ts[i].id \in Nat
      BY <1>1, <2>1, <2>2
    <3>3. CASE j = i
      BY <3>2, <3>3
    <3>4. CASE j < i
      BY <1>1, <2>1, <2>2, <3>2, <3>4
    <3> QED  BY <3>1, <3>3, <3>4
  <2>4. ts[i].id \in HoldersIn(fs, TableIds(m), k)
    BY <1>4, <2>2
  <2>5. Newest(fs, TableIds(m), k) = fs[ts[i].id][k]
    BY <1>4, <2>3, <2>4, NewestIs
  <2>6. Merge(c)[k] = fs[ts[i].id][k]
    BY <1>2, <1>5, <1>7, <2>1, <2>2 DEF i
  <2> QED  BY <2>5, <2>6 DEF c
<1> QED  BY <1>6, <1>7

\* rebuild_from_directory lists every file that holds data, with its range.
LEMMA RebuildListsAll ==
    ASSUME NEW fs, TableFiles(fs)
    PROVE  /\ TableIds(Rebuild(fs)) = RebuiltIds(fs)
           /\ \A i \in DOMAIN Rebuild(fs).tables :
                Rebuild(fs).tables[i].range = KeyRange(fs[Rebuild(fs).tables[i].id])
<1> DEFINE ids == RebuiltIds(fs)
           n == Cardinality(ids)
           r == RebuiltTables(fs)
<1>1. ids \subseteq Nat /\ IsFiniteSet(ids)
  BY FS_Subset DEF RebuiltIds, TableFiles
<1> HIDE DEF ids
<1>2. \A i \in 1 .. n : Ascending(ids)[i] \in ids
  BY <1>1, AscendingIsSorted
<1>3. \A x \in ids : \E i \in 1 .. n : Ascending(ids)[i] = x
  BY <1>1, AscendingIsOnto
<1>4. r = [i \in 1 .. n |-> Metadata(Ascending(ids)[i], fs[Ascending(ids)[i]])]
  BY DEF RebuiltTables, ids
<1>5. \A i \in 1 .. n : /\ r[i].id = Ascending(ids)[i]
                        /\ r[i].range = KeyRange(fs[Ascending(ids)[i]])
  BY <1>4 DEF Metadata
<1>6. DOMAIN r = 1 .. n /\ Rebuild(fs).tables = r
  BY <1>4 DEF Rebuild
<1> HIDE DEF r, n
<1>7. TableIds(Rebuild(fs)) = {r[i].id : i \in 1 .. n}
  BY <1>6 DEF TableIds
<1>8. TableIds(Rebuild(fs)) = ids
  BY <1>2, <1>3, <1>5, <1>7
<1> QED  BY <1>5, <1>6, <1>8 DEF ids

\* A restart reads, for every key, the WAL's entry or else the newest one of
\* the files it goes by.
LEMMA OnDiskIs ==
    ASSUME NEW mf \in Manifests, Ordered(mf), NEW fs, TableFiles(fs),
           NEW tn, TableIds(mf) \cap tn = {}, NEW w, NEW k \in Keys
    PROVE  OnDisk(mf, fs, tn, w)[k] =
            IF RecoverWal(w)[k] = Absent THEN TableView(mf, fs, k)
                                         ELSE RecoverWal(w)[k]
<1> DEFINE m == RecoveredManifest(mf, fs, tn)
           b == Merge(Contents(m, fs))
<1>1. b[k] = Newest(fs, Base(mf, fs), k)
  <2>1. CASE AllReadable(mf, fs)
    <3>1. m = mf
      BY <2>1 DEF RecoveredManifest, MissingTable, AllReadable
    <3> HIDE DEF m
    <3> QED  BY <2>1, <3>1, MergeIsNewest DEF Base
  <2>2. CASE ~AllReadable(mf, fs)
    <3>1. m = Rebuild(fs)
      BY <2>2 DEF RecoveredManifest, MissingTable, AllReadable
    <3>2. m \in Manifests /\ Ordered(m)
      BY <3>1, RebuildOrdered DEF TableFiles
    <3>3. TableIds(m) = RebuiltIds(fs)
      BY <3>1, RebuildListsAll
    <3> HIDE DEF m
    <3>4. AllReadable(m, fs)
      BY <3>3 DEF AllReadable, RebuiltIds
    <3>5. b[k] = Newest(fs, RebuiltIds(fs), k)
      BY <3>2, <3>3, <3>4, MergeIsNewest
    <3>6. HoldersIn(fs, RebuiltIds(fs), k) = HoldersIn(fs, DOMAIN fs, k)
      BY DEF HoldersIn, RebuiltIds, Present
    <3> QED  BY <2>2, <3>5, <3>6 DEF Base, Newest
  <2> QED  BY <2>1, <2>2
<1>2. OnDisk(mf, fs, tn, w)[k] = Visible(Overlay(b, RecoverWal(w))[k])
  BY DEF OnDisk, LoadedData, View, Visible
<1>3. Overlay(b, RecoverWal(w))[k] = IF RecoverWal(w)[k] = Absent THEN b[k]
                                                              ELSE RecoverWal(w)[k]
  BY DEF Overlay
<1> HIDE DEF b
<1> QED  BY <1>1, <1>2, <1>3 DEF Visible, TableView

-----------------------------------------------------------------------------
(***************************************************************************)
(* The invariant.                                                          *)
(***************************************************************************)
LastTable == manifestFile.tables[Len(manifestFile.tables)]

\* A running process lists the tables of the MANIFEST on disk.  It is ahead
\* of it in next_table_id_ only between a failed add_table and the next one
\* that succeeds, and not at all without tables, where the rollback resets
\* it.
MirrorOK ==
    /\ Running => /\ manifest.tables = manifestFile.tables
                  /\ manifestFile.next <= manifest.next
    /\ pc \in {"load", "flush_reset", "compact_write", "compact_publish",
              "compact_retire", "compact_unlink"} => manifest = manifestFile
    /\ manifestFile.tables = << >> =>
        manifestFile.next = 1 /\ (Running => manifest.next = 1)

\* A file that is not listed and holds data was written under an id that the
\* process has given out, or is at most one ahead of the MANIFEST; there is
\* none ahead of a table that a compaction has published.
StraysOK ==
    /\ \A id \in RebuiltIds(files) :
        id <= manifestFile.next + 1 \/ (Running /\ id <= manifest.next)
    /\ pc \in {"flush_reset", "compact_write", "compact_publish"} =>
        \A id \in RebuiltIds(files) : id <= manifestFile.next
    /\ pc \in {"compact_retire", "compact_unlink"} =>
        \A id \in RebuiltIds(files) : id < manifestFile.next

\* The files that compaction left behind do not change what a rebuild reads,
\* and those that failed add_tables left behind change it only where the
\* MemTable has an entry.
HistoryOK ==
    AllReadable(manifestFile, files) =>
        \A k \in Keys :
            /\ Visible(Newest(files, Below(files, manifestFile.next), k)) =
               TableView(manifestFile, files, k)
            /\ Running /\ mem[k] = Absent =>
                Visible(Newest(files, Below(files, manifest.next), k)) =
                TableView(manifestFile, files, k)

\* The MANIFEST has the key range of every table it can still read.
RangesOK ==
    \A i \in DOMAIN manifestFile.tables :
        LET t == manifestFile.tables[i]
        IN t.id \in DOMAIN files => t.range = KeyRange(files[t.id])

\* A search for k does not need file id: the MemTable has an entry, or a
\* listed table that is not older.
Overridden(id, k) ==
    \/ mem[k] # Absent
    \/ \E j \in TableIds(manifestFile) \cap DOMAIN files :
            id <= j /\ files[j][k] # Absent

\* A table is lost only through the last loop of compact: it is the oldest
\* one, what newer files hold is found without those that are not listed, no
\* compaction gets past its first step, and what the older files hold outside
\* of its key range does not show.
LostTableOK ==
    Running /\ ~AllReadable(manifestFile, files) =>
        /\ pc \notin {"load", "compact_publish", "compact_retire", "compact_unlink"}
        /\ manifestFile.tables # << >>
        /\ LET first == manifestFile.tables[1]
           IN /\ first.id \notin DOMAIN files
              /\ \A i \in 2 .. Len(manifestFile.tables) :
                    manifestFile.tables[i].id \in DOMAIN files
              /\ \A id \in DOMAIN files : first.id < id =>
                    \A k \in Present(files[id]) : Overridden(id, k)
              /\ \A id \in RebuiltIds(files) : id <= manifest.next
              /\ pc # "flush_publish" =>
                    \A id \in RebuiltIds(files) : id < manifest.next
              /\ \A k \in Keys \ first.range :
                    Visible(Newest(files, Below(files, first.id), k)) = Tombstone

\* A flush publishes the MemTable, and then it is the newest table.
FlushOK ==
    /\ pc = "flush_publish" =>
        /\ manifest.next \in DOMAIN files
        /\ files[manifest.next] = mem
    /\ pc = "flush_reset" =>
        /\ manifestFile.tables # << >>
        /\ LastTable.id = manifestFile.next - 1
        /\ LastTable.id \in DOMAIN files
        /\ files[LastTable.id] = mem

\* The replacement table shows the same data as everything older than it.
ReplacesOlder(id) ==
    /\ id = manifestFile.next - 1
    /\ id \in DOMAIN files
    /\ \A k \in Keys :
        Visible(files[id][k]) = Visible(Newest(files, Below(files, id), k))

CompactOK ==
    /\ pc = "compact_publish" =>
        /\ AllReadable(manifestFile, files)
        /\ manifestFile.next \in DOMAIN files
        /\ \A k \in Keys : Visible(files[manifestFile.next][k]) =
                            TableView(manifestFile, files, k)
    /\ pc = "compact_retire" =>
        /\ AllReadable(manifestFile, files)
        /\ manifestFile.tables # << >>
        /\ ReplacesOlder(LastTable.id)
    /\ pc = "compact_unlink" =>
        /\ Len(manifestFile.tables) = 1
        /\ ReplacesOlder(LastTable.id)

\* The MemTable has everything that is in the WAL, and nothing a restart
\* would not find.
MemOK ==
    pc \in {"ready"} \cup Writing /\ ~Garbled(wal) =>
        \A k \in Keys :
            /\ RecoverWal(wal)[k] # Absent => mem[k] = RecoverWal(wal)[k]
            /\ mem[k] # Absent => Visible(mem[k]) = Recovered[k]

\* What it has beyond the WAL, a restart would find without the file that a
\* flush has just written and a failed add_table removes.
SpareOK ==
    /\ pc = "flush_publish"
    /\ ~AllReadable(manifestFile, files)
    /\ ~Garbled(wal)
    => \A k \in Keys :
            mem[k] # Absent /\ RecoverWal(wal)[k] = Absent =>
                Visible(mem[k]) = Visible(Newest(files, Below(files, manifest.next), k))

TablesOK ==
    MirrorOK /\ StraysOK /\ HistoryOK /\ RangesOK /\ LostTableOK /\ FlushOK /\ CompactOK

DataInv == TablesOK /\ MemOK /\ SpareOK

-----------------------------------------------------------------------------
(***************************************************************************)
(* What recover_wal makes of a longer log.                                 *)
(***************************************************************************)

\* Nothing is recovered from an empty log.
LEMMA EmptyWal ==
    ASSUME NEW k \in Keys
    PROVE  RecoverWal(<< >>)[k] = Absent /\ ~Garbled(<< >>)
<1> DEFINE s == [i \in {} |-> RecordMap(<< >>[i])]
<1>1. ValidPrefix(<< >>) = << >>
  BY DEF ValidPrefix, TornAt
<1>2. Holders(s, k) = {}
  BY DEF Holders
<1>3. RecoverWal(<< >>) = Merge(s)
  BY <1>1 DEF RecoverWal
<1> HIDE DEF s
<1>4. Merge(s)[k] = Absent
  BY <1>2 DEF Merge, NewestEntry
<1> QED  BY <1>3, <1>4 DEF Garbled

\* A record that is cut off adds nothing.
LEMMA AppendTorn ==
    ASSUME NEW w \in Seq(Records), NEW r \in Records, r.gap # 0
    PROVE  RecoverWal(Append(w, r)) = RecoverWal(w)
<1> DEFINE v == Append(w, r)
           n == Len(w)
<1>1. /\ n \in Nat
      /\ DOMAIN w = 1 .. n /\ DOMAIN v = 1 .. n + 1 /\ Len(v) = n + 1
      /\ \A i \in 1 .. n : v[i] = w[i]
      /\ v[n + 1] = r
      /\ v \in Seq(Records)
  OBVIOUS
<1> HIDE DEF v, n
<1>2. TornAt(v) = TornAt(w) \cup {n + 1} /\ TornAt(w) \subseteq 1 .. n
  BY <1>1 DEF TornAt
<1>3. CASE TornAt(w) = {}
  <2>1. Min(TornAt(v)) = n + 1
    BY <1>1, <1>2, <1>3 DEF Min
  <2>2. ValidPrefix(v) = SubSeq(v, 1, n)
    <3>1. TornAt(v) # {} /\ (n + 1) - 1 = n
      BY <1>1, <1>2
    <3>2. ValidPrefix(v) = SubSeq(v, 1, (n + 1) - 1)
      BY <2>1, <3>1 DEF ValidPrefix
    <3> QED  BY <3>1, <3>2
  <2>3. SubSeq(v, 1, n) = w
    BY <1>1 DEF n
  <2> QED  BY <1>3, <2>2, <2>3 DEF RecoverWal, ValidPrefix, v
<1>4. CASE TornAt(w) # {}
  <2>1. PICK x \in TornAt(w) : \A y \in TornAt(w) : x <= y
    BY <1>2, <1>4, LeastNatural
  <2>2. x \in 1 .. n
    BY <1>2
  <2>3. Min(TornAt(w)) = x
    BY <1>2, <2>1 DEF Min
  <2>4. Min(TornAt(v)) = x
    <3>1. x \in TornAt(v) /\ \A y \in TornAt(v) : x <= y
      BY <1>1, <1>2, <2>1, <2>2
    <3>2. TornAt(v) \subseteq Nat
      BY <1>1, <1>2
    <3> QED  BY <3>1, <3>2 DEF Min
  <2>5. SubSeq(v, 1, x - 1) = SubSeq(w, 1, x - 1)
    BY <1>1, <2>2 DEF n
  <2>6. ValidPrefix(v) = ValidPrefix(w)
    BY <1>2, <1>4, <2>3, <2>4, <2>5 DEF ValidPrefix
  <2> QED  BY <2>6 DEF RecoverWal, v
<1> QED  BY <1>3, <1>4

\* A complete record behind complete ones adds its entry.
LEMMA AppendComplete ==
    ASSUME NEW w \in Seq(Records), TornAt(w) = {},
           NEW r \in Records, r.gap = 0, NEW k \in Keys
    PROVE  RecoverWal(Append(w, r))[k] =
            IF k = r.key THEN r.entry ELSE RecoverWal(w)[k]
<1> DEFINE v == Append(w, r)
           n == Len(w)
           s == [i \in DOMAIN w |-> RecordMap(w[i])]
           t == [i \in DOMAIN v |-> RecordMap(v[i])]
<1>1. /\ n \in Nat
      /\ DOMAIN w = 1 .. n /\ DOMAIN v = 1 .. n + 1
      /\ \A i \in 1 .. n : v[i] = w[i]
      /\ v[n + 1] = r
  OBVIOUS
<1>2. TornAt(v) = {}
  BY <1>1 DEF TornAt
<1>3. RecoverWal(v) = Merge(t) /\ RecoverWal(w) = Merge(s)
  BY <1>2 DEF RecoverWal, ValidPrefix
<1>4. /\ DOMAIN s = 1 .. n /\ DOMAIN t = 1 .. n + 1
      /\ \A i \in 1 .. n : t[i] = s[i]
      /\ t[n + 1] = RecordMap(r)
  BY <1>1
<1>5. t[n + 1][k] = IF k = r.key THEN r.entry ELSE Absent
  BY <1>4 DEF RecordMap
<1>6. r.entry # Absent
  BY SentinelAssumption DEF Records, Entry
<1> HIDE DEF v, n, s, t
<1>7. Holders(s, k) \subseteq 1 .. n
  BY <1>4 DEF Holders
<1>8. CASE k = r.key
  <2>1. n + 1 \in Holders(t, k) /\ Holders(t, k) \subseteq 1 .. n + 1
    BY <1>1, <1>4, <1>5, <1>6, <1>8 DEF Holders
  <2>2. Max(Holders(t, k)) = n + 1
    <3>1. \A y \in Holders(t, k) : y \in Nat /\ n + 1 >= y
      BY <1>1, <2>1
    <3>2. \A x \in Holders(t, k) : x >= n + 1 => x = n + 1
      BY <1>1, <3>1
    <3> QED  BY <2>1, <3>1, <3>2 DEF Max
  <2>3. Merge(t)[k] = t[n + 1][k]
    BY <2>1, <2>2 DEF Merge, NewestEntry
  <2> QED  BY <1>3, <1>5, <1>8, <2>3 DEF v
<1>9. CASE k # r.key
  <2>1. Holders(t, k) = Holders(s, k)
    BY <1>1, <1>4, <1>5, <1>9 DEF Holders
  <2>2. CASE Holders(s, k) = {}
    <3>1. Merge(t)[k] = Absent /\ Merge(s)[k] = Absent
      BY <2>1, <2>2 DEF Merge, NewestEntry
    <3> QED  BY <1>3, <1>9, <3>1 DEF v
  <2>3. CASE Holders(s, k) # {}
    <3>1. IsFiniteSet(1 .. n)
      BY <1>1, FS_Interval
    <3>2. IsFiniteSet(Holders(s, k)) /\ Holders(s, k) \subseteq Nat
      BY <1>1, <1>7, <3>1, FS_Subset
    <3>3. Max(Holders(s, k)) \in 1 .. n
      BY <1>7, <2>3, <3>2, MaxIsLargest
    <3>4. Merge(t)[k] = Merge(s)[k]
      BY <1>4, <2>1, <2>3, <3>3 DEF Merge, NewestEntry
    <3> QED  BY <1>3, <1>9, <3>4 DEF v
  <2> QED  BY <2>2, <2>3
<1> QED  BY <1>8, <1>9

\* A log stays garbled when it grows, and a complete record behind a torn
\* one garbles it.
LEMMA GarbledGrows ==
    ASSUME NEW w \in Seq(Records), NEW r \in Records,
           \/ Garbled(w)
           \/ TornAt(w) # {} /\ r.gap = 0
    PROVE  Garbled(Append(w, r))
<1> DEFINE v == Append(w, r)
           n == Len(w)
<1>1. /\ n \in Nat
      /\ DOMAIN w = 1 .. n /\ DOMAIN v = 1 .. n + 1
      /\ \A i \in 1 .. n : v[i] = w[i]
      /\ v[n + 1] = r
  OBVIOUS
<1> HIDE DEF v, n
<1>2. CASE Garbled(w)
  <2>1. PICK i, j \in 1 .. n : i < j /\ w[i].gap # 0 /\ w[j].gap = 0
    BY <1>1, <1>2 DEF Garbled
  <2>2. i \in DOMAIN v /\ j \in DOMAIN v /\ v[i].gap # 0 /\ v[j].gap = 0
    BY <1>1, <2>1
  <2> QED  BY <2>1, <2>2 DEF Garbled, v
<1>3. CASE TornAt(w) # {} /\ r.gap = 0
  <2>1. PICK i \in 1 .. n : w[i].gap # 0
    BY <1>1, <1>3 DEF TornAt
  <2>2. /\ i \in DOMAIN v /\ n + 1 \in DOMAIN v
        /\ i < n + 1 /\ v[i].gap # 0 /\ v[n + 1].gap = 0
    BY <1>1, <1>3, <2>1
  <2> QED  BY <2>2 DEF Garbled, v
<1> QED  BY <1>2, <1>3

-----------------------------------------------------------------------------
(***************************************************************************)
(* Steps that touch only the file of next_table_id_.                       *)
(***************************************************************************)

\* What StorageInv says about the MANIFEST and the files on disk.
LEMMA OnDiskFacts ==
    ASSUME StorageInv
    PROVE  /\ TableFiles(files)
           /\ manifestFile \in Manifests
           /\ Ordered(manifestFile)
           /\ manifestFile.next \in Nat
           /\ \A id \in TableIds(manifestFile) : id \in Nat /\ id < manifestFile.next
           /\ TableIds(manifestFile) \cap torn = {}
           /\ Len(manifestFile.tables) \in Nat
           /\ DOMAIN manifestFile.tables = 1 .. Len(manifestFile.tables)
<1>1. ControlOK /\ ManifestsOK /\ FilesOK /\ ListedOK
  BY StorageInvParts
<1>2. TableFiles(files)
  BY <1>1 DEF FilesOK, TableFiles
<1>3. manifestFile \in Manifests /\ Ordered(manifestFile)
  BY <1>1 DEF ManifestsOK
<1>4. /\ manifestFile.next \in Nat
      /\ Len(manifestFile.tables) \in Nat
      /\ DOMAIN manifestFile.tables = 1 .. Len(manifestFile.tables)
      /\ \A i \in DOMAIN manifestFile.tables : manifestFile.tables[i].id \in Nat
  BY <1>3, ManifestParts
<1>5. \A id \in TableIds(manifestFile) : id \in Nat /\ id < manifestFile.next
  BY <1>3, <1>4 DEF TableIds, Ordered
<1>6. TableIds(manifestFile) \cap torn = {}
  BY <1>1 DEF ListedOK
<1> QED  BY <1>2, <1>3, <1>4, <1>5, <1>6

\* And about the manifest of a running process.
LEMMA RunningFacts ==
    ASSUME StorageInv, TablesOK, Running
    PROVE  /\ manifest.tables = manifestFile.tables
           /\ TableIds(manifest) = TableIds(manifestFile)
           /\ manifest \in Manifests
           /\ Ordered(manifest)
           /\ manifest.next \in Nat
           /\ manifestFile.next <= manifest.next
           /\ \A id \in TableIds(manifestFile) : id \in Nat /\ id < manifest.next
<1>1. manifest.tables = manifestFile.tables /\ manifestFile.next <= manifest.next
  BY DEF TablesOK, MirrorOK
<1>2. manifest \in Manifests /\ Ordered(manifest)
  BY StorageInvParts DEF ManifestsOK
<1>3. manifest.next \in Nat
  BY <1>2, ManifestParts
<1>4. TableIds(manifest) = TableIds(manifestFile)
  BY <1>1 DEF TableIds
<1>5. \A id \in TableIds(manifestFile) : id \in Nat /\ id < manifest.next
  <2> SUFFICES ASSUME NEW id \in TableIds(manifestFile)
               PROVE  id \in Nat /\ id < manifest.next
    OBVIOUS
  <2>1. id \in Nat /\ id < manifestFile.next /\ manifestFile.next \in Nat
    BY OnDiskFacts
  <2> QED  BY <1>1, <1>3, <2>1
<1> QED  BY <1>1, <1>2, <1>3, <1>4, <1>5

\* Two sets of files that differ at most in file n.
DifferOnlyAt(fs, gs, n) ==
    /\ DOMAIN gs \ {n} = DOMAIN fs \ {n}
    /\ \A id \in DOMAIN fs \ {n} : gs[id] = fs[id]

\* They agree on what does not involve file n.
LEMMA OtherFilesAgree ==
    ASSUME NEW fs, NEW gs, NEW n \in Nat, TableFiles(fs), TableFiles(gs),
           DifferOnlyAt(fs, gs, n), NEW k \in Keys
    PROVE  /\ \A S : n \notin S => Newest(gs, S, k) = Newest(fs, S, k)
           /\ \A b \in Nat : b <= n =>
                Newest(gs, Below(gs, b), k) = Newest(fs, Below(fs, b), k)
<1>1. ASSUME NEW S, n \notin S PROVE Newest(gs, S, k) = Newest(fs, S, k)
  <2>1. /\ HoldersIn(gs, S, k) = HoldersIn(fs, S, k)
        /\ \A id \in HoldersIn(fs, S, k) : gs[id][k] = fs[id][k]
    BY <1>1 DEF HoldersIn, DifferOnlyAt
  <2> QED  BY <2>1, NewestSame
<1>2. ASSUME NEW b \in Nat, b <= n
      PROVE  Newest(gs, Below(gs, b), k) = Newest(fs, Below(fs, b), k)
  <2>1. Below(gs, b) = Below(fs, b) /\ n \notin Below(fs, b)
    BY <1>2 DEF Below, DifferOnlyAt
  <2> QED  BY <1>1, <2>1
<1> QED  BY <1>1, <1>2

\* Writing or tearing the file of next_table_id_ leaves the listed tables and
\* everything older alone.
LEMMA TouchNext ==
    ASSUME StorageInv, TablesOK, Running, TableFiles(files'),
           DifferOnlyAt(files, files', manifest.next),
           manifestFile' = manifestFile,
           pc \in {"flush_write", "compact_write"},
           \/ /\ pc' \in {"flush_publish", "compact_publish", "ready"}
              /\ manifest' = manifest /\ mem' = mem
           \/ pc' = "down" /\ manifest.next <= manifestFile.next + 1,
           pc' = "flush_publish" =>
                manifest.next \in DOMAIN files' /\ files'[manifest.next] = mem,
           pc' = "compact_publish" =>
                pc = "compact_write" /\ AllReadable(manifestFile, files),
           pc' \in {"ready", "down"} => manifest.next \notin DOMAIN files'
    PROVE  /\ MirrorOK' /\ StraysOK' /\ HistoryOK' /\ RangesOK' /\ LostTableOK'
           /\ AllReadable(manifestFile, files') <=> AllReadable(manifestFile, files)
           /\ AllReadable(manifestFile, files) =>
                \A k \in Keys : TableView(manifestFile, files', k) =
                                TableView(manifestFile, files, k)
<1> DEFINE m == manifestFile
           n == manifest.next
           F == m.next
<1>1. /\ TableFiles(files)
      /\ n \in Nat /\ F \in Nat /\ F <= n
      /\ \A id \in TableIds(m) : id \in Nat /\ id < n
      /\ Len(m.tables) \in Nat
      /\ DOMAIN m.tables = 1 .. Len(m.tables)
  BY OnDiskFacts, RunningFacts
<1>2. n \notin TableIds(m)
  BY <1>1
<1>3. \A i \in DOMAIN m.tables : m.tables[i].id \in TableIds(m)
  BY DEF TableIds
<1>4. m' = m /\ (Running' => n' = n /\ manifest' = manifest /\ mem' = mem)
  BY DEF Running, Writing
<1> HIDE DEF m, n, F
<1>5. /\ DOMAIN files' \ {n} = DOMAIN files \ {n}
      /\ \A id \in DOMAIN files \ {n} : files'[id] = files[id]
  BY DEF DifferOnlyAt, n
<1>6. AllReadable(m, files') <=> AllReadable(m, files)
  BY <1>2, <1>5 DEF AllReadable
<1>7. ASSUME NEW k \in Keys
      PROVE  /\ Newest(files', TableIds(m), k) = Newest(files, TableIds(m), k)
             /\ \A b \in Nat : b <= n => Newest(files', Below(files', b), k) =
                                         Newest(files, Below(files, b), k)
  BY <1>1, <1>2, OtherFilesAgree DEF n
<1>8. AllReadable(m, files) =>
        \A k \in Keys : TableView(m, files', k) = TableView(m, files, k)
  BY <1>6, <1>7 DEF TableView, Base
<1>9. HistoryOK'
  <2> SUFFICES ASSUME AllReadable(m, files'), NEW k \in Keys
               PROVE  /\ Visible(Newest(files', Below(files', F), k)) =
                         TableView(m, files', k)
                      /\ Running' /\ mem'[k] = Absent =>
                            Visible(Newest(files', Below(files', n), k)) =
                            TableView(m, files', k)
    BY <1>4 DEF HistoryOK, m, n, F
  <2>1. /\ Visible(Newest(files, Below(files, F), k)) = TableView(m, files, k)
        /\ mem[k] = Absent =>
              Visible(Newest(files, Below(files, n), k)) = TableView(m, files, k)
    BY <1>6 DEF TablesOK, HistoryOK, m, n, F
  <2>2. n <= n
    BY <1>1
  <2> QED  BY <1>1, <1>4, <1>6, <1>7, <1>8, <2>1, <2>2
<1>10. RangesOK'
  <2> SUFFICES ASSUME NEW i \in DOMAIN m.tables, m.tables[i].id \in DOMAIN files'
               PROVE  m.tables[i].range = KeyRange(files'[m.tables[i].id])
    BY <1>4 DEF RangesOK, m
  <2>1. m.tables[i].id \in DOMAIN files /\ files'[m.tables[i].id] = files[m.tables[i].id]
    BY <1>2, <1>3, <1>5
  <2> QED  BY <2>1 DEF TablesOK, RangesOK, m
<1>11. RebuiltIds(files') \ {n} = RebuiltIds(files) \ {n}
  BY <1>5 DEF RebuiltIds
<1>12. RebuiltIds(files') \subseteq DOMAIN files' /\ RebuiltIds(files) \subseteq DOMAIN files
  BY DEF RebuiltIds
<1>13. MirrorOK'
  BY <1>4 DEF TablesOK, MirrorOK, Running, Writing
<1>14. StraysOK'
  <2>1. \A id \in RebuiltIds(files') : id = n \/ id \in RebuiltIds(files)
    BY <1>11
  <2>2. \A id \in RebuiltIds(files) : id \in Nat /\ (id <= F + 1 \/ id <= n)
    BY <1>1, <1>12 DEF TablesOK, StraysOK, TableFiles, F, n, m
  <2>3. ASSUME Running' PROVE \A id \in RebuiltIds(files') : id <= F + 1 \/ id <= n
    BY <1>1, <2>1, <2>2
  <2>4. ASSUME ~Running' PROVE \A id \in RebuiltIds(files') : id <= F + 1
    <3>1. n <= F + 1
      BY <2>4 DEF Running, Writing, n, F, m
    <3> QED  BY <1>1, <2>1, <2>2, <3>1
  <2>5. ASSUME pc' = "compact_publish" PROVE \A id \in RebuiltIds(files') : id <= F
    <3>1. n = F /\ \A id \in RebuiltIds(files) : id <= F
      BY <2>5 DEF TablesOK, StraysOK, MirrorOK, n, F, m
    <3> QED  BY <1>1, <2>1, <3>1
  <2>6. pc' \in {"flush_publish", "compact_publish", "ready", "down"}
    OBVIOUS
  <2> QED  BY <1>4, <2>3, <2>4, <2>5, <2>6 DEF StraysOK, m, n, F
<1>15. LostTableOK'
  <2> SUFFICES ASSUME ~AllReadable(m, files'), Running'
               PROVE
        /\ pc' \notin {"load", "compact_publish", "compact_retire", "compact_unlink"}
        /\ m.tables # << >>
        /\ LET first == m.tables[1]
           IN /\ first.id \notin DOMAIN files'
              /\ \A i \in 2 .. Len(m.tables) : m.tables[i].id \in DOMAIN files'
              /\ \A id \in DOMAIN files' : first.id < id =>
                    \A k \in Present(files'[id]) : Overridden(id, k)'
              /\ \A id \in RebuiltIds(files') : id <= n
              /\ pc' # "flush_publish" => \A id \in RebuiltIds(files') : id < n
              /\ \A k \in Keys \ first.range :
                    Visible(Newest(files', Below(files', first.id), k)) = Tombstone
    BY <1>4 DEF LostTableOK, m, n
  <2> DEFINE first == m.tables[1]
  <2>1. ~AllReadable(m, files)
    BY <1>6
  <2>2. /\ m.tables # << >>
        /\ first.id \notin DOMAIN files
        /\ \A i \in 2 .. Len(m.tables) : m.tables[i].id \in DOMAIN files
        /\ \A id \in DOMAIN files : first.id < id =>
              \A k \in Present(files[id]) : Overridden(id, k)
        /\ \A id \in RebuiltIds(files) : id < n
        /\ \A k \in Keys \ first.range :
              Visible(Newest(files, Below(files, first.id), k)) = Tombstone
    BY <2>1 DEF TablesOK, LostTableOK, m, n
  <2>3. 1 \in DOMAIN m.tables
    <3>1. Len(m.tables) # 0
      BY <2>2, OnDiskFacts, ManifestParts DEF m
    <3> QED  BY <1>1, <3>1
  <2>4. first.id \in Nat /\ first.id < n /\ first.id # n
    BY <1>1, <1>3, <2>3
  <2> HIDE DEF first
  <2>5. first.id \notin DOMAIN files'
    BY <1>5, <2>2, <2>4
  <2>6. \A i \in 2 .. Len(m.tables) : m.tables[i].id \in DOMAIN files'
    BY <1>1, <1>2, <1>3, <1>5, <2>2
  <2>7. ASSUME NEW id \in DOMAIN files', first.id < id, NEW k \in Present(files'[id])
        PROVE  Overridden(id, k)'
    <3>1. CASE id = n
      <4>1. pc' = "flush_publish" /\ files'[n] = mem
        BY <2>1, <3>1 DEF m, n, Running, Writing
      <4>2. mem'[k] # Absent
        BY <1>4, <3>1, <4>1 DEF Present
      <4> QED  BY <4>2 DEF Overridden
    <3>2. CASE id # n
      <4>1. id \in DOMAIN files /\ files'[id] = files[id]
        BY <1>5, <3>2
      <4>2. Overridden(id, k)
        BY <2>2, <2>7, <4>1
      <4>3. CASE mem[k] # Absent
        BY <1>4, <4>3 DEF Overridden
      <4>4. CASE mem[k] = Absent
        <5>1. PICK j \in TableIds(m) \cap DOMAIN files : id <= j /\ files[j][k] # Absent
          BY <4>2, <4>4 DEF Overridden, m
        <5>2. j \in TableIds(m)' \cap DOMAIN files' /\ files'[j] = files[j]
          BY <1>2, <1>4, <1>5, <5>1 DEF TableIds
        <5> QED  BY <5>1, <5>2 DEF Overridden, m
      <4> QED  BY <4>3, <4>4
    <3> QED  BY <3>1, <3>2
  <2>8. \A id \in RebuiltIds(files') : id <= n
    BY <1>1, <1>11, <1>12, <2>2 DEF TableFiles
  <2>9. pc' # "flush_publish" => \A id \in RebuiltIds(files') : id < n
    BY <2>1, <1>11, <1>12, <2>2 DEF m, n, Running, Writing
  <2>10. \A k \in Keys \ first.range :
            Visible(Newest(files', Below(files', first.id), k)) = Tombstone
    BY <1>1, <1>7, <2>2, <2>4
  <2>11. pc' \notin {"load", "compact_publish", "compact_retire", "compact_unlink"}
    BY <2>1 DEF m
  <2> QED  BY <2>2, <2>5, <2>6, <2>7, <2>8, <2>9, <2>10, <2>11 DEF first
<1> QED  BY <1>6, <1>8, <1>9, <1>10, <1>13, <1>14, <1>15 DEF m

-----------------------------------------------------------------------------
(***************************************************************************)
(* Every step keeps TablesOK, and what a restart finds in the tables       *)
(* changes at most by what a flush adds from the MemTable.                 *)
(***************************************************************************)
ViewKept ==
    \A k \in Keys : TableView(manifestFile', files', k) = TableView(manifestFile, files, k)

ViewFlushed ==
    \A k \in Keys :
        \/ TableView(manifestFile', files', k) = TableView(manifestFile, files, k)
        \/ mem[k] # Absent /\ TableView(manifestFile', files', k) = mem[k]

\* The entries of the MemTable that a step keeps or replaces.
KeysKept == \A k \in Keys : mem'[k] = Absent => mem[k] = Absent

\* Once a flush has published the MemTable, its table overrides all others.
LEMMA FlushedOverrides ==
    ASSUME StorageInv, TablesOK, pc = "flush_reset",
           ~AllReadable(manifestFile, files), NEW id \in DOMAIN files,
           NEW k \in Present(files[id]), mem[k] # Absent
    PROVE  \E j \in TableIds(manifestFile) \cap DOMAIN files :
                id <= j /\ files[j][k] # Absent
<1> DEFINE m == manifestFile
           r == LastTable.id
<1>1. m.tables # << >> /\ r = m.next - 1 /\ r \in DOMAIN files /\ files[r] = mem
  BY DEF TablesOK, FlushOK
<1>2. /\ TableFiles(files) /\ m.next \in Nat /\ m \in Manifests
      /\ Len(m.tables) \in Nat /\ DOMAIN m.tables = 1 .. Len(m.tables)
  BY OnDiskFacts
<1>3. r \in TableIds(m)
  <2>1. Len(m.tables) # 0
    BY <1>1, <1>2, ManifestParts
  <2>2. Len(m.tables) \in DOMAIN m.tables
    BY <1>2, <2>1
  <2> QED  BY <2>2 DEF TableIds, LastTable
<1>4. id \in RebuiltIds(files) /\ id \in Nat
  BY <1>2 DEF RebuiltIds, TableFiles
<1>5. id < m.next
  BY <1>4 DEF TablesOK, LostTableOK, MirrorOK, Running, Writing
<1>6. r \in Nat
  BY <1>1, <1>2 DEF TableFiles
<1> HIDE DEF r, m
<1>7. id <= r
  BY <1>1, <1>2, <1>4, <1>5, <1>6
<1> QED  BY <1>1, <1>3, <1>7 DEF m

\* Steps that leave the MANIFEST and the table files alone.
LEMMA QuietStep ==
    ASSUME StorageInv, TablesOK, UNCHANGED <<manifestFile, files>>,
           pc' \notin {"load", "flush_publish", "flush_reset", "compact_publish",
                       "compact_retire", "compact_unlink"},
           pc' = "compact_write" => pc = "flush_reset",
           Running' => /\ Running /\ pc # "flush_publish"
                       /\ manifest' = manifest
                       /\ KeysKept \/ pc \in {"load", "flush_reset"},
           Running => Running' \/ manifest.next <= manifestFile.next + 1
    PROVE  TablesOK' /\ ViewKept
<1>1. MirrorOK'
  <2>1. pc' = "compact_write" => Running' /\ manifest' = manifest
    BY DEF Running, Writing
  <2> QED  BY <2>1 DEF TablesOK, MirrorOK
<1>2. StraysOK'
  <2>1. /\ TableFiles(files) /\ manifestFile.next \in Nat
        /\ \A id \in RebuiltIds(files) : id \in Nat
    BY OnDiskFacts DEF TableFiles, RebuiltIds
  <2>2. CASE Running'
    BY <2>2 DEF TablesOK, StraysOK
  <2>3. CASE ~Running'
    <3>1. \A id \in RebuiltIds(files) : id <= manifestFile.next + 1
      <4>1. CASE ~Running
        BY <4>1 DEF TablesOK, StraysOK
      <4>2. CASE Running
        <5>1. manifest.next \in Nat /\ manifest.next <= manifestFile.next + 1
          BY <2>3, <4>2, RunningFacts
        <5>2. \A id \in RebuiltIds(files) :
                id <= manifestFile.next + 1 \/ id <= manifest.next
          BY DEF TablesOK, StraysOK
        <5> QED  BY <2>1, <5>1, <5>2
      <4> QED  BY <4>1, <4>2
    <3>2. pc' \notin {"flush_reset", "compact_write", "compact_publish",
                      "compact_retire", "compact_unlink"}
      BY <2>3 DEF Running, Writing
    <3> QED  BY <3>1, <3>2 DEF StraysOK
  <2> QED  BY <2>2, <2>3
<1>3. HistoryOK'
  <2> SUFFICES ASSUME AllReadable(manifestFile, files), NEW k \in Keys
               PROVE  /\ Visible(Newest(files, Below(files, manifestFile.next), k)) =
                         TableView(manifestFile, files, k)
                      /\ Running' /\ mem'[k] = Absent =>
                            Visible(Newest(files, Below(files, manifest'.next), k)) =
                            TableView(manifestFile, files, k)
    BY DEF HistoryOK
  <2>1. /\ Visible(Newest(files, Below(files, manifestFile.next), k)) =
           TableView(manifestFile, files, k)
        /\ Running /\ mem[k] = Absent =>
              Visible(Newest(files, Below(files, manifest.next), k)) =
              TableView(manifestFile, files, k)
    BY DEF TablesOK, HistoryOK
  <2>2. pc \in {"load", "flush_reset"} => manifest = manifestFile
    BY DEF TablesOK, MirrorOK
  <2> QED  BY <2>1, <2>2 DEF KeysKept
<1>4. RangesOK'
  BY DEF TablesOK, RangesOK
<1>5. LostTableOK'
  <2> DEFINE m == manifestFile
             first == m.tables[1]
  <2> SUFFICES ASSUME Running', ~AllReadable(m, files)
               PROVE
        /\ m.tables # << >>
        /\ first.id \notin DOMAIN files
        /\ \A i \in 2 .. Len(m.tables) : m.tables[i].id \in DOMAIN files
        /\ \A id \in DOMAIN files : first.id < id =>
              \A k \in Present(files[id]) : Overridden(id, k)'
        /\ \A id \in RebuiltIds(files) : id <= manifest.next
        /\ \A id \in RebuiltIds(files) : id < manifest.next
        /\ \A k \in Keys \ first.range :
              Visible(Newest(files, Below(files, first.id), k)) = Tombstone
    BY DEF LostTableOK
  <2>1. /\ pc # "load"
        /\ m.tables # << >>
        /\ first.id \notin DOMAIN files
        /\ \A i \in 2 .. Len(m.tables) : m.tables[i].id \in DOMAIN files
        /\ \A id \in DOMAIN files : first.id < id =>
              \A k \in Present(files[id]) : Overridden(id, k)
        /\ \A id \in RebuiltIds(files) : id <= manifest.next
        /\ \A id \in RebuiltIds(files) : id < manifest.next
        /\ \A k \in Keys \ first.range :
              Visible(Newest(files, Below(files, first.id), k)) = Tombstone
    BY DEF TablesOK, LostTableOK
  <2>2. ASSUME NEW id \in DOMAIN files, first.id < id, NEW k \in Present(files[id])
        PROVE  Overridden(id, k)'
    <3>1. Overridden(id, k) /\ k \in Keys
      BY <2>1, <2>2 DEF Present
    <3> HIDE DEF first
    <3>2. ASSUME \E j \in TableIds(m) \cap DOMAIN files : id <= j /\ files[j][k] # Absent
          PROVE  Overridden(id, k)'
      BY <3>2 DEF Overridden, TableIds
    <3>3. CASE KeysKept
      BY <3>1, <3>2, <3>3 DEF KeysKept, Overridden
    <3>4. CASE pc = "flush_reset"
      BY <3>1, <3>2, <3>4, FlushedOverrides DEF Overridden
    <3> QED  BY <2>1, <3>3, <3>4
  <2> HIDE DEF first, m
  <2> QED  BY <2>1, <2>2
<1>6. FlushOK' /\ CompactOK'
  BY DEF FlushOK, CompactOK
<1>7. ViewKept
  BY DEF ViewKept
<1> QED  BY <1>1, <1>2, <1>3, <1>4, <1>5, <1>6, <1>7 DEF TablesOK

\* SSTable::write of the MemTable.
LEMMA FlushWriteStep ==
    ASSUME StorageInv, TablesOK, FilesOK', FlushWrite
    PROVE  TablesOK' /\ ViewFlushed
<1> DEFINE n == manifest.next
<1>1. Running
  BY DEF FlushWrite, Running, Writing
<1>2. TableFiles(files) /\ n \in Nat /\ TableFiles(files')
  BY <1>1, OnDiskFacts, RunningFacts DEF FilesOK, TableFiles
<1>3. /\ files' = [i \in DOMAIN files \cup {n} |-> IF i = n THEN mem ELSE files[i]]
      /\ pc = "flush_write" /\ pc' = "flush_publish"
      /\ manifestFile' = manifestFile /\ manifest' = manifest /\ mem' = mem
  BY DEF FlushWrite, WriteFile, memory
<1>4. DifferOnlyAt(files, files', n) /\ n \in DOMAIN files' /\ files'[n] = mem
  BY <1>3 DEF DifferOnlyAt
<1>5. /\ MirrorOK' /\ StraysOK' /\ HistoryOK' /\ RangesOK' /\ LostTableOK'
      /\ AllReadable(manifestFile, files') <=> AllReadable(manifestFile, files)
      /\ AllReadable(manifestFile, files) =>
            \A k \in Keys : TableView(manifestFile, files', k) =
                            TableView(manifestFile, files, k)
  BY <1>1, <1>2, <1>3, <1>4, TouchNext
<1>6. FlushOK' /\ CompactOK'
  BY <1>3, <1>4 DEF FlushOK, CompactOK
<1>7. ViewFlushed
  <2>1. CASE AllReadable(manifestFile, files)
    BY <1>3, <1>5, <2>1 DEF ViewFlushed
  <2>2. CASE ~AllReadable(manifestFile, files)
    <3> SUFFICES ASSUME NEW k \in Keys
                 PROVE  \/ TableView(manifestFile, files', k) =
                           TableView(manifestFile, files, k)
                        \/ mem[k] # Absent /\ TableView(manifestFile, files', k) = mem[k]
      BY <1>3 DEF ViewFlushed
    <3>1. \A id \in RebuiltIds(files) : id < n
      BY <1>1, <1>3, <2>2 DEF TablesOK, LostTableOK
    <3>2. \A id \in HoldersIn(files, DOMAIN files, k) : id < n
      BY <3>1, HoldersHaveData
    <3>3. n \notin HoldersIn(files, DOMAIN files, k)
      BY <1>2, <3>2
    <3>4. /\ HoldersIn(files', DOMAIN files', k) \ {n} =
             HoldersIn(files, DOMAIN files, k) \ {n}
          /\ \A id \in HoldersIn(files, DOMAIN files, k) : files'[id][k] = files[id][k]
      BY <1>3, <3>3 DEF HoldersIn
    <3>5. n \in DOMAIN files' \cap DOMAIN files'
      BY <1>4
    <3>6. Newest(files', DOMAIN files', k) =
            IF files'[n][k] = Absent THEN Newest(files, DOMAIN files, k)
                                     ELSE files'[n][k]
      <4> HIDE DEF n
      <4> QED  BY <1>2, <3>2, <3>3, <3>4, <3>5, NewestTop
    <3> QED  BY <1>4, <1>5, <2>2, <3>6 DEF TableView, Base, Visible
  <2> QED  BY <2>1, <2>2
<1> QED  BY <1>5, <1>6, <1>7 DEF TablesOK

\* SSTable::write of the merged tables.
LEMMA CompactWriteStep ==
    ASSUME StorageInv, TablesOK, FilesOK', CompactWrite
    PROVE  TablesOK' /\ ViewKept
<1> DEFINE m == manifestFile
           n == m.next
<1>1. Running /\ manifest = m
  BY DEF CompactWrite, Running, Writing, TablesOK, MirrorOK
<1>2. /\ TableFiles(files) /\ n \in Nat /\ TableFiles(files')
      /\ m \in Manifests /\ Ordered(m)
  BY OnDiskFacts DEF FilesOK, TableFiles
<1>3. /\ files' = [i \in DOMAIN files \cup {n} |-> IF i = n THEN Compacted ELSE files[i]]
      /\ pc = "compact_write" /\ pc' = "compact_publish"
      /\ manifestFile' = manifestFile /\ manifest' = manifest /\ mem' = mem
      /\ AllReadable(m, files)
  BY <1>1 DEF CompactWrite, WriteFile, memory
<1>4. DifferOnlyAt(files, files', n) /\ n \in DOMAIN files' /\ files'[n] = Compacted
  BY <1>3 DEF DifferOnlyAt
<1>5. /\ MirrorOK' /\ StraysOK' /\ HistoryOK' /\ RangesOK' /\ LostTableOK'
      /\ AllReadable(m, files')
      /\ \A k \in Keys : TableView(m, files', k) = TableView(m, files, k)
  BY <1>1, <1>2, <1>3, <1>4, TouchNext
<1>6. ASSUME NEW k \in Keys PROVE Visible(Compacted[k]) = TableView(m, files, k)
  <2> DEFINE b == Merge(Contents(m, files))
  <2>1. b[k] = Newest(files, TableIds(m), k)
    BY <1>2, <1>3, MergeIsNewest
  <2>2. Compacted[k] = IF b[k] = Tombstone THEN Absent ELSE b[k]
    BY <1>1 DEF Compacted, DropTombstones
  <2> HIDE DEF b
  <2>3. Visible(Compacted[k]) = Visible(b[k])
    BY <2>2 DEF Visible
  <2> QED  BY <1>3, <2>1, <2>3 DEF TableView, Base
<1>7. FlushOK' /\ CompactOK'
  BY <1>3, <1>4, <1>5, <1>6 DEF FlushOK, CompactOK
<1>8. ViewKept
  BY <1>3, <1>5 DEF ViewKept
<1> QED  BY <1>5, <1>7, <1>8 DEF TablesOK

\* SSTable::write that does not finish.
LEMMA TearStep ==
    ASSUME StorageInv, TablesOK, FilesOK', TearFile(manifest.next),
           pc \in {"flush_write", "compact_write"},
           manifestFile' = manifestFile,
           \/ pc' = "ready" /\ manifest' = manifest /\ mem' = mem
           \/ pc' = "down" /\ manifest.next <= manifestFile.next + 1
    PROVE  TablesOK' /\ ViewKept
<1> DEFINE m == manifestFile
           n == manifest.next
<1>1. Running
  BY DEF Running, Writing
<1>2. TableFiles(files) /\ n \in Nat /\ TableFiles(files')
  BY <1>1, OnDiskFacts, RunningFacts DEF FilesOK, TableFiles
<1>3. files' = [i \in DOMAIN files \ {n} |-> files[i]]
  BY DEF TearFile
<1>4. DifferOnlyAt(files, files', n) /\ n \notin DOMAIN files'
  BY <1>3 DEF DifferOnlyAt
<1>5. /\ MirrorOK' /\ StraysOK' /\ HistoryOK' /\ RangesOK' /\ LostTableOK'
      /\ AllReadable(m, files') <=> AllReadable(m, files)
      /\ AllReadable(m, files) =>
            \A k \in Keys : TableView(m, files', k) = TableView(m, files, k)
  BY <1>1, <1>2, <1>4, TouchNext
<1>6. FlushOK' /\ CompactOK'
  BY DEF FlushOK, CompactOK
<1>7. ViewKept
  <2>1. CASE AllReadable(m, files)
    BY <1>5, <2>1 DEF ViewKept
  <2>2. CASE ~AllReadable(m, files)
    <3> SUFFICES ASSUME NEW k \in Keys
                 PROVE  TableView(m, files', k) = TableView(m, files, k)
      BY DEF ViewKept
    <3>1. \A id \in RebuiltIds(files) : id < n
      BY <1>1, <2>2 DEF TablesOK, LostTableOK
    <3>2. n \notin HoldersIn(files, DOMAIN files, k)
      BY <1>2, <3>1, HoldersHaveData
    <3>3. /\ HoldersIn(files', DOMAIN files', k) = HoldersIn(files, DOMAIN files, k)
          /\ \A id \in HoldersIn(files, DOMAIN files, k) : files'[id][k] = files[id][k]
      BY <1>3, <3>2 DEF HoldersIn
    <3>4. Newest(files', DOMAIN files', k) = Newest(files, DOMAIN files, k)
      BY <1>2, <3>3, NewestSame
    <3> QED  BY <1>5, <2>2, <3>4 DEF TableView, Base
  <2> QED  BY <2>1, <2>2
<1> QED  BY <1>5, <1>6, <1>7 DEF TablesOK

\* What a file adds that is newer than every other one.
LEMMA TopFile ==
    ASSUME NEW fs, TableFiles(fs), NEW n \in DOMAIN fs, NEW S, NEW k \in Keys,
           \A id \in S : id \in Nat /\ id < n
    PROVE  Newest(fs, S \cup {n}, k) =
            IF fs[n][k] = Absent THEN Newest(fs, S, k) ELSE fs[n][k]
<1> DEFINE T == S \cup {n}
<1>1. n \in Nat /\ n \in DOMAIN fs \cap T
  BY DEF TableFiles
<1>2. \A id \in HoldersIn(fs, S, k) : id < n
  BY DEF HoldersIn
<1>3. n \notin HoldersIn(fs, S, k)
  BY <1>1, <1>2
<1>4. HoldersIn(fs, T, k) \ {n} = HoldersIn(fs, S, k) \ {n}
  BY DEF HoldersIn
<1> HIDE DEF T
<1>5. Newest(fs, T, k) = IF fs[n][k] = Absent THEN Newest(fs, S, k) ELSE fs[n][k]
  BY <1>1, <1>2, <1>3, <1>4, NewestTop
<1> QED  BY <1>5 DEF T

\* One file alone.
LEMMA OneFile ==
    ASSUME NEW fs, TableFiles(fs), NEW n \in DOMAIN fs, NEW k \in Keys
    PROVE  Newest(fs, {n}, k) = fs[n][k]
<1> DEFINE S == {}
<1>1. \A id \in S : id \in Nat /\ id < n
  OBVIOUS
<1>2. Newest(fs, S, k) = Absent
  BY DEF Newest, HoldersIn
<1>3. S \cup {n} = {n}
  OBVIOUS
<1> HIDE DEF S
<1>4. Newest(fs, S \cup {n}, k) =
        IF fs[n][k] = Absent THEN Newest(fs, S, k) ELSE fs[n][k]
  BY <1>1, TopFile
<1> QED  BY <1>2, <1>3, <1>4

\* Files up to and including n.
LEMMA BelowNext ==
    ASSUME NEW fs, TableFiles(fs), NEW n \in DOMAIN fs
    PROVE  /\ Below(fs, n + 1) = Below(fs, n) \cup {n}
           /\ \A id \in Below(fs, n) : id \in Nat /\ id < n
<1>1. n \in Nat /\ \A id \in DOMAIN fs : id \in Nat
  BY DEF TableFiles
<1>2. \A id \in DOMAIN fs : id < n + 1 <=> id < n \/ id = n
  BY <1>1
<1> QED  BY <1>1, <1>2 DEF Below

\* What the newest of these files adds.
LEMMA NewestBelowNext ==
    ASSUME NEW fs, TableFiles(fs), NEW n \in DOMAIN fs, NEW k \in Keys
    PROVE  Newest(fs, Below(fs, n + 1), k) =
            IF fs[n][k] = Absent THEN Newest(fs, Below(fs, n), k) ELSE fs[n][k]
<1> DEFINE S == Below(fs, n)
<1>1. (\A id \in S : id \in Nat /\ id < n) /\ Below(fs, n + 1) = S \cup {n}
  BY BelowNext
<1> HIDE DEF S
<1>2. Newest(fs, S \cup {n}, k) = IF fs[n][k] = Absent THEN Newest(fs, S, k) ELSE fs[n][k]
  BY <1>1, TopFile
<1> QED  BY <1>1, <1>2 DEF S

\* Manifest::add_table of the file just written.
LEMMA PublishStep ==
    ASSUME StorageInv, TablesOK, PublishTable, files' = files,
           \/ pc = "flush_publish" /\ pc' = "flush_reset"
           \/ pc = "compact_publish" /\ pc' = "compact_retire"
    PROVE  LET n == manifest.next
           IN /\ MirrorOK' /\ StraysOK' /\ HistoryOK' /\ RangesOK'
              /\ n \in DOMAIN files
              /\ manifestFile'.next = n + 1 /\ manifest' = manifestFile'
              /\ manifestFile'.tables =
                    Append(manifestFile.tables, Metadata(n, files[n]))
              /\ TableIds(manifestFile') = TableIds(manifestFile) \cup {n}
              /\ manifestFile'.tables # << >>
              /\ LastTable'.id = n
              /\ AllReadable(manifestFile', files) <=> AllReadable(manifestFile, files)
              /\ \A k \in Keys : TableView(manifestFile', files, k) =
                    IF AllReadable(manifestFile, files) /\ files[n][k] # Absent
                    THEN files[n][k] ELSE TableView(manifestFile, files, k)
<1> DEFINE m == manifestFile
           F == m.next
           n == manifest.next
           t == Metadata(n, files[n])
           N == Len(m.tables)
<1>1. Running /\ Publishing
  BY DEF Publishing, Running, Writing
<1>2. /\ TableFiles(files) /\ n \in Nat /\ F \in Nat /\ F <= n
      /\ manifest \in Manifests /\ Ordered(manifest) /\ manifest.tables = m.tables
      /\ TableIds(manifest) = TableIds(m)
      /\ \A id \in TableIds(m) : id \in Nat /\ id < n
      /\ N \in Nat /\ DOMAIN m.tables = 1 .. N
      /\ m.tables \in Seq(Table)
  BY <1>1, OnDiskFacts, RunningFacts, ManifestParts
<1>3. n \in DOMAIN files
  BY <1>1 DEF StorageInv, Publishing
<1>4. t \in Table /\ t.id = n /\ t.range = KeyRange(files[n])
  BY <1>2, MetadataType DEF Metadata
<1>5. manifest' = AddTable(manifest, t) /\ manifestFile' = manifest'
  BY DEF PublishTable
<1>6. manifestFile'.next = n + 1 /\ manifestFile'.tables = Append(m.tables, t)
  <2>1. n >= n
    BY <1>2
  <2> QED  BY <1>2, <1>4, <1>5, <2>1 DEF AddTable
<1>7. TableIds(manifestFile') = TableIds(m) \cup {n}
  BY <1>2, <1>4, <1>5, AddTableOrdered
<1> HIDE DEF t, m, n, N, F
<1>8. /\ Len(manifestFile'.tables) = N + 1
      /\ DOMAIN manifestFile'.tables = 1 .. N + 1
      /\ \A i \in 1 .. N : manifestFile'.tables[i] = m.tables[i]
      /\ manifestFile'.tables[N + 1] = t
      /\ manifestFile'.tables # << >>
  BY <1>2, <1>4, <1>6 DEF N
<1>9. MirrorOK'
  <2>1. manifestFile'.next <= manifest'.next
    BY <1>2, <1>5, <1>6
  <2> QED  BY <1>5, <1>8, <2>1 DEF MirrorOK
<1>10. StraysOK'
  <2>1. \A id \in RebuiltIds(files) : id \in Nat /\ (id <= F + 1 \/ id <= n)
    BY <1>2 DEF TablesOK, StraysOK, RebuiltIds, TableFiles, m, n, F
  <2>2. \A id \in RebuiltIds(files) : id <= n + 1 /\ id <= (n + 1) + 1
    BY <1>2, <2>1
  <2>3. ASSUME pc' = "compact_retire" PROVE \A id \in RebuiltIds(files) : id < n + 1
    <3>1. n = F /\ \A id \in RebuiltIds(files) : id <= F
      BY <2>3 DEF TablesOK, StraysOK, MirrorOK, n, F, m
    <3> QED  BY <1>2, <2>1, <3>1
  <2> QED  BY <1>6, <2>2, <2>3 DEF StraysOK
<1>11. RangesOK'
  <2> SUFFICES ASSUME NEW i \in 1 .. N + 1, manifestFile'.tables[i].id \in DOMAIN files
               PROVE  manifestFile'.tables[i].range =
                      KeyRange(files[manifestFile'.tables[i].id])
    BY <1>8 DEF RangesOK
  <2>1. CASE i = N + 1
    BY <1>4, <1>8, <2>1
  <2>2. CASE i \in 1 .. N
    BY <1>2, <1>8, <2>2 DEF TablesOK, RangesOK, m
  <2> QED  BY <1>2, <2>1, <2>2
<1>12. AllReadable(manifestFile', files) <=> AllReadable(m, files)
  BY <1>3, <1>7 DEF AllReadable
<1>13. ASSUME NEW k \in Keys
       PROVE  /\ Newest(files, TableIds(m) \cup {n}, k) =
                    IF files[n][k] = Absent THEN Newest(files, TableIds(m), k)
                                            ELSE files[n][k]
              /\ Newest(files, Below(files, n + 1), k) =
                    IF files[n][k] = Absent THEN Newest(files, Below(files, n), k)
                                            ELSE files[n][k]
  <2>1. Newest(files, TableIds(m) \cup {n}, k) =
            IF files[n][k] = Absent THEN Newest(files, TableIds(m), k) ELSE files[n][k]
    BY <1>2, <1>3, TopFile
  <2> QED  BY <1>2, <1>3, <2>1, NewestBelowNext
<1>14. ASSUME NEW k \in Keys
       PROVE  TableView(manifestFile', files, k) =
                IF AllReadable(m, files) /\ files[n][k] # Absent
                THEN files[n][k] ELSE TableView(m, files, k)
  <2>1. CASE AllReadable(m, files)
    BY <1>7, <1>12, <1>13, <2>1 DEF TableView, Base, Visible
  <2>2. CASE ~AllReadable(m, files)
    BY <1>12, <2>2 DEF TableView, Base
  <2> QED  BY <2>1, <2>2
<1>15. HistoryOK'
  <2> SUFFICES ASSUME AllReadable(m, files), NEW k \in Keys
               PROVE  Visible(Newest(files, Below(files, n + 1), k)) =
                      TableView(manifestFile', files, k)
    BY <1>5, <1>6, <1>12 DEF HistoryOK
  <2>1. ASSUME files[n][k] = Absent
        PROVE  Visible(Newest(files, Below(files, n), k)) = TableView(m, files, k)
    <3>1. CASE pc = "flush_publish"
      <4>1. mem[k] = Absent
        BY <2>1, <3>1 DEF TablesOK, FlushOK, n
      <4> QED  BY <1>1, <4>1 DEF TablesOK, HistoryOK, m, n
    <3>2. CASE pc = "compact_publish"
      BY <3>2 DEF TablesOK, HistoryOK, MirrorOK, m, n
    <3> QED  BY <3>1, <3>2
  <2> QED  BY <1>13, <1>14, <2>1 DEF Visible
<1>16. LastTable'.id = n
  BY <1>4, <1>8 DEF LastTable
<1> QED
  BY <1>3, <1>5, <1>6, <1>7, <1>8, <1>9, <1>10, <1>11, <1>12, <1>14, <1>15, <1>16
  DEF m, n, t

\* A flush publishes its table.
LEMMA FlushPublishStep ==
    ASSUME StorageInv, TablesOK, FlushPublish
    PROVE  TablesOK' /\ ViewFlushed
<1> DEFINE m == manifestFile
           n == manifest.next
           N == Len(m.tables)
<1>1. /\ Running /\ PublishTable /\ files' = files
      /\ pc = "flush_publish" /\ pc' = "flush_reset" /\ mem' = mem
  BY DEF FlushPublish, Running, Writing
<1>2. /\ MirrorOK' /\ StraysOK' /\ HistoryOK' /\ RangesOK'
      /\ n \in DOMAIN files
      /\ manifestFile'.next = n + 1 /\ manifest' = manifestFile'
      /\ manifestFile'.tables = Append(m.tables, Metadata(n, files[n]))
      /\ TableIds(manifestFile') = TableIds(m) \cup {n}
      /\ manifestFile'.tables # << >>
      /\ LastTable'.id = n
      /\ AllReadable(manifestFile', files) <=> AllReadable(m, files)
      /\ \A k \in Keys : TableView(manifestFile', files, k) =
            IF AllReadable(m, files) /\ files[n][k] # Absent
            THEN files[n][k] ELSE TableView(m, files, k)
  BY <1>1, PublishStep
<1>3. /\ n \in Nat /\ N \in Nat /\ DOMAIN m.tables = 1 .. N
      /\ TableFiles(files) /\ m.tables \in Seq(Table)
      /\ \A id \in RebuiltIds(files) : id \in Nat
  BY <1>1, OnDiskFacts, RunningFacts, ManifestParts DEF RebuiltIds, TableFiles
<1>4. files[n] = mem
  BY <1>1 DEF TablesOK, FlushOK
<1>5. FlushOK' /\ CompactOK'
  <2>1. n = manifestFile'.next - 1
    BY <1>2, <1>3
  <2> QED  BY <1>1, <1>2, <1>4, <2>1 DEF FlushOK, CompactOK
<1>6. LostTableOK'
  <2> DEFINE first == m.tables[1]
  <2> SUFFICES ASSUME ~AllReadable(m, files)
               PROVE  /\ manifestFile'.tables[1] = first
                      /\ first.id \notin DOMAIN files
                      /\ \A i \in 2 .. Len(manifestFile'.tables) :
                            manifestFile'.tables[i].id \in DOMAIN files
                      /\ \A id \in DOMAIN files : first.id < id =>
                            \A k \in Present(files[id]) : Overridden(id, k)'
                      /\ \A id \in RebuiltIds(files) : id <= n + 1 /\ id < n + 1
                      /\ \A k \in Keys \ first.range :
                            Visible(Newest(files, Below(files, first.id), k)) = Tombstone
    BY <1>1, <1>2 DEF LostTableOK
  <2>1. /\ m.tables # << >>
        /\ first.id \notin DOMAIN files
        /\ \A i \in 2 .. N : m.tables[i].id \in DOMAIN files
        /\ \A id \in DOMAIN files : first.id < id =>
              \A k \in Present(files[id]) : Overridden(id, k)
        /\ \A id \in RebuiltIds(files) : id <= n
        /\ \A k \in Keys \ first.range :
              Visible(Newest(files, Below(files, first.id), k)) = Tombstone
    BY <1>1 DEF TablesOK, LostTableOK
  <2>2. N # 0
    BY <1>3, <2>1
  <2> DEFINE t == Metadata(n, files[n])
  <2>3. t.id = n
    BY DEF Metadata
  <2> HIDE DEF first, m, n, N, t
  <2>4. /\ Len(manifestFile'.tables) = N + 1
        /\ \A i \in 1 .. N : manifestFile'.tables[i] = m.tables[i]
        /\ manifestFile'.tables[N + 1] = t
    <3>1. t \in Table
      BY <1>3, MetadataType DEF t
    <3> QED  BY <1>2, <1>3, <3>1 DEF N, m, n, t
  <2>5. \A i \in 2 .. N + 1 : manifestFile'.tables[i].id \in DOMAIN files
    <3> SUFFICES ASSUME NEW i \in 2 .. N + 1
                 PROVE  manifestFile'.tables[i].id \in DOMAIN files
      OBVIOUS
    <3>1. CASE i = N + 1
      BY <1>2, <2>3, <2>4, <3>1
    <3>2. CASE i \in 2 .. N
      BY <1>3, <2>1, <2>4, <3>2
    <3> QED  BY <1>3, <3>1, <3>2
  <2>6. \A id \in RebuiltIds(files) : id <= n + 1 /\ id < n + 1
    BY <1>3, <2>1
  <2>7. manifestFile'.tables[1] = first
    BY <1>3, <2>2, <2>4 DEF first
  <2>8. ASSUME NEW id \in DOMAIN files, first.id < id, NEW k \in Present(files[id])
        PROVE  Overridden(id, k)'
    <3>1. Overridden(id, k)
      BY <2>1, <2>8
    <3>2. TableIds(m) \subseteq TableIds(manifestFile)'
      BY <1>2
    <3> QED  BY <1>1, <3>1, <3>2 DEF Overridden, m
  <2> QED  BY <2>1, <2>4, <2>5, <2>6, <2>7, <2>8
<1>7. ViewFlushed
  BY <1>1, <1>2, <1>4 DEF ViewFlushed
<1> QED  BY <1>2, <1>5, <1>6, <1>7 DEF TablesOK

\* A compaction publishes its table.
LEMMA CompactPublishStep ==
    ASSUME StorageInv, TablesOK, CompactPublish
    PROVE  TablesOK' /\ ViewKept
<1> DEFINE m == manifestFile
           n == m.next
<1>1. /\ Running /\ PublishTable /\ files' = files
      /\ pc = "compact_publish" /\ pc' = "compact_retire"
  BY DEF CompactPublish, Running, Writing
<1>2. manifest.next = n
  BY <1>1 DEF TablesOK, MirrorOK
<1>3. /\ MirrorOK' /\ StraysOK' /\ HistoryOK' /\ RangesOK'
      /\ n \in DOMAIN files
      /\ manifestFile'.next = n + 1
      /\ manifestFile'.tables # << >>
      /\ LastTable'.id = n
      /\ AllReadable(manifestFile', files) <=> AllReadable(m, files)
      /\ \A k \in Keys : TableView(manifestFile', files, k) =
            IF AllReadable(m, files) /\ files[n][k] # Absent
            THEN files[n][k] ELSE TableView(m, files, k)
  BY <1>1, <1>2, PublishStep
<1>4. n \in Nat /\ (n + 1) - 1 = n
  BY OnDiskFacts
<1>5. /\ AllReadable(m, files)
      /\ \A k \in Keys : Visible(files[n][k]) = TableView(m, files, k)
  BY <1>1 DEF TablesOK, CompactOK
<1>6. \A k \in Keys : Visible(Newest(files, Below(files, n), k)) = TableView(m, files, k)
  BY <1>5 DEF TablesOK, HistoryOK
<1>7. ReplacesOlder(LastTable.id)'
  BY <1>1, <1>3, <1>4, <1>5, <1>6 DEF ReplacesOlder
<1>8. FlushOK' /\ CompactOK' /\ LostTableOK'
  BY <1>1, <1>3, <1>5, <1>7 DEF FlushOK, CompactOK, LostTableOK
<1>9. ViewKept
  BY <1>1, <1>3, <1>5 DEF ViewKept, Visible
<1> QED  BY <1>3, <1>8, <1>9 DEF TablesOK

\* What a restart finds in the tables when the file of a flush is gone again.
ViewFallsBack ==
    \A k \in Keys :
        \/ TableView(manifestFile', files', k) = TableView(manifestFile, files, k)
        \/ /\ pc = "flush_publish" /\ ~AllReadable(manifestFile, files)
           /\ mem[k] # Absent
           /\ TableView(manifestFile', files', k) =
              Visible(Newest(files, Below(files, manifest.next), k))

\* Manifest::add_table fails and is rolled back; the new file is removed, or
\* stays behind.
LEMMA PublishFailsStep ==
    ASSUME StorageInv, TablesOK, FilesOK', PublishFails
    PROVE  TablesOK' /\ ViewFallsBack
<1> DEFINE m == manifestFile
           F == m.next
           n == manifest.next
           v == manifest'.next
<1>1. /\ Running /\ Running' /\ pc \in {"flush_publish", "compact_publish"} /\ pc' = "ready"
      /\ manifest' = UndoAddTable(manifest, Metadata(n, files[n]))
      /\ files' = files \/ files' = [i \in DOMAIN files \ {n} |-> files[i]]
      /\ mem' = mem /\ m' = m
  BY DEF PublishFails, Running, Writing, RemoveFiles, Return
<1>2. /\ TableFiles(files) /\ TableFiles(files')
      /\ n \in Nat /\ F \in Nat /\ F <= n
      /\ manifest.tables = m.tables
      /\ \A id \in TableIds(m) : id \in Nat /\ id < n
      /\ Len(m.tables) \in Nat
      /\ DOMAIN m.tables = 1 .. Len(m.tables)
  BY <1>1, OnDiskFacts, RunningFacts DEF FilesOK, TableFiles
<1>3. /\ pc = "flush_publish" => n \in DOMAIN files /\ files[n] = mem
      /\ pc = "compact_publish" =>
            /\ n = F /\ n \in DOMAIN files /\ AllReadable(m, files)
            /\ \A k \in Keys : Visible(files[n][k]) = TableView(m, files, k)
  BY DEF TablesOK, FlushOK, CompactOK, MirrorOK
<1>4. /\ manifest'.tables = m.tables
      /\ m.tables # << >> => v = n + 1
      /\ m.tables = << >> => v = 1 /\ n = 1 /\ F = 1
  <2>1. n >= n
    BY <1>2
  <2>2. AddTable(manifest, Metadata(n, files[n])).next = n + 1
    BY <2>1 DEF AddTable, Metadata
  <2>3. m.tables = << >> => n = 1 /\ F = 1
    BY <1>1 DEF TablesOK, MirrorOK
  <2> QED  BY <1>1, <1>2, <2>2, <2>3 DEF UndoAddTable
<1>5. \A i \in DOMAIN m.tables : m.tables[i].id \in TableIds(m)
  BY DEF TableIds
<1> HIDE DEF m, n, F, v
<1>6. /\ v \in Nat /\ F <= v /\ n <= v
      /\ v = n \/ v = n + 1
  BY <1>2, <1>4
<1>7. n \notin TableIds(m)
  BY <1>2
<1>8. /\ DOMAIN files' \ {n} = DOMAIN files \ {n}
      /\ \A id \in DOMAIN files \ {n} : files'[id] = files[id]
      /\ DOMAIN files' \subseteq DOMAIN files
      /\ \A id \in DOMAIN files' : files'[id] = files[id]
  BY <1>1
<1>9. DifferOnlyAt(files, files', n)
  BY <1>8 DEF DifferOnlyAt
<1>10. AllReadable(m, files') <=> AllReadable(m, files)
  BY <1>7, <1>8 DEF AllReadable
<1>11. ASSUME NEW k \in Keys
       PROVE  /\ Newest(files', TableIds(m), k) = Newest(files, TableIds(m), k)
              /\ \A b \in Nat : b <= n => Newest(files', Below(files', b), k) =
                                          Newest(files, Below(files, b), k)
  BY <1>2, <1>7, <1>9, OtherFilesAgree
<1>12. AllReadable(m, files) =>
        \A k \in Keys : TableView(m, files', k) = TableView(m, files, k)
  BY <1>10, <1>11 DEF TableView, Base
<1>13. /\ RebuiltIds(files') \subseteq RebuiltIds(files)
       /\ RebuiltIds(files) \subseteq DOMAIN files
  BY <1>8 DEF RebuiltIds
<1>14. MirrorOK'
  BY <1>1, <1>4, <1>6 DEF MirrorOK, m, F, v
<1>15. StraysOK'
  <2>1. \A id \in RebuiltIds(files) : id \in Nat /\ (id <= F + 1 \/ id <= n)
    BY <1>2, <1>13 DEF TablesOK, StraysOK, TableFiles, F, n, m
  <2>2. \A id \in RebuiltIds(files') : id <= F + 1 \/ id <= v
    BY <1>2, <1>6, <1>13, <2>1
  <2> QED  BY <1>1, <2>2 DEF StraysOK, F, v, m
<1>16. HistoryOK'
  <2> SUFFICES ASSUME AllReadable(m, files'), NEW k \in Keys
               PROVE  /\ Visible(Newest(files', Below(files', F), k)) =
                         TableView(m, files', k)
                      /\ mem[k] = Absent =>
                            Visible(Newest(files', Below(files', v), k)) =
                            TableView(m, files', k)
    BY <1>1 DEF HistoryOK, m, v, F
  <2>1. /\ Visible(Newest(files, Below(files, F), k)) = TableView(m, files, k)
        /\ mem[k] = Absent =>
              Visible(Newest(files, Below(files, n), k)) = TableView(m, files, k)
    BY <1>1, <1>10 DEF TablesOK, HistoryOK, m, n, F
  <2>2. TableView(m, files', k) = TableView(m, files, k)
    BY <1>10, <1>12
  <2>3. Newest(files', Below(files', F), k) = Newest(files, Below(files, F), k)
    BY <1>2, <1>11
  <2>4. n <= n
    BY <1>2
  <2>5. Newest(files', Below(files', n), k) = Newest(files, Below(files, n), k)
    BY <1>2, <1>11, <2>4
  <2>6. ASSUME mem[k] = Absent
        PROVE  Visible(Newest(files', Below(files', v), k)) = TableView(m, files, k)
    <3>1. CASE v = n
      BY <2>1, <2>5, <2>6, <3>1
    <3>2. CASE v = n + 1 /\ n \notin DOMAIN files'
      <4>1. Below(files', n + 1) = Below(files', n)
        <5>1. \A id \in DOMAIN files' : id \in Nat /\ id # n
          BY <1>2, <3>2 DEF TableFiles
        <5>2. \A id \in DOMAIN files' : id < n + 1 <=> id < n
          BY <1>2, <5>1
        <5> QED  BY <5>2 DEF Below
      <4> QED  BY <2>1, <2>5, <2>6, <3>2, <4>1
    <3>3. CASE v = n + 1 /\ n \in DOMAIN files'
      <4>1. Newest(files', Below(files', n + 1), k) =
              IF files'[n][k] = Absent THEN Newest(files', Below(files', n), k)
                                       ELSE files'[n][k]
        BY <1>2, <3>3, NewestBelowNext
      <4>2. files'[n] = files[n]
        BY <1>8, <3>3
      <4>3. files[n][k] # Absent => Visible(files[n][k]) = TableView(m, files, k)
        BY <1>1, <1>3, <2>6
      <4> QED  BY <2>1, <2>5, <2>6, <3>3, <4>1, <4>2, <4>3
    <3> QED  BY <1>6, <3>1, <3>2, <3>3
  <2> QED  BY <2>1, <2>2, <2>3, <2>6
<1>17. RangesOK'
  <2> SUFFICES ASSUME NEW i \in DOMAIN m.tables, m.tables[i].id \in DOMAIN files'
               PROVE  m.tables[i].range = KeyRange(files'[m.tables[i].id])
    BY <1>1 DEF RangesOK, m
  <2>1. m.tables[i].id \in DOMAIN files /\ files'[m.tables[i].id] = files[m.tables[i].id]
    BY <1>8
  <2> QED  BY <2>1 DEF TablesOK, RangesOK, m
<1>18. ASSUME ~AllReadable(m, files)
       PROVE  /\ pc = "flush_publish" /\ m.tables # << >>
              /\ \A id \in RebuiltIds(files) : id \in Nat /\ id <= n
  BY <1>1, <1>2, <1>3, <1>13, <1>18 DEF TablesOK, LostTableOK, TableFiles, m, n
<1>19. LostTableOK'
  <2> DEFINE first == m.tables[1]
  <2> SUFFICES ASSUME ~AllReadable(m, files')
               PROVE
        /\ m.tables # << >>
        /\ first.id \notin DOMAIN files'
        /\ \A i \in 2 .. Len(m.tables) : m.tables[i].id \in DOMAIN files'
        /\ \A id \in DOMAIN files' : first.id < id =>
              \A k \in Present(files'[id]) : Overridden(id, k)'
        /\ \A id \in RebuiltIds(files') : id <= v /\ id < v
        /\ \A k \in Keys \ first.range :
              Visible(Newest(files', Below(files', first.id), k)) = Tombstone
    BY <1>1 DEF LostTableOK, m, v
  <2>1. ~AllReadable(m, files)
    BY <1>10
  <2>2. /\ m.tables # << >>
        /\ first.id \notin DOMAIN files
        /\ \A i \in 2 .. Len(m.tables) : m.tables[i].id \in DOMAIN files
        /\ \A id \in DOMAIN files : first.id < id =>
              \A k \in Present(files[id]) : Overridden(id, k)
        /\ \A k \in Keys \ first.range :
              Visible(Newest(files, Below(files, first.id), k)) = Tombstone
    BY <1>1, <2>1 DEF TablesOK, LostTableOK, m
  <2>3. 1 \in DOMAIN m.tables
    <3>1. Len(m.tables) # 0
      BY <2>2, OnDiskFacts, ManifestParts DEF m
    <3> QED  BY <1>2, <3>1
  <2>4. first.id \in Nat /\ first.id <= n
    BY <1>2, <1>5, <2>3
  <2> HIDE DEF first
  <2>5. first.id \notin DOMAIN files'
    BY <1>8, <2>2
  <2>6. \A i \in 2 .. Len(m.tables) : m.tables[i].id \in DOMAIN files'
    BY <1>2, <1>5, <1>7, <1>8, <2>2
  <2>7. ASSUME NEW id \in DOMAIN files', first.id < id, NEW k \in Present(files'[id])
        PROVE  Overridden(id, k)'
    <3>1. Overridden(id, k)
      BY <1>8, <2>2, <2>7
    <3>2. CASE mem[k] # Absent
      BY <1>1, <3>2 DEF Overridden
    <3>3. CASE mem[k] = Absent
      <4>1. PICK j \in TableIds(m) \cap DOMAIN files : id <= j /\ files[j][k] # Absent
        BY <3>1, <3>3 DEF Overridden, m
      <4>2. j \in TableIds(m)' \cap DOMAIN files' /\ files'[j] = files[j]
        BY <1>1, <1>7, <1>8, <4>1 DEF TableIds
      <4> QED  BY <4>1, <4>2 DEF Overridden, m
    <3> QED  BY <3>2, <3>3
  <2>8. \A id \in RebuiltIds(files') : id <= v /\ id < v
    <3>1. v = n + 1 /\ \A id \in RebuiltIds(files') : id \in Nat /\ id <= n
      BY <1>4, <1>13, <1>18, <2>1, <2>2
    <3> QED  BY <1>2, <3>1
  <2>9. \A k \in Keys \ first.range :
            Visible(Newest(files', Below(files', first.id), k)) = Tombstone
    BY <1>11, <2>2, <2>4
  <2> QED  BY <2>2, <2>5, <2>6, <2>7, <2>8, <2>9
<1>20. FlushOK' /\ CompactOK'
  BY <1>1 DEF FlushOK, CompactOK
<1>21. ViewFallsBack
  <2> SUFFICES ASSUME NEW k \in Keys
               PROVE  \/ TableView(m, files', k) = TableView(m, files, k)
                      \/ /\ pc = "flush_publish" /\ ~AllReadable(m, files)
                         /\ mem[k] # Absent
                         /\ TableView(m, files', k) =
                            Visible(Newest(files, Below(files, n), k))
    BY <1>1 DEF ViewFallsBack, m, n
  <2>1. CASE AllReadable(m, files) \/ files' = files
    BY <1>12, <2>1
  <2>2. CASE ~AllReadable(m, files) /\ files' = [i \in DOMAIN files \ {n} |-> files[i]]
    <3>1. HoldersIn(files', DOMAIN files', k) = HoldersIn(files, DOMAIN files, k) \ {n}
      BY <2>2 DEF HoldersIn
    <3>2. ASSUME mem[k] = Absent PROVE TableView(m, files', k) = TableView(m, files, k)
      <4>1. n \notin HoldersIn(files, DOMAIN files, k)
        BY <1>3, <1>18, <2>2, <3>2 DEF HoldersIn
      <4>2. /\ HoldersIn(files', DOMAIN files', k) = HoldersIn(files, DOMAIN files, k)
            /\ \A id \in HoldersIn(files, DOMAIN files, k) : files'[id][k] = files[id][k]
        BY <2>2, <3>1, <4>1 DEF HoldersIn
      <4>3. Newest(files', DOMAIN files', k) = Newest(files, DOMAIN files, k)
        BY <1>2, <4>2, NewestSame
      <4> QED  BY <1>10, <2>2, <4>3 DEF TableView, Base
    <3>3. TableView(m, files', k) = Visible(Newest(files, Below(files, n), k))
      <4>1. \A id \in HoldersIn(files, DOMAIN files, k) : id \in Nat /\ id <= n
        BY <1>18, <2>2, HoldersHaveData
      <4>2. \A id \in HoldersIn(files, DOMAIN files, k) : id < n <=> id # n
        BY <1>2, <4>1
      <4>3. /\ HoldersIn(files', DOMAIN files', k) = HoldersIn(files, Below(files, n), k)
            /\ \A id \in HoldersIn(files, Below(files, n), k) : files'[id][k] = files[id][k]
        BY <2>2, <3>1, <4>2 DEF HoldersIn, Below
      <4>4. Newest(files', DOMAIN files', k) = Newest(files, Below(files, n), k)
        BY <1>2, <4>3, NewestSame
      <4> QED  BY <1>10, <2>2, <4>4 DEF TableView, Base
    <3> QED  BY <1>18, <2>2, <3>2, <3>3
  <2> QED  BY <1>1, <2>1, <2>2 DEF n
<1> QED
  BY <1>14, <1>15, <1>16, <1>17, <1>19, <1>20, <1>21 DEF TablesOK

\* Of the tables of an ordered manifest only the newest one is left when the
\* others are removed.
LEMMA RetireLeavesLast ==
    ASSUME NEW m \in Manifests, Ordered(m), m.tables # << >>
    PROVE  LET N == Len(m.tables)
               r == RemoveTables(m, {m.tables[i].id : i \in 1 .. N - 1})
           IN /\ r.next = m.next
              /\ Len(r.tables) = 1
              /\ r.tables[1] = m.tables[N]
              /\ TableIds(r) = {m.tables[N].id}
              /\ N \in 1 .. N
<1> DEFINE ts == m.tables
           N == Len(ts)
           old == {ts[i].id : i \in 1 .. N - 1}
           P == {i \in DOMAIN ts : ts[i].id \notin old}
           r == RemoveTables(m, old)
<1>1. /\ N \in Nat /\ N # 0 /\ DOMAIN ts = 1 .. N
      /\ \A i \in DOMAIN ts : ts[i].id \in Nat
      /\ \A i, j \in DOMAIN ts : i < j => ts[i].id < ts[j].id
  BY ManifestParts DEF Ordered
<1>2. P = {N}
  <2>1. ASSUME NEW i \in 1 .. N - 1 PROVE i \in DOMAIN ts /\ ts[i].id < ts[N].id
    BY <1>1
  <2>2. ts[N].id \notin old
    <3> SUFFICES ASSUME NEW i \in 1 .. N - 1, ts[i].id = ts[N].id PROVE FALSE
      OBVIOUS
    <3>1. i \in 1 .. N /\ N \in 1 .. N /\ i < N
      BY <1>1
    <3>2. ts[i].id < ts[N].id /\ ts[i].id \in Nat /\ ts[N].id \in Nat
      BY <1>1, <3>1
    <3> QED  BY <3>2
  <2>3. \A i \in 1 .. N : i = N \/ i \in 1 .. N - 1
    BY <1>1
  <2> QED  BY <1>1, <2>2, <2>3
<1>3. r = [next |-> m.next, tables |-> [j \in DOMAIN Ascending(P) |-> ts[Ascending(P)[j]]]]
  BY DEF RemoveTables
<1> HIDE DEF P
<1>4. Cardinality(P) = 1 /\ IsFiniteSet(P)
  BY <1>2, FS_Singleton
<1>5. P \subseteq Nat
  BY <1>1, <1>2
<1>6. /\ DOMAIN Ascending(P) = 1 .. 1
      /\ \A j \in 1 .. 1 : Ascending(P)[j] \in P
  BY <1>4, <1>5, AscendingIsSorted
<1>7. DOMAIN r.tables = 1 .. 1 /\ r.tables[1] = ts[N] /\ r.next = m.next
  <2>1. Ascending(P)[1] = N /\ 1 \in 1 .. 1
    BY <1>2, <1>6
  <2>2. r.tables = [j \in 1 .. 1 |-> ts[Ascending(P)[j]]] /\ r.next = m.next
    BY <1>3, <1>6
  <2> QED  BY <2>1, <2>2
<1>8. r \in Manifests
  BY RemoveTablesOrdered
<1> HIDE DEF ts, old, r, N
<1>9. Len(r.tables) = 1
  <2>1. Len(r.tables) \in Nat /\ DOMAIN r.tables = 1 .. Len(r.tables)
    BY <1>8, ManifestParts
  <2>2. 1 .. 1 = 1 .. Len(r.tables)
    BY <1>7, <2>1
  <2>3. 1 \in 1 .. Len(r.tables)
    BY <2>2
  <2>4. Len(r.tables) \in 1 .. 1
    <3> DEFINE L == Len(r.tables)
    <3>1. L \in Nat /\ 1 <= L
      BY <2>1, <2>3
    <3> HIDE DEF L
    <3>2. L \in 1 .. L
      BY <3>1
    <3> QED  BY <2>2, <3>2 DEF L
  <2> QED  BY <2>4
<1>10. TableIds(r) = {ts[N].id}
  BY <1>7 DEF TableIds
<1>11. N \in 1 .. N
  BY <1>1
<1> QED  BY <1>7, <1>9, <1>10, <1>11 DEF r, old, N, ts

\* remove_tables takes the old tables out of the MANIFEST.
LEMMA CompactRetireStep ==
    ASSUME StorageInv, TablesOK, CompactRetire
    PROVE  TablesOK' /\ ViewKept
<1> DEFINE m == manifestFile
           N == Len(m.tables)
           r == LastTable.id
<1>1. /\ manifest = m /\ Running'
      /\ pc = "compact_retire" /\ pc' = "compact_unlink" /\ files' = files
      /\ manifest' = RemoveTables(m, {m.tables[i].id : i \in 1 .. N - 1})
      /\ manifestFile' = manifest'
  BY DEF CompactRetire, Running, Writing, TablesOK, MirrorOK, OldIds
<1>2. /\ TableFiles(files) /\ m \in Manifests /\ Ordered(m) /\ m.next \in Nat
      /\ DOMAIN m.tables = 1 .. N
  BY OnDiskFacts
<1>3. /\ AllReadable(m, files) /\ m.tables # << >>
      /\ r = m.next - 1 /\ r \in DOMAIN files
      /\ \A k \in Keys : Visible(files[r][k]) = Visible(Newest(files, Below(files, r), k))
  BY <1>1 DEF TablesOK, CompactOK, ReplacesOlder
<1>4. /\ manifestFile'.next = m.next
      /\ Len(manifestFile'.tables) = 1
      /\ manifestFile'.tables[1] = LastTable
      /\ TableIds(manifestFile') = {r}
      /\ N \in DOMAIN m.tables
  BY <1>1, <1>2, <1>3, RetireLeavesLast DEF LastTable
<1> HIDE DEF m, N
<1>5. LastTable' = LastTable
  BY <1>4 DEF LastTable
<1>6. AllReadable(manifestFile', files)
  BY <1>3, <1>4 DEF AllReadable
<1>7. r \in Nat /\ m.next = r + 1
  BY <1>2, <1>3 DEF TableFiles
<1> HIDE DEF r
<1>8. ASSUME NEW k \in Keys
      PROVE  Visible(Newest(files, Below(files, m.next), k)) = Visible(files[r][k])
  <2> DEFINE S == Below(files, r)
  <2>1. (\A id \in S : id \in Nat /\ id < r) /\ Below(files, r + 1) = S \cup {r}
    BY <1>2, <1>3, BelowNext
  <2>2. Visible(files[r][k]) = Visible(Newest(files, S, k))
    BY <1>3
  <2> HIDE DEF S
  <2>3. Newest(files, S \cup {r}, k) =
            IF files[r][k] = Absent THEN Newest(files, S, k) ELSE files[r][k]
    <3>1. TableFiles(files) /\ r \in DOMAIN files /\ \A id \in S : id \in Nat /\ id < r
      BY <1>2, <1>3, <2>1
    <3> QED  BY <3>1, TopFile
  <2> QED  BY <1>7, <2>1, <2>2, <2>3 DEF Visible
<1>9. ASSUME NEW k \in Keys
      PROVE  TableView(manifestFile', files, k) = Visible(files[r][k])
  <2>1. Newest(files, {r}, k) = files[r][k]
    <3>1. TableFiles(files) /\ r \in DOMAIN files
      BY <1>2, <1>3
    <3> QED  BY <3>1, OneFile
  <2> QED  BY <1>4, <1>6, <2>1 DEF TableView, Base
<1>10. ViewKept
  <2>1. \A k \in Keys : Visible(Newest(files, Below(files, m.next), k)) =
                        TableView(m, files, k)
    BY <1>3 DEF TablesOK, HistoryOK, m
  <2> QED  BY <1>1, <1>8, <1>9, <2>1 DEF ViewKept, m
<1>11. HistoryOK'
  <2>1. manifest'.next = m.next /\ manifestFile'.next = m.next
    BY <1>1, <1>4
  <2> QED  BY <1>1, <1>8, <1>9, <2>1 DEF HistoryOK
<1>12. RangesOK'
  <2>1. LastTable = m.tables[N] /\ r = m.tables[N].id
    BY DEF LastTable, m, N, r
  <2>2. LastTable.range = KeyRange(files[r])
    BY <1>3, <1>4, <2>1 DEF TablesOK, RangesOK, m
  <2>3. DOMAIN manifestFile'.tables = {1}
    <3>1. manifestFile' \in Manifests
      BY <1>1, <1>2, RemoveTablesOrdered
    <3>2. DOMAIN manifestFile'.tables = 1 .. 1
      BY <1>4, <3>1, ManifestParts
    <3> QED  BY <3>2
  <2> QED  BY <1>1, <1>4, <2>2, <2>3 DEF RangesOK, r
<1>13. StraysOK'
  <2>1. manifest'.next = manifest.next /\ manifestFile'.next = m.next
    BY <1>1, <1>4
  <2> QED  BY <1>1, <2>1 DEF TablesOK, StraysOK, m
<1>14. MirrorOK'
  <2>1. manifestFile'.tables # << >>
    BY <1>4
  <2>2. manifestFile'.next <= manifest'.next
    BY <1>1, <1>2, <1>4
  <2> QED  BY <1>1, <2>1, <2>2 DEF MirrorOK
<1>15. LostTableOK'
  BY <1>1, <1>6 DEF LostTableOK
<1>16. FlushOK' /\ CompactOK'
  BY <1>1, <1>3, <1>4, <1>5 DEF FlushOK, CompactOK, ReplacesOlder, r
<1> QED
  BY <1>10, <1>11, <1>12, <1>13, <1>14, <1>15, <1>16 DEF TablesOK

\* The last loop of compact removes the replacement table itself; the older
\* files show the same data.
LEMMA CompactUnlinkStep ==
    ASSUME StorageInv, TablesOK, FilesOK', CompactUnlink
    PROVE  TablesOK' /\ ViewKept
<1> DEFINE m == manifestFile
           r == LastTable.id
<1>1. /\ manifest = m /\ manifest' = manifest /\ manifestFile' = m
      /\ Running /\ pc = "compact_unlink" /\ pc' = "ready"
      /\ RemoveFiles(TableIds(m))
  BY DEF CompactUnlink, Running, Writing, TablesOK, MirrorOK, Return, memory
<1>2. CASE files' = files
  <2>1. KeysKept /\ Running'
    BY <1>1 DEF KeysKept, CompactUnlink, memory, Running
  <2> QED  BY <1>1, <1>2, <2>1, QuietStep
<1>3. CASE files' = [i \in DOMAIN files \ TableIds(m) |-> files[i]]
  <2>1. /\ TableFiles(files) /\ TableFiles(files') /\ m.next \in Nat
        /\ DOMAIN m.tables = 1 .. Len(m.tables)
    BY OnDiskFacts DEF FilesOK, TableFiles
  <2>2. /\ Len(m.tables) = 1
        /\ r = m.next - 1 /\ r \in DOMAIN files
        /\ \A k \in Keys : Visible(files[r][k]) =
                           Visible(Newest(files, Below(files, r), k))
        /\ \A id \in RebuiltIds(files) : id < m.next
    BY <1>1 DEF TablesOK, CompactOK, ReplacesOlder, StraysOK
  <2>3. DOMAIN m.tables = {1} /\ LastTable = m.tables[1]
    BY <2>1, <2>2 DEF LastTable
  <2>4. TableIds(m) = {r}
    BY <2>3 DEF TableIds
  <2> HIDE DEF m, r
  <2>5. r \in Nat /\ m.next = r + 1
    BY <2>1, <2>2 DEF TableFiles
  <2>6. DOMAIN files' = DOMAIN files \ {r} /\ \A i \in DOMAIN files' : files'[i] = files[i]
    BY <1>3, <2>4
  <2>7. AllReadable(m, files) /\ ~AllReadable(m, files')
    BY <2>2, <2>4, <2>6 DEF AllReadable
  <2>8. RebuiltIds(files') = RebuiltIds(files) \ {r}
    BY <2>6 DEF RebuiltIds
  <2>9. \A id \in RebuiltIds(files') : id \in Nat /\ id < r
    <3>1. \A id \in RebuiltIds(files') : id \in Nat /\ id # r /\ id < r + 1
      BY <2>1, <2>2, <2>5, <2>8 DEF RebuiltIds, TableFiles
    <3> QED  BY <2>5, <3>1
  <2>10. ASSUME NEW k \in Keys
         PROVE  /\ Newest(files', DOMAIN files', k) = Newest(files, Below(files, r), k)
                /\ Newest(files', Below(files', r), k) = Newest(files, Below(files, r), k)
    <3>1. DifferOnlyAt(files, files', r)
      BY <2>6 DEF DifferOnlyAt
    <3>2. r <= r
      BY <2>5
    <3>3. Newest(files', Below(files', r), k) = Newest(files, Below(files, r), k)
      BY <2>1, <2>5, <3>1, <3>2, OtherFilesAgree
    <3>4. HoldersIn(files', DOMAIN files', k) = HoldersIn(files', Below(files', r), k)
      <4>1. \A id \in HoldersIn(files', DOMAIN files', k) : id < r
        BY <2>9, HoldersHaveData
      <4> QED  BY <4>1 DEF HoldersIn, Below
    <3> QED  BY <3>3, <3>4 DEF Newest
  <2>11. ASSUME NEW k \in Keys PROVE TableView(m, files, k) = Visible(files[r][k])
    <3>1. TableFiles(files) /\ r \in DOMAIN files
      BY <2>1, <2>2
    <3>2. Newest(files, {r}, k) = files[r][k]
      BY <3>1, OneFile
    <3> QED  BY <2>4, <2>7, <3>2 DEF TableView, Base
  <2>12. ViewKept
    BY <1>1, <2>2, <2>7, <2>10, <2>11 DEF ViewKept, TableView, Base, m
  <2>13. MirrorOK'
    BY <1>1 DEF TablesOK, MirrorOK, Running, m
  <2>14. StraysOK'
    BY <1>1, <2>8 DEF TablesOK, StraysOK, Running, m
  <2>15. HistoryOK'
    BY <1>1, <2>7 DEF HistoryOK
  <2>16. RangesOK'
    BY <1>1, <2>3, <2>6 DEF RangesOK, m, r
  <2>17. FlushOK' /\ CompactOK'
    BY <1>1 DEF FlushOK, CompactOK
  <2>18. LostTableOK'
    <3> DEFINE first == m.tables[1]
    <3>1. first.id = r /\ first.id \notin DOMAIN files' /\ m.tables # << >>
      BY <2>2, <2>3, <2>6 DEF r
    <3>2. ASSUME NEW id \in DOMAIN files', first.id < id, NEW k \in Present(files'[id])
          PROVE  FALSE
      <4>1. id \in RebuiltIds(files')
        BY DEF RebuiltIds
      <4> QED  BY <2>5, <2>9, <3>1, <3>2, <4>1
    <3>3. \A id \in RebuiltIds(files') : id <= m.next /\ id < m.next
      BY <2>5, <2>9
    <3>4. \A i \in 2 .. Len(m.tables) : m.tables[i].id \in DOMAIN files'
      BY <2>2
    <3>5. ASSUME NEW k \in Keys \ first.range
          PROVE  Visible(Newest(files', Below(files', first.id), k)) = Tombstone
      <4>1. first.range = KeyRange(files[r])
        BY <2>2, <2>3, <3>1 DEF TablesOK, RangesOK, m
      <4>2. files[r][k] = Absent
        <5> SUFFICES ASSUME files[r][k] # Absent PROVE FALSE
          OBVIOUS
        <5>1. k \in Present(files[r]) /\ k <= k
          BY KeysAssumption DEF Present
        <5>2. k \in KeyRange(files[r])
          BY <5>1 DEF KeyRange
        <5> QED  BY <4>1, <5>2
      <4> QED  BY <2>2, <2>10, <3>1, <4>2 DEF Visible
    <3> HIDE DEF first
    <3> QED
      BY <1>1, <3>1, <3>2, <3>3, <3>4, <3>5 DEF LostTableOK, m, first
  <2> QED
    BY <2>12, <2>13, <2>14, <2>15, <2>16, <2>17, <2>18 DEF TablesOK
<1> QED  BY <1>1, <1>2, <1>3 DEF RemoveFiles

\* A start with the MANIFEST as it is, or with a rebuilt one.
LEMMA InitializeStep ==
    ASSUME StorageInv, TablesOK, Initialize
    PROVE  TablesOK' /\ ViewKept
<1> DEFINE m == manifestFile
<1>1. /\ manifest' = RecoveredManifest(m, files, torn) /\ manifestFile' = manifest'
      /\ pc' = "load" /\ files' = files
  BY DEF Initialize
<1>2. TableFiles(files) /\ TableIds(m) \cap torn = {}
  BY OnDiskFacts
<1>3. FlushOK' /\ CompactOK'
  BY <1>1 DEF FlushOK, CompactOK
<1>4. CASE AllReadable(m, files)
  <2>1. manifestFile' = m
    BY <1>1, <1>4 DEF RecoveredManifest, MissingTable, AllReadable
  <2>2. HistoryOK' /\ RangesOK' /\ LostTableOK'
    BY <1>1, <1>4, <2>1 DEF TablesOK, HistoryOK, RangesOK, LostTableOK
  <2>3. StraysOK'
    <3>1. ~Running
      BY DEF Initialize, Running, Writing
    <3> QED  BY <1>1, <2>1, <3>1 DEF TablesOK, StraysOK
  <2>4. MirrorOK'
    <3>1. m.next <= m.next
      BY OnDiskFacts
    <3> QED  BY <1>1, <2>1, <3>1 DEF TablesOK, MirrorOK
  <2>5. ViewKept
    BY <1>1, <2>1 DEF ViewKept
  <2> QED  BY <1>3, <2>2, <2>3, <2>4, <2>5 DEF TablesOK
<1>5. CASE ~AllReadable(m, files)
  <2> DEFINE r == Rebuild(files)
  <2>1. manifestFile' = r
    BY <1>1, <1>2, <1>5 DEF RecoveredManifest, MissingTable, AllReadable
  <2>2. r \in Manifests /\ Ordered(r)
    BY <1>2, RebuildOrdered DEF TableFiles
  <2>3. /\ TableIds(r) = RebuiltIds(files)
        /\ \A i \in DOMAIN r.tables : r.tables[i].range = KeyRange(files[r.tables[i].id])
    BY <1>2, RebuildListsAll
  <2> HIDE DEF m, r
  <2>4. r.next \in Nat /\ \A i \in DOMAIN r.tables : r.tables[i].id \in Nat
    BY <2>2, ManifestParts
  <2>5. \A id \in RebuiltIds(files) : id <= r.next + 1 /\ id < r.next
    BY <2>2, <2>3, <2>4 DEF Ordered, TableIds
  <2>6. AllReadable(r, files)
    BY <2>3 DEF AllReadable, RebuiltIds
  <2>7. StraysOK'
    BY <1>1, <2>1, <2>5 DEF StraysOK
  <2>8. RangesOK'
    BY <1>1, <2>1, <2>3 DEF RangesOK
  <2>9. LostTableOK'
    BY <1>1, <2>1, <2>6 DEF LostTableOK
  <2>10. ASSUME NEW k \in Keys
         PROVE  /\ Newest(files, TableIds(r), k) = Newest(files, DOMAIN files, k)
                /\ Newest(files, Below(files, r.next), k) = Newest(files, DOMAIN files, k)
    <3>1. HoldersIn(files, DOMAIN files, k) \subseteq RebuiltIds(files)
      BY HoldersHaveData
    <3>2. HoldersIn(files, TableIds(r), k) = HoldersIn(files, DOMAIN files, k)
      BY <2>3, <3>1 DEF HoldersIn
    <3>3. HoldersIn(files, Below(files, r.next), k) = HoldersIn(files, DOMAIN files, k)
      BY <2>5, <3>1 DEF HoldersIn, Below
    <3> QED  BY <3>2, <3>3 DEF Newest
  <2>11. HistoryOK'
    BY <1>1, <2>1, <2>6, <2>10 DEF HistoryOK, TableView, Base
  <2>12. ViewKept
    BY <1>1, <1>5, <2>1, <2>6, <2>10 DEF ViewKept, TableView, Base, m
  <2>13. MirrorOK'
    <3>1. ASSUME r.tables = << >> PROVE r.next = 1
      <4>1. RebuiltIds(files) = {}
        BY <2>3, <3>1 DEF TableIds
      <4> QED  BY <4>1 DEF Rebuild, r
    <3>2. r.next <= r.next
      BY <2>4
    <3> QED  BY <1>1, <2>1, <3>1, <3>2 DEF MirrorOK
  <2> QED  BY <1>3, <2>7, <2>8, <2>9, <2>11, <2>12, <2>13 DEF TablesOK
<1> QED  BY <1>4, <1>5

\* The steps that may change what the tables hold for a restart.
Flushing ==
    /\ pc \in {"flush_write", "flush_publish"}
    /\ pc' \in Writing
    /\ UNCHANGED <<mem, wal>>

\* When the process ends, at most one add_table has failed since the last one
\* that succeeded: next_table_id_ is at most one ahead of the MANIFEST.
SafeEnd == Crash \/ Shutdown => manifest.next <= manifestFile.next + 1

\* All steps.
LEMMA TablesStep ==
    ASSUME StorageInv, StorageInv', TablesOK, [Next]_vars, SafeEnd
    PROVE  /\ TablesOK'
           /\ \/ ViewKept
              \/ Flushing /\ ViewFlushed
              \/ PublishFails /\ ViewFallsBack
<1> USE DEF Running, Writing
<1>1. FilesOK'
  BY DEF StorageInv, TypeOK, FilesOK
<1>2. ASSUME FlushWrite PROVE TablesOK' /\ Flushing /\ ViewFlushed
  BY <1>1, <1>2, FlushWriteStep DEF FlushWrite, Flushing, memory
<1>3. ASSUME FlushPublish PROVE TablesOK' /\ Flushing /\ ViewFlushed
  BY <1>3, FlushPublishStep DEF FlushPublish, Flushing
<1>4. ASSUME WriteFails PROVE TablesOK' /\ ViewKept
  <2>1. /\ pc \in {"flush_write", "compact_write"} /\ pc' = "ready"
        /\ manifestFile' = manifestFile /\ manifest' = manifest /\ mem' = mem
        /\ files' = files \/ TearFile(manifest.next)
    BY <1>4 DEF WriteFails, Return, memory
  <2>2. CASE files' = files
    BY <2>1, <2>2, QuietStep DEF KeysKept
  <2>3. CASE TearFile(manifest.next)
    BY <1>1, <2>1, <2>3, TearStep
  <2> QED  BY <2>1, <2>2, <2>3
<1>5. ASSUME Crash \/ Shutdown PROVE TablesOK' /\ ViewKept
  <2>1. /\ pc' = "down" /\ manifestFile' = manifestFile
        /\ manifest.next <= manifestFile.next + 1
        /\ \/ files' = files
           \/ pc \in {"flush_write", "compact_write"} /\ TearFile(manifest.next)
    BY <1>5 DEF Crash, Shutdown, Ends, SafeEnd
  <2>2. CASE files' = files
    BY <2>1, <2>2, QuietStep
  <2>3. CASE pc \in {"flush_write", "compact_write"} /\ TearFile(manifest.next)
    BY <1>1, <2>1, <2>3, TearStep
  <2> QED  BY <2>1, <2>2, <2>3
<1>6. ASSUME InitializeFails \/ LoadFails PROVE TablesOK' /\ ViewKept
  <2>1. /\ UNCHANGED <<manifestFile, files>> /\ pc' = "failed"
        /\ ~Running \/ pc = "load"
    BY <1>6 DEF InitializeFails, LoadFails, disk
  <2>2. ASSUME pc = "load" PROVE manifest.next <= manifestFile.next + 1
    <3>1. manifest = manifestFile /\ manifestFile.next \in Nat
      BY <2>2, OnDiskFacts DEF TablesOK, MirrorOK
    <3> QED  BY <3>1
  <2> QED  BY <2>1, <2>2, QuietStep
<1>7. ASSUME NEW k \in Keys, Get(k) PROVE TablesOK' /\ ViewKept
  <2>1. /\ UNCHANGED <<manifestFile, files, manifest, mem, pc>> /\ pc = "ready"
    BY <1>7 DEF Get, memory, disk
  <2> QED  BY <2>1, QuietStep DEF KeysKept
<1>8. ASSUME NEW k \in Keys, NEW e \in Entry, Write(k, e) PROVE TablesOK' /\ ViewKept
  <2>1. /\ UNCHANGED <<manifestFile, files, manifest, mem>>
        /\ pc = "ready" /\ pc' = "append"
    BY <1>8 DEF Write, memory, disk
  <2> QED  BY <2>1, QuietStep DEF KeysKept
<1>9. ASSUME \/ Load \/ AppendRecord \/ AppendFails \/ NoFlush \/ StartFlush
             \/ FlushReset \/ FlushResetFails \/ CompactUnreadable
             \/ CompactRetireFails
      PROVE  TablesOK' /\ ViewKept
  <2>1. /\ UNCHANGED <<manifestFile, files, manifest>>
        /\ pc' \in {"ready", "check", "flush_write", "compact_write"}
        /\ pc' = "compact_write" => pc = "flush_reset"
        /\ Running /\ pc # "flush_publish"
        /\ mem' = mem \/ pc \in {"load", "flush_reset"} \/ AppendRecord
    BY <1>9 DEF Load, AppendRecord, AppendFails, NoFlush, StartFlush, FlushReset,
                FlushResetFails, CompactUnreadable, CompactRetireFails, Return,
                memory, disk
  <2>2. ASSUME AppendRecord PROVE KeysKept
    <3>1. mem' = [mem EXCEPT ![req.key] = req.entry] /\ mem \in Map /\ req.entry \in Entry
      BY <2>2 DEF AppendRecord, StorageInv, TypeOK
    <3>2. req.entry # Absent
      BY <3>1, SentinelAssumption DEF Entry
    <3> QED  BY <3>1, <3>2 DEF KeysKept, Map
  <2>3. KeysKept \/ pc \in {"load", "flush_reset"}
    BY <2>1, <2>2 DEF KeysKept
  <2> QED  BY <2>1, <2>3, QuietStep
<1>10. ASSUME UNCHANGED vars PROVE TablesOK' /\ ViewKept
  <2>1. UNCHANGED <<pc, mem, manifest, manifestFile, files>>
    BY <1>10 DEF vars, memory, disk
  <2>2. /\ MirrorOK' /\ StraysOK' /\ HistoryOK' /\ RangesOK'
        /\ FlushOK' /\ CompactOK' /\ ViewKept
    BY <2>1 DEF TablesOK, MirrorOK, StraysOK, HistoryOK, RangesOK, FlushOK,
                CompactOK, ReplacesOlder, LastTable, ViewKept
  <2>3. LostTableOK'
    BY <2>1 DEF TablesOK, LostTableOK, Overridden, TableIds
  <2> QED  BY <2>2, <2>3 DEF TablesOK
<1>11. ASSUME PublishFails PROVE TablesOK' /\ ViewFallsBack
  BY <1>1, <1>11, PublishFailsStep
<1>12. ASSUME \/ Initialize \/ CompactWrite \/ CompactPublish \/ CompactRetire
              \/ CompactUnlink
       PROVE  TablesOK' /\ ViewKept
  BY <1>1, <1>12, InitializeStep, CompactWriteStep, CompactPublishStep,
     CompactRetireStep, CompactUnlinkStep
<1> QED
  BY <1>2, <1>3, <1>4, <1>5, <1>6, <1>7, <1>8, <1>9, <1>10, <1>11, <1>12
  DEF Next, Step

-----------------------------------------------------------------------------
(***************************************************************************)
(* The MemTable, the WAL and what a restart would read.                    *)
(***************************************************************************)

\* What a restart would read.
LEMMA RecoveredIs ==
    ASSUME StorageInv, NEW k \in Keys
    PROVE  Recovered[k] = IF RecoverWal(wal)[k] = Absent
                          THEN TableView(manifestFile, files, k)
                          ELSE RecoverWal(wal)[k]
BY OnDiskFacts, OnDiskIs DEF Recovered

After == OnDisk(manifestFile', files', torn', wal')

\* And what it would read after the step.
LEMMA AfterIs ==
    ASSUME StorageInv', NEW k \in Keys
    PROVE  After[k] = IF RecoverWal(wal')[k] = Absent
                      THEN TableView(manifestFile', files', k)
                      ELSE RecoverWal(wal')[k]
<1>1. /\ TableFiles(files')
      /\ manifestFile' \in Manifests
      /\ Ordered(manifestFile')
      /\ TableIds(manifestFile') \cap torn' = {}
  BY DEF StorageInv, TypeOK, TableFiles, ManifestIsOrdered
<1> QED  BY <1>1, OnDiskIs DEF After

\* While the WAL is being reset, the newest table is the MemTable.
LEMMA FlushedOnTop ==
    ASSUME StorageInv, TablesOK, pc = "flush_reset", NEW k \in Keys, mem[k] # Absent
    PROVE  TableView(manifestFile, files, k) = mem[k]
<1> DEFINE m == manifestFile
           r == LastTable.id
           B == Base(m, files)
<1>1. /\ m.tables # << >> /\ r = m.next - 1 /\ r \in DOMAIN files /\ files[r] = mem
  BY DEF TablesOK, FlushOK
<1>2. /\ TableFiles(files) /\ m.next \in Nat /\ m \in Manifests
      /\ Len(m.tables) \in Nat /\ DOMAIN m.tables = 1 .. Len(m.tables)
  BY OnDiskFacts
<1>3. r \in TableIds(m)
  <2>1. Len(m.tables) # 0
    BY <1>1, <1>2, ManifestParts
  <2>2. Len(m.tables) \in DOMAIN m.tables
    BY <1>2, <2>1
  <2> QED  BY <2>2 DEF TableIds, LastTable
<1>4. r \in B /\ \A j \in B \cap RebuiltIds(files) : j < m.next
  <2>1. CASE AllReadable(m, files)
    BY <1>3, <2>1, OnDiskFacts DEF Base
  <2>2. CASE ~AllReadable(m, files)
    BY <1>1, <2>2 DEF Base, TablesOK, LostTableOK, MirrorOK, Running, Writing
  <2> QED  BY <2>1, <2>2
<1> HIDE DEF B, r, m
<1>5. r \in HoldersIn(files, B, k)
  BY <1>1, <1>4 DEF HoldersIn
<1>6. \A j \in HoldersIn(files, B, k) : j <= r
  <2> SUFFICES ASSUME NEW j \in HoldersIn(files, B, k) PROVE j <= r
    OBVIOUS
  <2>1. j \in RebuiltIds(files) /\ j \in DOMAIN files /\ j \in B
    BY HoldersHaveData
  <2>2. j \in Nat /\ r \in Nat /\ j < m.next
    BY <1>1, <1>2, <1>4, <2>1 DEF TableFiles
  <2> QED  BY <1>1, <1>2, <2>2
<1>7. Newest(files, B, k) = files[r][k]
  BY <1>2, <1>5, <1>6, NewestIs
<1> QED  BY <1>1, <1>7 DEF TableView, Visible, B, m

\* The effect of a step on what a restart would read: RecoveredDataIsStable
\* for one key.
StableAt(k) ==
    ~Garbled(wal) /\ ~Garbled(wal') =>
        After[k] = IF pc = "append" /\ pc' = "check" /\ k = req.key
                   THEN req.entry ELSE Recovered[k]

\* The same when ~Wal writes the record that a bad stream has kept.
LateAt(k) ==
    ~Garbled(wal) /\ ~Garbled(wal') =>
        After[k] = IF k = kept.key THEN kept.entry ELSE Recovered[k]

InCall == pc \in {"ready"} \cup Writing

\* Steps that leave the MemTable and what the WAL holds alone.
LEMMA KeepStep ==
    ASSUME StorageInv, StorageInv', DataInv,
           RecoverWal(wal') = RecoverWal(wal),
           Garbled(wal) => Garbled(wal'),
           ~(pc = "append" /\ pc' = "check"),
           \/ ViewKept
           \/ Flushing /\ ViewFlushed
           \/ PublishFails /\ ViewFallsBack,
           InCall' => InCall /\ mem' = mem
    PROVE  MemOK' /\ \A k \in Keys : StableAt(k)
<1>1. ASSUME NEW k \in Keys, ~Garbled(wal') PROVE After[k] = Recovered[k]
  <2>1. After[k] = IF RecoverWal(wal)[k] = Absent
                   THEN TableView(manifestFile', files', k)
                   ELSE RecoverWal(wal)[k]
    BY AfterIs
  <2>2. Recovered[k] = IF RecoverWal(wal)[k] = Absent
                       THEN TableView(manifestFile, files, k)
                       ELSE RecoverWal(wal)[k]
    BY RecoveredIs
  <2>3. CASE TableView(manifestFile', files', k) = TableView(manifestFile, files, k)
    BY <2>1, <2>2, <2>3
  <2>4. CASE Flushing /\ mem[k] # Absent /\ TableView(manifestFile', files', k) = mem[k]
    <3>1. Visible(mem[k]) = Recovered[k]
      BY <1>1, <2>4 DEF DataInv, MemOK, Flushing, Writing
    <3> QED  BY <2>1, <2>2, <2>4, <3>1 DEF Visible
  <2>5. CASE /\ pc = "flush_publish" /\ ~AllReadable(manifestFile, files)
             /\ mem[k] # Absent
             /\ TableView(manifestFile', files', k) =
                Visible(Newest(files, Below(files, manifest.next), k))
    <3>1. Visible(mem[k]) = Recovered[k]
      BY <1>1, <2>5 DEF DataInv, MemOK, Writing
    <3>2. RecoverWal(wal)[k] = Absent => TableView(manifestFile', files', k) = Visible(mem[k])
      BY <1>1, <2>5 DEF DataInv, SpareOK
    <3> QED  BY <2>1, <2>2, <3>1, <3>2
  <2> QED  BY <2>3, <2>4, <2>5 DEF ViewKept, ViewFlushed, ViewFallsBack
<1>2. \A k \in Keys : StableAt(k)
  BY <1>1 DEF StableAt
<1>3. MemOK'
  <2> SUFFICES ASSUME InCall', ~Garbled(wal'), NEW k \in Keys
               PROVE  /\ RecoverWal(wal')[k] # Absent => mem'[k] = RecoverWal(wal')[k]
                      /\ mem'[k] # Absent => Visible(mem'[k]) = After[k]
    BY DEF MemOK, Recovered, After, InCall
  <2>1. /\ RecoverWal(wal)[k] # Absent => mem[k] = RecoverWal(wal)[k]
        /\ mem[k] # Absent => Visible(mem[k]) = Recovered[k]
    BY DEF DataInv, MemOK, InCall
  <2> QED  BY <1>1, <2>1
<1> QED  BY <1>2, <1>3

\* The record is appended and the MemTable takes the entry.
LEMMA AppendStep ==
    ASSUME StorageInv, StorageInv', DataInv, ViewKept, AppendRecord
    PROVE  MemOK' /\ \A k \in Keys : StableAt(k)
<1> DEFINE r == Record(req.key, req.entry)
<1>1. /\ pc = "append" /\ pc' = "check" /\ wal' = Append(wal, r)
      /\ mem' = [mem EXCEPT ![req.key] = req.entry]
  BY DEF AppendRecord
<1>2. /\ wal \in Seq(Records) /\ mem \in Map
      /\ req.key \in Keys /\ req.entry \in Entry
  BY <1>1 DEF StorageInv, TypeOK, Writing
<1>3. r \in Records /\ r.gap = 0 /\ r.key = req.key /\ r.entry = req.entry
  BY <1>2 DEF Record, Records
<1>4. req.entry # Absent
  BY <1>2, SentinelAssumption DEF Entry
<1> HIDE DEF r
<1>5. ASSUME ~Garbled(wal'), NEW k \in Keys
      PROVE  /\ ~Garbled(wal)
             /\ RecoverWal(wal')[k] = IF k = req.key THEN req.entry ELSE RecoverWal(wal)[k]
             /\ After[k] = IF k = req.key THEN req.entry ELSE Recovered[k]
  <2>1. ~Garbled(wal) /\ TornAt(wal) = {}
    BY <1>1, <1>2, <1>3, <1>5, GarbledGrows
  <2>2. RecoverWal(wal')[k] = IF k = req.key THEN req.entry ELSE RecoverWal(wal)[k]
    BY <1>1, <1>2, <1>3, <2>1, AppendComplete
  <2> QED  BY <1>4, <2>1, <2>2, AfterIs, RecoveredIs DEF ViewKept
<1>6. \A k \in Keys : StableAt(k)
  BY <1>1, <1>5 DEF StableAt
<1>7. MemOK'
  <2> SUFFICES ASSUME ~Garbled(wal'), NEW k \in Keys
               PROVE  /\ RecoverWal(wal')[k] # Absent => mem'[k] = RecoverWal(wal')[k]
                      /\ mem'[k] # Absent => Visible(mem'[k]) = After[k]
    BY DEF MemOK, Recovered, After
  <2>1. mem'[k] = IF k = req.key THEN req.entry ELSE mem[k]
    BY <1>1, <1>2 DEF Map
  <2>2. /\ RecoverWal(wal)[k] # Absent => mem[k] = RecoverWal(wal)[k]
        /\ mem[k] # Absent => Visible(mem[k]) = Recovered[k]
    BY <1>1, <1>5 DEF DataInv, MemOK, Writing
  <2> QED  BY <1>4, <1>5, <2>1, <2>2 DEF Visible
<1> QED  BY <1>6, <1>7

\* The process ends in good order, and ~Wal writes what a bad stream has kept.
LEMMA ShutdownStep ==
    ASSUME StorageInv, StorageInv', DataInv, ViewKept, Shutdown
    PROVE  /\ MemOK'
           /\ \/ \A k \in Keys : StableAt(k)
              \/ stream = "bad" /\ \A k \in Keys : LateAt(k)
<1>1. pc = "ready" /\ pc' = "down" /\ wal \in Seq(Records)
  BY DEF Shutdown, Ends, StorageInv, TypeOK
<1>2. MemOK'
  BY <1>1 DEF MemOK, Writing
<1>3. ASSUME RecoverWal(wal') = RecoverWal(wal), Garbled(wal) => Garbled(wal')
      PROVE  \A k \in Keys : StableAt(k)
  BY <1>1, <1>3, KeepStep DEF InCall, Writing
<1>4. ASSUME stream = "bad", NEW g \in Gaps \cup {0},
             wal' = Append(wal, TornRecord(kept.key, kept.entry, g))
      PROVE  (\A k \in Keys : StableAt(k)) \/ (\A k \in Keys : LateAt(k))
  <2> DEFINE r == TornRecord(kept.key, kept.entry, g)
  <2>1. kept.key \in Keys /\ kept.entry \in Entry
    BY <1>4 DEF StorageInv, TypeOK
  <2>2. /\ r \in Records /\ r.gap = g /\ r.key = kept.key /\ r.entry = kept.entry
        /\ kept.entry # Absent
    <3>1. g \in Nat
      BY StorageAssumption
    <3>2. kept.entry # Absent
      BY <2>1, SentinelAssumption DEF Entry
    <3> QED  BY <2>1, <3>1, <3>2 DEF TornRecord, Records
  <2> HIDE DEF r
  <2>3. wal' = Append(wal, r)
    BY <1>4 DEF r
  <2>4. CASE g # 0
    BY <1>1, <1>3, <2>2, <2>3, <2>4, AppendTorn, GarbledGrows
  <2>5. CASE g = 0
    <3> SUFFICES ASSUME NEW k \in Keys, ~Garbled(wal')
                 PROVE  After[k] = IF k = kept.key THEN kept.entry ELSE Recovered[k]
      BY DEF LateAt
    <3>1. TornAt(wal) = {}
      BY <1>1, <2>2, <2>3, <2>5, GarbledGrows
    <3>2. RecoverWal(wal')[k] = IF k = kept.key THEN kept.entry ELSE RecoverWal(wal)[k]
      BY <1>1, <2>2, <2>3, <2>5, <3>1, AppendComplete
    <3> QED  BY <2>2, <3>2, AfterIs, RecoveredIs DEF ViewKept
  <2> QED  BY <2>4, <2>5
<1>5. CASE UNCHANGED wal
  BY <1>2, <1>3, <1>5
<1> QED  BY <1>2, <1>4, <1>5 DEF Shutdown

\* The WAL is emptied once its entries are in the newest table; the MemTable
\* is cleared, or kept when Wal::truncate reports a failure.
LEMMA ResetStep ==
    ASSUME StorageInv, StorageInv', DataInv, ViewKept, pc = "flush_reset",
           wal' = << >>, mem' \in {EmptyMap, mem}
    PROVE  MemOK' /\ \A k \in Keys : StableAt(k)
<1>1. ASSUME NEW k \in Keys
      PROVE  /\ RecoverWal(wal')[k] = Absent
             /\ After[k] = TableView(manifestFile, files, k)
             /\ mem[k] # Absent => After[k] = mem[k]
  <2>1. RecoverWal(wal')[k] = Absent
    BY EmptyWal
  <2>2. After[k] = TableView(manifestFile, files, k)
    BY <2>1, AfterIs DEF ViewKept
  <2> QED  BY <2>1, <2>2, FlushedOnTop DEF DataInv
<1>2. ASSUME NEW k \in Keys, ~Garbled(wal) PROVE After[k] = Recovered[k]
  <2>1. CASE RecoverWal(wal)[k] = Absent
    BY <1>1, <2>1, RecoveredIs
  <2>2. CASE RecoverWal(wal)[k] # Absent
    <3>1. mem[k] = RecoverWal(wal)[k]
      BY <1>2, <2>2 DEF DataInv, MemOK, Writing
    <3> QED  BY <1>1, <2>2, <3>1, RecoveredIs
  <2> QED  BY <2>1, <2>2
<1>3. \A k \in Keys : StableAt(k)
  BY <1>2 DEF StableAt
<1>4. MemOK'
  <2> SUFFICES ASSUME NEW k \in Keys
               PROVE  /\ RecoverWal(wal')[k] # Absent => mem'[k] = RecoverWal(wal')[k]
                      /\ mem'[k] # Absent => Visible(mem'[k]) = After[k]
    BY DEF MemOK, Recovered, After
  <2>1. mem'[k] # Absent => mem'[k] = mem[k]
    BY DEF EmptyMap
  <2> QED  BY <1>1, <2>1 DEF Visible
<1> QED  BY <1>3, <1>4

\* Database::initialize fills the MemTable from the tables and the WAL.
LEMMA LoadStep ==
    ASSUME StorageInv, StorageInv', DataInv, ViewKept, Load
    PROVE  MemOK' /\ \A k \in Keys : StableAt(k)
<1>1. /\ pc = "load" /\ wal' = wal /\ mem' = LoadedData(manifest, files, wal)
      /\ manifestFile' = manifestFile /\ files' = files /\ torn' = torn
      /\ AllReadable(manifest, files)
  BY DEF Load, disk
<1>2. manifest = manifestFile
  BY <1>1 DEF DataInv, TablesOK, MirrorOK, Running
<1>3. After = Recovered
  BY <1>1 DEF After, Recovered
<1>4. RecoveredManifest(manifestFile, files, torn) = manifest
  BY <1>1, <1>2 DEF RecoveredManifest, MissingTable, AllReadable
<1>5. ASSUME NEW k \in Keys
      PROVE  /\ RecoverWal(wal)[k] # Absent => mem'[k] = RecoverWal(wal)[k]
             /\ Visible(mem'[k]) = Recovered[k]
  <2>1. RecoverWal(wal)[k] # Absent => mem'[k] = RecoverWal(wal)[k]
    BY <1>1 DEF LoadedData, Overlay
  <2>2. Recovered[k] = Visible(LoadedData(manifest, files, wal)[k])
    BY <1>4 DEF Recovered, OnDisk, View, Visible
  <2> QED  BY <1>1, <2>1, <2>2
<1>6. MemOK'
  BY <1>1, <1>3, <1>5 DEF MemOK, Recovered, After
<1>7. \A k \in Keys : StableAt(k)
  BY <1>1, <1>3 DEF StableAt
<1> QED  BY <1>6, <1>7

\* A flush writes its table over a lost one: a restart would already have
\* found what is not in the WAL.
LEMMA SpareStep ==
    ASSUME StorageInv, StorageInv', DataInv, [Next]_vars
    PROVE  SpareOK'
<1>1. CASE UNCHANGED vars
  BY <1>1 DEF DataInv, SpareOK, vars, memory, disk
<1>2. CASE FlushWrite
  <2> DEFINE m == manifestFile
             n == manifest.next
  <2>1. /\ Running
        /\ files' = [i \in DOMAIN files \cup {n} |-> IF i = n THEN mem ELSE files[i]]
        /\ pc = "flush_write"
        /\ UNCHANGED <<manifest, manifestFile, mem, wal>>
    BY <1>2 DEF FlushWrite, WriteFile, memory, Running, Writing
  <2>2. /\ TableFiles(files) /\ TableFiles(files') /\ n \in Nat
        /\ \A id \in TableIds(m) : id \in Nat /\ id < n
    <3>1. TableFiles(files')
      BY DEF StorageInv, TypeOK, TableFiles
    <3> QED  BY <2>1, <3>1, OnDiskFacts, RunningFacts DEF DataInv
  <2> SUFFICES ASSUME ~AllReadable(m, files'), ~Garbled(wal), NEW k \in Keys,
                      mem[k] # Absent, RecoverWal(wal)[k] = Absent
               PROVE  Visible(mem[k]) = Visible(Newest(files', Below(files', n), k))
    BY <2>1 DEF SpareOK
  <2>3. ~AllReadable(m, files)
    BY <2>1 DEF AllReadable
  <2>4. Visible(mem[k]) = Visible(Newest(files, DOMAIN files, k))
    <3>1. Visible(mem[k]) = Recovered[k]
      BY <2>1 DEF DataInv, MemOK, Writing
    <3> QED  BY <2>3, <3>1, RecoveredIs DEF TableView, Base
  <2>5. \A id \in HoldersIn(files, DOMAIN files, k) : id < n
    BY <2>1, <2>3, HoldersHaveData DEF DataInv, TablesOK, LostTableOK
  <2> HIDE DEF n
  <2>6. HoldersIn(files, DOMAIN files, k) = HoldersIn(files, Below(files, n), k)
    BY <2>5 DEF HoldersIn, Below
  <2>7. Newest(files', Below(files', n), k) = Newest(files, Below(files, n), k)
    <3>1. DifferOnlyAt(files, files', n) /\ n <= n
      BY <2>1, <2>2 DEF DifferOnlyAt
    <3> QED  BY <2>2, <3>1, OtherFilesAgree
  <2> QED  BY <2>4, <2>6, <2>7 DEF Newest
<1>3. CASE pc' # "flush_publish"
  BY <1>3 DEF SpareOK
<1>4. UNCHANGED vars \/ FlushWrite \/ pc' # "flush_publish"
  <2>1. ASSUME NEW k \in Keys, Get(k) PROVE pc' # "flush_publish"
    BY <2>1 DEF Get
  <2>2. ASSUME NEW k \in Keys, NEW e \in Entry, Write(k, e) PROVE pc' # "flush_publish"
    BY <2>2 DEF Write
  <2>3. ASSUME \/ Initialize \/ InitializeFails \/ Crash \/ Shutdown
               \/ Load \/ LoadFails \/ AppendRecord \/ AppendFails \/ NoFlush
               \/ StartFlush \/ FlushPublish \/ FlushReset \/ FlushResetFails
               \/ CompactWrite \/ CompactUnreadable \/ CompactPublish
               \/ CompactRetire \/ CompactRetireFails \/ CompactUnlink
               \/ WriteFails \/ PublishFails
        PROVE  pc' # "flush_publish"
    BY <2>3 DEF Initialize, InitializeFails, Crash, Shutdown, Ends, Load, LoadFails,
                AppendRecord, AppendFails, NoFlush, StartFlush, FlushPublish, FlushReset,
                FlushResetFails, CompactWrite, CompactUnreadable, CompactPublish,
                CompactRetire, CompactRetireFails, CompactUnlink, WriteFails,
                PublishFails, Return
  <2> QED  BY <2>1, <2>2, <2>3 DEF Next, Step
<1> QED  BY <1>1, <1>2, <1>3, <1>4

\* All steps.
LEMMA DataStep ==
    ASSUME StorageInv, StorageInv', DataInv, [Next]_vars, SafeEnd
    PROVE  /\ DataInv'
           /\ \/ \A k \in Keys : StableAt(k)
              \/ Shutdown /\ stream = "bad" /\ \A k \in Keys : LateAt(k)
<1>1. /\ TablesOK'
      /\ \/ ViewKept
         \/ Flushing /\ ViewFlushed
         \/ PublishFails /\ ViewFallsBack
  BY TablesStep DEF DataInv
<1> SUFFICES /\ MemOK'
             /\ \/ \A k \in Keys : StableAt(k)
                \/ Shutdown /\ stream = "bad" /\ \A k \in Keys : LateAt(k)
  BY <1>1, SpareStep DEF DataInv
<1>2. /\ wal \in Seq(Records)
      /\ pc \in Writing => req.key \in Keys /\ req.entry \in Entry
  BY DEF StorageInv, TypeOK
<1>3. ASSUME NEW g \in Gaps, pc = "append",
             wal' = Append(wal, TornRecord(req.key, req.entry, g))
      PROVE  RecoverWal(wal') = RecoverWal(wal) /\ (Garbled(wal) => Garbled(wal'))
  <2>1. req.key \in Keys /\ req.entry \in Entry
    BY <1>2, <1>3 DEF Writing
  <2> DEFINE r == TornRecord(req.key, req.entry, g)
  <2>2. r \in Records /\ r.gap # 0
    BY <2>1, StorageAssumption DEF TornRecord, Records
  <2> HIDE DEF r
  <2>3. wal' = Append(wal, r)
    BY <1>3 DEF r
  <2> QED  BY <1>2, <2>2, <2>3, AppendTorn, GarbledGrows
<1>4. ASSUME ViewKept, Load \/ AppendRecord \/ FlushReset
      PROVE  MemOK' /\ \A k \in Keys : StableAt(k)
  BY <1>4, LoadStep, AppendStep, ResetStep DEF FlushReset
<1>5. ASSUME ViewKept, FlushResetFails
      PROVE  MemOK' /\ \A k \in Keys : StableAt(k)
  <2>1. pc = "flush_reset" /\ mem' = mem /\ wal' \in {wal, << >>} /\ pc' = "ready"
    BY <1>5 DEF FlushResetFails, Return
  <2>2. CASE wal' = << >>
    BY <1>5, <2>1, <2>2, ResetStep
  <2>3. CASE wal' = wal
    BY <1>5, <2>1, <2>3, KeepStep DEF InCall, Writing
  <2> QED  BY <2>1, <2>2, <2>3
<1>6. ASSUME AppendFails PROVE MemOK' /\ \A k \in Keys : StableAt(k)
  <2>1. pc = "append" /\ pc' = "ready" /\ mem' = mem
    BY <1>6 DEF AppendFails, Return
  <2>2. RecoverWal(wal') = RecoverWal(wal) /\ (Garbled(wal) => Garbled(wal'))
    BY <1>3, <1>6 DEF AppendFails
  <2> QED  BY <1>1, <2>1, <2>2, KeepStep DEF InCall, Writing
<1>7. ASSUME Crash PROVE MemOK' /\ \A k \in Keys : StableAt(k)
  <2>1. pc' = "down"
    BY <1>7 DEF Crash, Ends
  <2>2. RecoverWal(wal') = RecoverWal(wal) /\ (Garbled(wal) => Garbled(wal'))
    BY <1>3, <1>7 DEF Crash
  <2> QED  BY <1>1, <2>1, <2>2, KeepStep DEF InCall, Writing
<1>8. ASSUME wal' = wal, ~(pc = "append" /\ pc' = "check"),
             InCall' => InCall /\ mem' = mem
      PROVE  MemOK' /\ \A k \in Keys : StableAt(k)
  BY <1>1, <1>8, KeepStep
<1>9. ASSUME Initialize \/ InitializeFails \/ LoadFails
      PROVE  MemOK' /\ \A k \in Keys : StableAt(k)
  BY <1>8, <1>9 DEF Initialize, InitializeFails, LoadFails, disk, InCall, Writing
<1>10. ASSUME NEW k \in Keys, Get(k) PROVE MemOK' /\ \A j \in Keys : StableAt(j)
  BY <1>8, <1>10 DEF Get, memory, disk, InCall, Writing
<1>11. ASSUME NEW k \in Keys, NEW e \in Entry, Write(k, e)
       PROVE  MemOK' /\ \A j \in Keys : StableAt(j)
  BY <1>8, <1>11 DEF Write, memory, disk, InCall, Writing
<1>12. ASSUME \/ NoFlush \/ StartFlush \/ FlushWrite \/ FlushPublish \/ CompactWrite
              \/ CompactUnreadable \/ CompactPublish \/ CompactRetire
              \/ CompactRetireFails \/ CompactUnlink \/ WriteFails \/ PublishFails
       PROVE  MemOK' /\ \A k \in Keys : StableAt(k)
  <2>1. wal' = wal /\ mem' = mem /\ pc # "append" /\ InCall
    BY <1>12 DEF NoFlush, StartFlush, FlushWrite, FlushPublish, CompactWrite,
                 CompactUnreadable, CompactPublish, CompactRetire,
                 CompactRetireFails, CompactUnlink, WriteFails, PublishFails, memory,
                 disk, InCall, Writing
  <2> QED  BY <1>8, <2>1
<1>13. ASSUME UNCHANGED vars PROVE MemOK' /\ \A k \in Keys : StableAt(k)
  BY <1>8, <1>13 DEF vars, memory, disk, InCall
<1>14. ASSUME Load \/ AppendRecord \/ FlushReset \/ FlushResetFails \/ Shutdown
       PROVE  ~Flushing /\ ~PublishFails
  BY <1>14 DEF Load, AppendRecord, FlushReset, FlushResetFails, Shutdown, Flushing,
               PublishFails
<1>15. ASSUME Shutdown
       PROVE  /\ MemOK'
              /\ \/ \A k \in Keys : StableAt(k)
                 \/ Shutdown /\ stream = "bad" /\ \A k \in Keys : LateAt(k)
  BY <1>1, <1>14, <1>15, ShutdownStep
<1> QED
  BY <1>1, <1>4, <1>5, <1>6, <1>7, <1>9, <1>10, <1>11, <1>12, <1>13, <1>14, <1>15
  DEF Next, Step

\* A new database.
LEMMA InitDataInv == Init => DataInv
<1> SUFFICES ASSUME Init PROVE DataInv
  OBVIOUS
<1>1. /\ pc = "down" /\ files = << >>
      /\ manifestFile = [next |-> 1, tables |-> << >>]
  BY DEF Init, NewManifest
<1>2. DOMAIN files = {} /\ DOMAIN manifestFile.tables = {}
  BY <1>1
<1>3. MirrorOK /\ LostTableOK /\ FlushOK /\ CompactOK /\ MemOK
  BY <1>1 DEF MirrorOK, LostTableOK, FlushOK, CompactOK, MemOK, Running, Writing
<1>4. StraysOK /\ SpareOK
  BY <1>1, <1>2 DEF StraysOK, RebuiltIds, SpareOK
<1>5. RangesOK
  BY <1>2 DEF RangesOK
<1>6. HistoryOK
  <2> SUFFICES ASSUME NEW k \in Keys, NEW S PROVE Newest(files, S, k) = Absent
    BY DEF HistoryOK, TableView
  <2> QED  BY <1>2 DEF Newest, HoldersIn
<1> QED  BY <1>3, <1>4, <1>5, <1>6 DEF DataInv, TablesOK

-----------------------------------------------------------------------------
(***************************************************************************)
(* Storage::get_from_sstables.                                             *)
(***************************************************************************)

\* A table's key range contains the keys it holds.
LEMMA HeldKeysInRange ==
    ASSUME StorageInv, TablesOK, NEW i \in DOMAIN manifestFile.tables,
           manifestFile.tables[i].id \in DOMAIN files, NEW k \in Keys,
           files[manifestFile.tables[i].id][k] # Absent
    PROVE  k \in manifestFile.tables[i].range
<1> DEFINE f == files[manifestFile.tables[i].id]
<1>1. manifestFile.tables[i].range = KeyRange(f)
  BY DEF TablesOK, RangesOK
<1>2. k \in Present(f)
  BY DEF Present
<1>3. k \in Nat
  BY KeysAssumption
<1>4. k <= k
  BY <1>3
<1> QED  BY <1>1, <1>2, <1>4 DEF KeyRange

\* The search returns what a restart would find, if all tables are there.
LEMMA SearchAllReadable ==
    ASSUME StorageInv, TablesOK, Running, AllReadable(manifestFile, files),
           NEW k \in Keys
    PROVE  Visible(GetFromTables(k)) = TableView(manifestFile, files, k)
<1> DEFINE m == manifestFile
           c == Contents(m, files)
<1>1. /\ manifest.tables = m.tables
      /\ TableFiles(files) /\ m \in Manifests /\ Ordered(m)
  BY OnDiskFacts, RunningFacts
<1>2. \A i \in DOMAIN m.tables : m.tables[i].id \in DOMAIN files
  BY DEF AllReadable, TableIds
<1>3. DOMAIN c = DOMAIN m.tables
      /\ \A i \in DOMAIN m.tables : c[i] = files[m.tables[i].id]
  BY <1>2 DEF Contents
<1>4. \A i \in DOMAIN m.tables :
        files[m.tables[i].id][k] # Absent => k \in m.tables[i].range
  BY <1>2, HeldKeysInRange
<1>5. StopsAt(k) = Holders(c, k)
  <2>1. StopsAt(k) = {i \in DOMAIN m.tables : files[m.tables[i].id][k] # Absent}
    BY <1>1, <1>2, <1>4 DEF StopsAt
  <2> HIDE DEF c, m
  <2>2. Holders(c, k) = {i \in DOMAIN m.tables : files[m.tables[i].id][k] # Absent}
    BY <1>3 DEF Holders
  <2> QED  BY <2>1, <2>2
<1>6. GetFromTables(k) = Merge(c)[k]
  <2>1. CASE StopsAt(k) = {}
    <3>1. GetFromTables(k) = Absent
      BY <2>1 DEF GetFromTables
    <3>2. Merge(c)[k] = Absent
      BY <1>5, <2>1 DEF Merge, NewestEntry
    <3> QED  BY <3>1, <3>2
  <2>2. CASE StopsAt(k) # {}
    <3> DEFINE x == Max(StopsAt(k))
    <3>1. x \in DOMAIN m.tables
      <4>1. StopsAt(k) \subseteq 1 .. Len(m.tables)
        BY <1>1, OnDiskFacts DEF StopsAt
      <4>2. IsFiniteSet(1 .. Len(m.tables)) /\ 1 .. Len(m.tables) \subseteq Nat
        BY OnDiskFacts, FS_Interval
      <4>3. IsFiniteSet(StopsAt(k)) /\ StopsAt(k) \subseteq Nat
        BY <4>1, <4>2, FS_Subset
      <4>4. x \in StopsAt(k)
        BY <2>2, <4>3, MaxIsLargest
      <4> QED  BY <1>1, <4>4 DEF StopsAt
    <3>2. GetFromTables(k) =
            IF m.tables[x].id \in DOMAIN files THEN files[m.tables[x].id][k] ELSE ReadError
      BY <1>1, <2>2 DEF GetFromTables
    <3>3. Merge(c)[k] = c[x][k]
      <4> HIDE DEF c
      <4> QED  BY <1>5, <2>2 DEF Merge, NewestEntry
    <3> HIDE DEF x
    <3> QED  BY <1>2, <1>3, <3>1, <3>2, <3>3
  <2> QED  BY <2>1, <2>2
<1>7. Merge(c)[k] = Newest(files, TableIds(m), k)
  BY <1>1, MergeIsNewest
<1> QED  BY <1>6, <1>7 DEF TableView, Base

\* After compact has removed the replacement table, the search either finds
\* the entry a restart would find or reports an error.
LEMMA SearchLostTable ==
    ASSUME StorageInv, TablesOK, Running, ~AllReadable(manifestFile, files),
           NEW k \in Keys, mem[k] = Absent
    PROVE  \/ GetFromTables(k) = ReadError
           \/ Visible(GetFromTables(k)) = TableView(manifestFile, files, k)
<1> DEFINE m == manifestFile
           first == m.tables[1]
           H == HoldersIn(files, DOMAIN files, k)
           Z == StopsAt(k)
<1>1. /\ manifest.tables = m.tables /\ TableFiles(files)
      /\ Len(m.tables) \in Nat
      /\ DOMAIN m.tables = 1 .. Len(m.tables)
      /\ \A i \in DOMAIN m.tables : m.tables[i].id \in Nat
      /\ \A i, j \in DOMAIN m.tables : i < j => m.tables[i].id < m.tables[j].id
      /\ m.tables \in Seq(Table)
  BY OnDiskFacts, RunningFacts, ManifestParts DEF Ordered
<1>2. /\ m.tables # << >>
      /\ first.id \notin DOMAIN files
      /\ \A i \in 2 .. Len(m.tables) : m.tables[i].id \in DOMAIN files
      /\ \A id \in DOMAIN files : first.id < id =>
            \A x \in Present(files[id]) : Overridden(id, x)
      /\ k \notin first.range =>
            Visible(Newest(files, Below(files, first.id), k)) = Tombstone
  BY DEF TablesOK, LostTableOK
<1>3. 1 \in DOMAIN m.tables /\ first.id \in Nat
  <2>1. Len(m.tables) # 0
    BY <1>1, <1>2
  <2> QED  BY <1>1, <2>1
<1>4. TableView(m, files, k) = Visible(Newest(files, DOMAIN files, k))
  BY DEF TableView, Base
<1>5. \A id \in H : id \in Nat /\ id \in DOMAIN files /\ files[id][k] # Absent
  BY <1>1 DEF HoldersIn, TableFiles
<1>6. Z = {i \in DOMAIN m.tables :
            /\ k \in m.tables[i].range
            /\ \/ m.tables[i].id \notin DOMAIN files
               \/ files[m.tables[i].id][k] # Absent}
  BY <1>1 DEF StopsAt
<1>7. GetFromTables(k) =
        IF Z = {} THEN Absent
        ELSE IF m.tables[Max(Z)].id \in DOMAIN files
             THEN files[m.tables[Max(Z)].id][k] ELSE ReadError
  BY <1>1 DEF GetFromTables
<1>8. ASSUME NEW id \in H, first.id < id
      PROVE  \E i \in Z : id <= m.tables[i].id
  <2>1. k \in Present(files[id])
    BY <1>5 DEF Present
  <2>2. PICK j \in TableIds(m) \cap DOMAIN files : id <= j /\ files[j][k] # Absent
    BY <1>2, <1>5, <1>8, <2>1 DEF Overridden
  <2>3. PICK i \in DOMAIN m.tables : m.tables[i].id = j
    BY <2>2 DEF TableIds
  <2>4. k \in m.tables[i].range
    BY <2>2, <2>3, HeldKeysInRange
  <2> QED  BY <1>6, <2>2, <2>3, <2>4
<1> HIDE DEF m, Z, H
<1>9. CASE Z = {}
  <2>1. k \notin first.range
    BY <1>2, <1>3, <1>6, <1>9
  <2>2. \A id \in H : id < first.id
    <3> SUFFICES ASSUME NEW id \in H PROVE id < first.id
      OBVIOUS
    <3>1. ~(first.id < id)
      BY <1>8, <1>9
    <3>2. id # first.id
      BY <1>2, <1>5
    <3> QED  BY <1>3, <1>5, <3>1, <3>2
  <2>3. HoldersIn(files, Below(files, first.id), k) = H
    BY <2>2 DEF HoldersIn, Below, H
  <2>4. Newest(files, Below(files, first.id), k) = Newest(files, DOMAIN files, k)
    BY <2>3 DEF Newest, H
  <2>5. TableView(m, files, k) = Tombstone
    BY <1>2, <1>4, <2>1, <2>4
  <2> QED  BY <1>7, <1>9, <2>5 DEF Visible, m
<1>10. CASE Z # {}
  <2> DEFINE x == Max(Z)
             id == m.tables[x].id
  <2>1. Z \subseteq Nat /\ IsFiniteSet(Z) /\ Z \subseteq DOMAIN m.tables
    <3>1. IsFiniteSet(1 .. Len(m.tables)) /\ Z \subseteq 1 .. Len(m.tables)
      BY <1>1, <1>6, FS_Interval
    <3>2. IsFiniteSet(Z)
      BY <3>1, FS_Subset
    <3> QED  BY <1>1, <3>1, <3>2
  <2>2. x \in Z /\ \A j \in Z : x >= j
    BY <1>10, <2>1, MaxIsLargest
  <2>3. GetFromTables(k) = IF id \in DOMAIN files THEN files[id][k] ELSE ReadError
    BY <1>7, <1>10
  <2> HIDE DEF x
  <2>4. CASE id \notin DOMAIN files
    BY <2>3, <2>4
  <2>5. CASE id \in DOMAIN files
    <3>1. id \in H
      BY <1>6, <2>2, <2>5 DEF H, HoldersIn
    <3>2. x \in DOMAIN m.tables /\ x # 1 /\ x \in Nat /\ x > 1
      BY <1>1, <1>2, <2>1, <2>2, <2>5
    <3>3. first.id < id /\ id \in Nat
      BY <1>1, <1>3, <3>2
    <3>4. ASSUME NEW j \in H PROVE j <= id
      <4> SUFFICES ASSUME id < j PROVE FALSE
        BY <1>5, <3>3
      <4>1. first.id < j
        BY <1>3, <1>5, <3>3
      <4>2. PICK i \in Z : j <= m.tables[i].id
        BY <1>8, <4>1
      <4>3. i \in DOMAIN m.tables /\ i \in Nat /\ i <= x
        BY <2>1, <2>2, <3>2, <4>2
      <4>4. i = x \/ i < x
        BY <3>2, <4>3
      <4>5. m.tables[i].id \in Nat /\ (m.tables[i].id = id \/ m.tables[i].id < id)
        BY <1>1, <3>2, <4>3, <4>4
      <4> QED  BY <1>5, <3>3, <4>2, <4>5
    <3> HIDE DEF id
    <3>5. Newest(files, DOMAIN files, k) = files[id][k]
      BY <1>1, <3>1, <3>4, NewestIs DEF H
    <3> QED  BY <1>4, <2>3, <2>5, <3>5 DEF m
  <2> QED  BY <2>4, <2>5
<1> QED  BY <1>9, <1>10

\* StorageInv and DataInv say what execute_get returns.
LEMMA LookupIsCurrent ==
    ASSUME StorageInv, DataInv, InCall, ~Garbled(wal), NEW k \in Keys
    PROVE  Lookup(k) = ReadError \/ Visible(Lookup(k)) = Recovered[k]
<1>1. /\ RecoverWal(wal)[k] # Absent => mem[k] = RecoverWal(wal)[k]
      /\ mem[k] # Absent => Visible(mem[k]) = Recovered[k]
  BY DEF DataInv, MemOK, InCall
<1>2. CASE mem[k] # Absent
  BY <1>1, <1>2 DEF Lookup
<1>3. CASE mem[k] = Absent
  <2>1. Recovered[k] = TableView(manifestFile, files, k) /\ Lookup(k) = GetFromTables(k)
    BY <1>1, <1>3, RecoveredIs DEF Lookup
  <2>2. Running /\ TablesOK
    BY DEF InCall, Running, DataInv
  <2>3. CASE AllReadable(manifestFile, files)
    BY <2>1, <2>2, <2>3, SearchAllReadable
  <2>4. CASE ~AllReadable(manifestFile, files)
    BY <1>3, <2>1, <2>2, <2>4, SearchLostTable
  <2> QED  BY <2>3, <2>4
<1> QED  BY <1>2, <1>3

-----------------------------------------------------------------------------
(***************************************************************************)
(* The theorems.                                                           *)
(***************************************************************************)

\* A process that runs has not just ended.
LEMMA SafeEndStutters == [SafeEnd]_vars => SafeEnd
BY DEF SafeEnd, Crash, Shutdown, Ends, vars

\* DataInv holds in every state, whatever fails and whenever the process
\* ends, as long as next_table_id_ is then at most one ahead of the MANIFEST.
THEOREM DataInvariant == Spec /\ [][SafeEnd]_vars => []DataInv
<1>1. Init => DataInv
  BY InitDataInv
<1>2. StorageInv /\ StorageInv' /\ DataInv /\ [Next]_vars /\ [SafeEnd]_vars => DataInv'
  BY DataStep, SafeEndStutters
<1> QED  BY <1>1, <1>2, StorageInvariant, PTL DEF Spec

\* execute_get never returns an outdated or a vanished value: it answers
\* with what is on disk or with an error, before, during and after every
\* flush and compaction, with any failures, and after any number of such
\* crashes.
THEOREM ReadsTheorem == Spec /\ [][SafeEnd]_vars => []ReadsAreCurrent
<1>1. StorageInv /\ DataInv => ReadsAreCurrent
  <2> SUFFICES ASSUME StorageInv, DataInv, InCall, ~Garbled(wal), NEW k \in Keys
               PROVE  \/ Lookup(k) = ReadError
                      \/ View([j \in Keys |-> Lookup(j)])[k] = Recovered[k]
    BY DEF ReadsAreCurrent, InCall
  <2>1. View([j \in Keys |-> Lookup(j)])[k] = Visible(Lookup(k))
    BY DEF View, Visible
  <2> QED  BY <2>1, LookupIsCurrent
<1> QED  BY <1>1, StorageInvariant, DataInvariant, PTL

\* The data in the files changes only when append_record succeeds, or when ~Wal
\* writes the refused record of a bad stream, and then by exactly that record;
\* such a crash, and every other step, leaves it alone.
THEOREM StabilityTheorem == Spec /\ [][SafeEnd]_vars => RecoveredDataIsStable
<1> DEFINE Stable ==
        ~Garbled(wal) /\ ~Garbled(wal') =>
            OnDisk(manifestFile', files', torn', wal') \in
                IF pc = "append" /\ pc' = "check"
                THEN {[Recovered EXCEPT ![req.key] = req.entry]}
                ELSE IF stream = "bad" /\ pc' = "down" /\ crashes' = crashes
                THEN {Recovered, [Recovered EXCEPT ![kept.key] = kept.entry]}
                ELSE {Recovered}
<1>1. StorageInv /\ StorageInv' /\ DataInv /\ [Next]_vars /\ [SafeEnd]_vars
        => [Stable]_vars
  <2> SUFFICES ASSUME StorageInv, StorageInv', DataInv, [Next]_vars, [SafeEnd]_vars,
                      ~Garbled(wal), ~Garbled(wal')
               PROVE  After \in
                        IF pc = "append" /\ pc' = "check"
                        THEN {[Recovered EXCEPT ![req.key] = req.entry]}
                        ELSE IF stream = "bad" /\ pc' = "down" /\ crashes' = crashes
                        THEN {Recovered, [Recovered EXCEPT ![kept.key] = kept.entry]}
                        ELSE {Recovered}
    BY DEF After
  <2>1. \/ \A k \in Keys : StableAt(k)
        \/ Shutdown /\ stream = "bad" /\ \A k \in Keys : LateAt(k)
    BY DataStep, SafeEndStutters
  <2>2. /\ After = [k \in Keys |-> After[k]]
        /\ Recovered = [k \in Keys |-> Recovered[k]]
    BY DEF After, Recovered, OnDisk, View
  <2>3. CASE \A k \in Keys : StableAt(k)
    <3>1. \A k \in Keys :
            After[k] = IF pc = "append" /\ pc' = "check" /\ k = req.key
                       THEN req.entry ELSE Recovered[k]
      BY <2>3 DEF StableAt
    <3>2. CASE pc = "append" /\ pc' = "check"
      <4>1. After = [Recovered EXCEPT ![req.key] = req.entry]
        BY <2>2, <3>1, <3>2
      <4> QED  BY <3>2, <4>1
    <3>3. CASE ~(pc = "append" /\ pc' = "check")
      <4>1. After = Recovered
        BY <2>2, <3>1, <3>3
      <4> QED  BY <3>3, <4>1
    <3> QED  BY <3>2, <3>3
  <2>4. CASE Shutdown /\ stream = "bad" /\ \A k \in Keys : LateAt(k)
    <3>1. After = [Recovered EXCEPT ![kept.key] = kept.entry]
      BY <2>2, <2>4 DEF LateAt
    <3>2. pc' = "down" /\ crashes' = crashes
      BY <2>4 DEF Shutdown, Ends, bounds
    <3> QED  BY <2>4, <3>1, <3>2
  <2> QED  BY <2>1, <2>3, <2>4
<1> QED  BY <1>1, StorageInvariant, DataInvariant, PTL DEF Spec, RecoveredDataIsStable

-----------------------------------------------------------------------------
(***************************************************************************)
(* Where add_table does not fail, or nothing fails more than once, every   *)
(* end of the process is a safe one.                                       *)
(***************************************************************************)
FewFailures == "add_table" \notin Faults \/ MaxFaults <= 1

\* How far next_table_id_ can have got ahead of the MANIFEST.
Lead == IF "add_table" \in Faults THEN faults ELSE 0

LeadOK ==
    /\ faults <= MaxFaults
    /\ Running => manifest.next <= manifestFile.next + Lead

\* Every failed add_table adds one.
LEMMA LeadStep ==
    ASSUME StorageInv, DataInv, LeadOK, [Next]_vars
    PROVE  LeadOK'
<1>1. /\ faults \in Nat /\ MaxFaults \in Nat /\ Lead \in Nat
      /\ manifestFile.next \in Nat /\ manifest.next \in Nat
  BY StorageAssumption, StorageInvParts, ManifestParts
  DEF StorageInv, TypeOK, Lead, ManifestsOK
<1>2. ASSUME faults' = faults \/ \E f \in FaultKinds : Fault(f)
      PROVE  faults' <= MaxFaults /\ faults' \in Nat /\ faults <= faults'
  BY <1>1, <1>2 DEF LeadOK, Fault
<1>3. faults' = faults \/ \E f \in FaultKinds : Fault(f)
  <2>1. ASSUME NEW k \in Keys, Get(k) PROVE faults' = faults
    BY <2>1 DEF Get, bounds
  <2>2. ASSUME NEW k \in Keys, NEW e \in Entry, Write(k, e) PROVE faults' = faults
    BY <2>2 DEF Write
  <2>3. ASSUME InitializeFails \/ AppendFails
        PROVE  faults' = faults \/ \E f \in FaultKinds : Fault(f)
    BY <2>3 DEF InitializeFails, AppendFails, FaultKinds
  <2>4. ASSUME FlushResetFails \/ CompactRetireFails \/ WriteFails \/ PublishFails
        PROVE  \E f \in FaultKinds : Fault(f)
    BY <2>4 DEF FlushResetFails, CompactRetireFails, WriteFails, PublishFails, FaultKinds
  <2>5. ASSUME \/ Initialize \/ Crash \/ Shutdown \/ Load \/ LoadFails \/ AppendRecord
               \/ NoFlush \/ StartFlush \/ FlushWrite \/ FlushPublish \/ FlushReset
               \/ CompactWrite \/ CompactUnreadable \/ CompactPublish
               \/ CompactRetire \/ CompactUnlink \/ UNCHANGED vars
        PROVE  faults' = faults
    BY <2>5 DEF Initialize, Crash, Shutdown, Load, LoadFails, AppendRecord, NoFlush,
                StartFlush, FlushWrite, FlushPublish, FlushReset, CompactWrite,
                CompactUnreadable, CompactPublish, CompactRetire, CompactUnlink,
                vars, bounds
  <2> QED  BY <2>1, <2>2, <2>3, <2>4, <2>5 DEF Next, Step
<1>4. faults' <= MaxFaults /\ faults' \in Nat /\ faults <= faults'
  BY <1>2, <1>3
<1>5. Lead' \in Nat /\ Lead <= Lead'
  BY <1>4 DEF Lead
<1>6. ASSUME manifest' = manifestFile', manifestFile'.next \in Nat PROVE LeadOK'
  BY <1>4, <1>5, <1>6 DEF LeadOK
<1>7. ASSUME UNCHANGED <<manifest, manifestFile>>, Running' => Running PROVE LeadOK'
  <2>1. Running' => manifest'.next <= manifestFile'.next + Lead
    BY <1>7 DEF LeadOK
  <2>2. Running' => manifest'.next <= manifestFile'.next + Lead'
    BY <1>1, <1>5, <1>7, <2>1
  <2> QED  BY <1>4, <2>2 DEF LeadOK
<1>8. ASSUME ~Running' PROVE LeadOK'
  BY <1>4, <1>8 DEF LeadOK
<1>9. ASSUME PublishFails PROVE LeadOK'
  <2>1. /\ Running /\ manifestFile' = manifestFile
        /\ manifest' = UndoAddTable(manifest, Metadata(manifest.next, files[manifest.next]))
        /\ "add_table" \in Faults /\ faults' = faults + 1
    BY <1>9 DEF PublishFails, Fault, Running, Writing
  <2>2. manifest.tables = manifestFile.tables
        /\ (manifest.tables = << >> => manifestFile.next = 1)
    BY <2>1 DEF DataInv, TablesOK, MirrorOK
  <2>3. AddTable(manifest, Metadata(manifest.next, files[manifest.next])).next =
            manifest.next + 1
    <3>1. manifest.next >= manifest.next
      BY <1>1
    <3> QED  BY <3>1 DEF AddTable, Metadata
  <2>4. \/ manifest'.next = 1 /\ manifestFile.next = 1
        \/ manifest'.next = manifest.next + 1
    BY <2>1, <2>2, <2>3 DEF UndoAddTable
  <2>5. manifest.next <= manifestFile.next + faults /\ Lead' = faults + 1
    BY <2>1 DEF LeadOK, Lead
  <2>6. manifest'.next <= manifestFile'.next + Lead'
    BY <1>1, <2>1, <2>4, <2>5
  <2> QED  BY <1>4, <2>6 DEF LeadOK
<1>10. ASSUME Initialize PROVE LeadOK'
  <2>1. manifest' = manifestFile'
    BY <1>10 DEF Initialize
  <2>2. manifestFile'.next \in Nat
    <3>1. RecoveredManifest(manifestFile, files, torn) \in Manifests
      BY OnDiskFacts, RebuildOrdered DEF RecoveredManifest, TableFiles
    <3> QED  BY <1>10, <3>1, ManifestParts DEF Initialize
  <2> QED  BY <1>6, <2>1, <2>2
<1>11. ASSUME FlushPublish \/ CompactPublish PROVE LeadOK'
  <2>1. manifest' = manifestFile' /\ manifest' =
            AddTable(manifest, Metadata(manifest.next, files[manifest.next]))
    BY <1>11 DEF FlushPublish, CompactPublish, PublishTable
  <2>2. manifestFile'.next \in Nat
    BY <1>1, <2>1 DEF AddTable, Metadata
  <2> QED  BY <1>6, <2>1, <2>2
<1>12. ASSUME CompactRetire PROVE LeadOK'
  <2>1. manifest' = manifestFile' /\ manifest' = RemoveTables(manifest, OldIds)
    BY <1>12 DEF CompactRetire
  <2>2. manifestFile'.next \in Nat
    BY <1>1, <2>1 DEF RemoveTables
  <2> QED  BY <1>6, <2>1, <2>2
<1>13. ASSUME NEW k \in Keys, Get(k) PROVE LeadOK'
  BY <1>7, <1>13 DEF Get, memory, disk, Running
<1>14. ASSUME NEW k \in Keys, NEW e \in Entry, Write(k, e) PROVE LeadOK'
  BY <1>7, <1>14 DEF Write, memory, disk, Running
<1>15. ASSUME InitializeFails \/ LoadFails \/ Crash \/ Shutdown PROVE LeadOK'
  <2>1. pc' \in {"failed", "down"}
    BY <1>15 DEF InitializeFails, LoadFails, Crash, Shutdown, Ends
  <2> QED  BY <1>8, <2>1 DEF Running, Writing
<1>16. ASSUME \/ Load \/ AppendRecord \/ AppendFails \/ NoFlush \/ StartFlush
              \/ FlushWrite \/ FlushReset \/ FlushResetFails \/ CompactWrite
              \/ CompactUnreadable \/ CompactRetireFails \/ CompactUnlink
              \/ WriteFails
       PROVE  LeadOK'
  <2>1. UNCHANGED <<manifest, manifestFile>> /\ Running
    BY <1>16 DEF Load, AppendRecord, AppendFails, NoFlush, StartFlush, FlushWrite,
                 FlushReset, FlushResetFails, CompactWrite, CompactUnreadable,
                 CompactRetireFails, CompactUnlink, WriteFails, memory, disk,
                 Running, Writing
  <2> QED  BY <1>7, <2>1
<1>17. ASSUME UNCHANGED vars PROVE LeadOK'
  BY <1>7, <1>17 DEF vars, memory, disk, Running
<1> QED
  BY <1>9, <1>10, <1>11, <1>12, <1>13, <1>14, <1>15, <1>16, <1>17 DEF Next, Step

\* With few failures no end of the process finds next_table_id_ further ahead.
LEMMA LeadIsSafe ==
    ASSUME FewFailures, StorageInv, LeadOK
    PROVE  SafeEnd
<1> SUFFICES ASSUME Crash \/ Shutdown PROVE manifest.next <= manifestFile.next + 1
  BY DEF SafeEnd
<1>1. Running
  BY DEF Crash, Shutdown, Running, StorageInv, TypeOK
<1>2. /\ faults \in Nat /\ MaxFaults \in Nat
      /\ manifestFile.next \in Nat /\ manifest.next \in Nat
  BY StorageAssumption, StorageInvParts, ManifestParts DEF StorageInv, TypeOK, ManifestsOK
<1>3. faults <= MaxFaults /\ manifest.next <= manifestFile.next + Lead
  BY <1>1 DEF LeadOK
<1>4. Lead = 0 \/ Lead = 1
  BY <1>2, <1>3 DEF Lead, FewFailures
<1> QED  BY <1>2, <1>3, <1>4

\* A process ends at most one table id ahead of the MANIFEST, if add_table does
\* not fail or there is at most one failure of any kind.
THEOREM SafeEndTheorem ==
    ASSUME FewFailures
    PROVE  Spec => [][SafeEnd]_vars
<1>1. Init => DataInv /\ LeadOK
  <2>1. Init => LeadOK
    BY StorageAssumption DEF Init, LeadOK, Running, Writing
  <2> QED  BY <2>1, InitDataInv
<1>2. StorageInv /\ StorageInv' /\ DataInv /\ LeadOK /\ [Next]_vars
        => DataInv' /\ LeadOK' /\ [SafeEnd]_vars
  BY DataStep, LeadStep, LeadIsSafe
<1> QED  BY <1>1, <1>2, StorageInvariant, PTL DEF Spec

\* Then reads are current and the data in the files changes by appended records
\* alone, under any number of crashes and orderly ends: what the runs crashes,
\* disk_faults and publish_faults check.
THEOREM FewFailuresTheorem ==
    ASSUME FewFailures
    PROVE  Spec => []ReadsAreCurrent /\ RecoveredDataIsStable
BY SafeEndTheorem, ReadsTheorem, StabilityTheorem, PTL
=============================================================================

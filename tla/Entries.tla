------------------------------- MODULE Entries -------------------------------
(***************************************************************************)
(* The maps from keys to entries that every layer of ForgeDB handles: the  *)
(* MemTable, the contents of one SSTable, the result of replaying the WAL. *)
(* In the code each is an unordered_map<string, MemTableEntry>; here a map *)
(* is a total function that takes the value Absent where the unordered_map *)
(* has no entry.  A MemTableEntry is either a value or a tombstone         *)
(* (deleted = true, value = "").                                           *)
(***************************************************************************)
EXTENDS Integers, Sequences, FiniteSets, FiniteSetsExt

CONSTANTS
    Keys,       \* the keys, numbered in the order std::string compares them
    Values,     \* the values a PUT may carry
    Tombstone,  \* the entry of a deleted key
    Absent,     \* no entry at all
    KeySize,    \* key.size(), for every key
    ValueSize   \* value.size(), for every value

ASSUME KeysAssumption == Keys \subseteq Nat \ {0} /\ IsFiniteSet(Keys)

ASSUME SizeAssumption == KeySize \in [Keys -> Nat] /\ ValueSize \in [Values -> Nat]

ASSUME SentinelAssumption ==
    /\ Tombstone \notin Values
    /\ Absent \notin Values \cup {Tombstone}

\* What a MemTableEntry can hold.
Entry == Values \cup {Tombstone}

Map == [Keys -> Entry \cup {Absent}]

EmptyMap == [k \in Keys |-> Absent]

\* The keys a map has an entry for, tombstones included.
Present(m) == {k \in Keys : m[k] # Absent}

\* entry.value.size(): a tombstone keeps the empty string.
StoredSize(e) == IF e = Tombstone THEN 0 ELSE ValueSize[e]

\* MemTable::recompute_size of a map.
MapSize(m) ==
    MapThenSumSet(LAMBDA k : KeySize[k] + StoredSize(m[k]), Present(m))

(***************************************************************************)
(* A sequence of maps, oldest first.  Copying them in order into one       *)
(* unordered_map with data[key] = entry leaves each key with the entry of  *)
(* the last map that has one.                                              *)
(***************************************************************************)
Holders(s, k) == {i \in DOMAIN s : s[i][k] # Absent}

\* Mutant: the first map that has an entry wins.
OldestEntry(s, k) ==
    LET h == Holders(s, k) IN IF h = {} THEN Absent ELSE s[Min(h)][k]

NewestEntry(s, k) ==
    LET h == Holders(s, k) IN IF h = {} THEN Absent ELSE s[Max(h)][k]

Merge(s) == [k \in Keys |-> NewestEntry(s, k)]

\* Mutant: the WAL does not override the tables.
OverlaySwapped(old, new) ==
    [k \in Keys |-> LET e == old[k] IN IF e = Absent THEN new[k] ELSE e]

\* One map copied over another one.
Overlay(old, new) ==
    [k \in Keys |-> LET e == new[k] IN IF e = Absent THEN old[k] ELSE e]

\* Storage::compact erases the tombstones of the merged map.
DropTombstones(m) ==
    [k \in Keys |-> LET e == m[k] IN IF e = Tombstone THEN Absent ELSE e]

\* What a reader sees of a map: a missing entry and a tombstone look the same.
View(m) ==
    [k \in Keys |-> LET e == m[k] IN IF e = Absent THEN Tombstone ELSE e]

\* The elements of a finite set of numbers in ascending order.
Ascending(S) ==
    [n \in 1..Cardinality(S) |->
        CHOOSE x \in S : Cardinality({y \in S : y <= x}) = n]
=============================================================================

------------------------------ MODULE Manifest -------------------------------
(***************************************************************************)
(* SSTable metadata and the MANIFEST that lists the live tables.           *)
(*                                                                         *)
(* The metadata of a table keeps its id, which determines its file name,   *)
(* and the range of keys SSTable::get looks into the file for: the keys    *)
(* between smallest_key and largest_key.  The range is empty exactly when  *)
(* entry_count is 0.  A manifest is the pair of next_table_id_ and tables_ *)
(* (oldest first); a missing MANIFEST file loads as NewManifest.           *)
(***************************************************************************)
EXTENDS Entries

\* Mutant: the largest key is left out of the range.
KeyRangeOpen(m) ==
    {k \in Keys : \E lo, hi \in Present(m) : lo <= k /\ k < hi}

\* The keys between the smallest and the largest key of a map.
KeyRange(m) ==
    {k \in Keys : \E lo, hi \in Present(m) : lo <= k /\ k <= hi}

\* The metadata SSTable::write fills in for the map it wrote.
Metadata(id, m) == [id |-> id, range |-> KeyRange(m)]

Table == [id : Nat, range : SUBSET Keys]

Manifests == [next : Nat, tables : Seq(Table)]

NewManifest == [next |-> 1, tables |-> << >>]

TableIds(m) == {m.tables[i].id : i \in DOMAIN m.tables}

(***************************************************************************)
(* Manifest::load of what persist wrote.  An entry is written as five      *)
(* words; those of a table without entries have two empty ones, and the    *)
(* formatted read then takes the next line's words for them and fails at   *)
(* the latest when it reads a file name as entry_count.                    *)
(***************************************************************************)
Loadable(m) == \A i \in DOMAIN m.tables : m.tables[i].range # {}

\* Mutant: next_table_id_ is not advanced.
AddTableSameId(m, t) == [next |-> m.next, tables |-> Append(m.tables, t)]

\* add_table: the table becomes the newest one.
AddTable(m, t) ==
    [next   |-> IF t.id >= m.next THEN t.id + 1 ELSE m.next,
     tables |-> Append(m.tables, t)]

\* Mutant: a rollback always resets next_table_id_.
UndoAlwaysResets(m, t) == [next |-> 1, tables |-> m.tables]

\* add_table when persist fails: the table is taken out again, but
\* next_table_id_ keeps its new value unless no table is left.
UndoAddTable(m, t) ==
    [next   |-> IF m.tables = << >> THEN 1 ELSE AddTable(m, t).next,
     tables |-> m.tables]

\* remove_tables keeps the order of the tables that stay.
RemoveTables(m, ids) ==
    LET kept == Ascending({i \in DOMAIN m.tables : m.tables[i].id \notin ids})
    IN [next   |-> m.next,
        tables |-> [n \in DOMAIN kept |-> m.tables[kept[n]]]]

(***************************************************************************)
(* rebuild_from_directory: every file that parses and is not empty, in the *)
(* order of the ids.  fs maps the ids of the readable table files to their *)
(* contents.                                                               *)
(***************************************************************************)
RebuiltIds(fs) == {id \in DOMAIN fs : Present(fs[id]) # {}}

RebuiltTables(fs) ==
    LET ids == RebuiltIds(fs)
    IN [n \in 1 .. Cardinality(ids) |->
            LET id == Ascending(ids)[n] IN Metadata(id, fs[id])]

\* Mutant: the rebuilt MANIFEST gives out the largest id once more.
RebuildReusesId(fs) ==
    LET ids == RebuiltIds(fs)
    IN [next   |-> IF ids = {} THEN 1 ELSE Max(ids),
        tables |-> RebuiltTables(fs)]

Rebuild(fs) ==
    LET ids == RebuiltIds(fs)
    IN [next   |-> IF ids = {} THEN 1 ELSE Max(ids) + 1,
        tables |-> RebuiltTables(fs)]
=============================================================================

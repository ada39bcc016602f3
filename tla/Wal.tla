--------------------------------- MODULE Wal ---------------------------------
(***************************************************************************)
(* The write-ahead log: what its file holds and what recover_wal makes of  *)
(* it.                                                                     *)
(*                                                                         *)
(* The file is a sequence of records.  A record is complete (gap = 0) or   *)
(* torn: a crash or a failed write left only its first bytes.  Nothing in  *)
(* the file says where a torn record stops, so recovery takes the bytes    *)
(* that were appended later for the missing ones.  The gap of a torn       *)
(* record is the number of later records it takes to supply as many bytes  *)
(* as recovery still expects; it depends on where the write was cut, so a  *)
(* tear may leave any gap.  WalFile has the bytes.                         *)
(***************************************************************************)
EXTENDS Entries

Records == [key : Keys, entry : Entry, gap : Nat]

\* A complete record: [length][payload][CRC32(payload)].
Record(k, e) == [key |-> k, entry |-> e, gap |-> 0]

\* The first bytes of a record.
TornRecord(k, e, g) == [key |-> k, entry |-> e, gap |-> g]

TornAt(w) == {i \in DOMAIN w : w[i].gap # 0}

\* Mutant: the torn record itself counts among those behind it.
CorruptedAtEnd(w) ==
    /\ TornAt(w) # {}
    /\ LET first == Min(TornAt(w)) IN Len(w) - first + 1 >= w[first].gap

\* read_record: a torn record whose missing bytes are all there, taken from
\* the records behind it, fails its checksum or its length check.
Corrupted(w) ==
    /\ TornAt(w) # {}
    /\ LET first == Min(TornAt(w)) IN Len(w) - first >= w[first].gap

\* The records recover_wal applies: all those before the first torn one.
\* Reaching the end of the file inside a record ends the loop with
\* RECOVERED_INCOMPLETE_TAIL (or SUCCESS when even the length is cut off).
ValidPrefix(w) ==
    IF TornAt(w) = {} THEN w ELSE SubSeq(w, 1, Min(TornAt(w)) - 1)

\* A complete record stands behind a torn one.
Garbled(w) == \E i, j \in DOMAIN w : i < j /\ w[i].gap # 0 /\ w[j].gap = 0

RecordMap(r) == [k \in Keys |-> IF k = r.key THEN r.entry ELSE Absent]

\* recover_wal: the map the valid records leave, later ones over earlier.
RecoverWal(w) ==
    LET valid == ValidPrefix(w)
    IN Merge([i \in DOMAIN valid |-> RecordMap(valid[i])])
=============================================================================

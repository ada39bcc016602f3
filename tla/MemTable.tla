------------------------------ MODULE MemTable -------------------------------
(***************************************************************************)
(* MemTable: the entries written since the last flush and size_in_bytes_,  *)
(* which Database compares with MEMTABLE_FLUSH_THRESHOLD.  The size is     *)
(* never recounted by put and erase: they add and subtract what the entry  *)
(* they replace and the one they store contribute.  Only replace, which    *)
(* installs what recovery read, counts from scratch.                       *)
(***************************************************************************)
EXTENDS Entries

VARIABLES data, size

vars == <<data, size>>

Init == data = EmptyMap /\ size = 0

\* Mutant: replacing an entry forgets to count the new value.
PutForgetsNewSize(k, v) ==
    /\ data' = [data EXCEPT ![k] = v]
    /\ size' = IF data[k] # Absent
               THEN size - (KeySize[k] + StoredSize(data[k]))
               ELSE size + KeySize[k] + ValueSize[v]

Put(k, v) ==
    /\ data' = [data EXCEPT ![k] = v]
    /\ size' = IF data[k] # Absent
               THEN size - (KeySize[k] + StoredSize(data[k]))
                         + (KeySize[k] + ValueSize[v])
               ELSE size + KeySize[k] + ValueSize[v]

\* Mutant: the size of the replaced value stays in the count.
EraseKeepsValueSize(k) ==
    /\ data' = [data EXCEPT ![k] = Tombstone]
    /\ size' = IF data[k] # Absent THEN size ELSE size + KeySize[k]

Erase(k) ==
    /\ data' = [data EXCEPT ![k] = Tombstone]
    /\ size' = IF data[k] # Absent
               THEN size - (KeySize[k] + StoredSize(data[k])) + KeySize[k]
               ELSE size + KeySize[k]

Clear == data' = EmptyMap /\ size' = 0

Replace(m) == data' = m /\ size' = MapSize(m)

Next ==
    \/ \E k \in Keys, v \in Values : Put(k, v)
    \/ \E k \in Keys : Erase(k)
    \/ Clear
    \/ \E m \in Map : Replace(m)

Spec == Init /\ [][Next]_vars

TypeOK == data \in Map /\ size \in Nat

(***************************************************************************)
(* Whatever calls led here, the count put and erase kept up is the one     *)
(* recompute_size would produce.  A count that drifts flushes the MemTable *)
(* early or never, and one that falls below zero wraps around (size_t) and *)
(* flushes on every write.                                                 *)
(***************************************************************************)
SizeIsExact == size = MapSize(data)
=============================================================================

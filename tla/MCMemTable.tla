----------------------------- MODULE MCMemTable ------------------------------
(***************************************************************************)
(* MemTable with keys and values of different lengths, so that no two      *)
(* mistakes in the size arithmetic cancel out.  v0 is the empty value.     *)
(***************************************************************************)
EXTENDS MemTable

CONSTANTS v0, v2, v5

MCKeySize == [k \in Keys |-> k]

MCValueSize == [v \in Values |-> IF v = v0 THEN 0 ELSE IF v = v2 THEN 2 ELSE 5]
=============================================================================

------------------------------ MODULE MCWalFile ------------------------------
(***************************************************************************)
(* Instances of WalFile for TLC.  A length has two bytes, so that it can   *)
(* be cut; a DELETE has a shorter payload than a PUT, and the payload of a *)
(* PUT of Large is above the limit.                                        *)
(***************************************************************************)
EXTENDS WalFile

CONSTANTS Small, Large

NoSizes == [k \in Keys |-> 0]

Unsized == [v \in Values |-> 0]

PayloadSizes ==
    [e \in Entry |-> CASE e = Tombstone -> 1 [] e = Small -> 2 [] e = Large -> 3]
=============================================================================

------------------------------ MODULE MCForgeDB ------------------------------
(***************************************************************************)
(* Instances of ForgeDB for TLC.  Every key and every value has one byte,  *)
(* so with a FlushThreshold of 2 a PUT alone fills the MemTable and a      *)
(* DELETE does not, and with 3 it takes a PUT and another key.             *)
(***************************************************************************)
EXTENDS ForgeDB, TLC

OneByteKeys == [k \in Keys |-> 1]

OneByteValues == [v \in Values |-> 1]

NoFaults == {}

\* Failures of the log, the table files and the MANIFEST; those of add_table
\* have a run of their own.
DiskFaults == FaultKinds \ {"add_table"}

\* add_table fails, and the new file may stay behind.
PublishFault == {"add_table", "unlink"}

ValueSymmetry == Permutations(Values)
=============================================================================

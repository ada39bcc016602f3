------------------------------- MODULE KVStore -------------------------------
(***************************************************************************)
(* What ForgeDB promises its caller: a durable map from keys to values     *)
(* behind Database::execute, which one mutex makes sequential.             *)
(*                                                                         *)
(* A write takes effect at most once, at one instant.  OK means that it    *)
(* did, between its call and its reply; ERROR leaves it open.  One write   *)
(* that had not taken effect when ERROR was returned may still do so, when *)
(* the process ends in good order; until then no other write takes effect, *)
(* so that it never overrides a newer one.  A read answers with the        *)
(* current value or with ERROR, never with another value.  A crash ends    *)
(* the current call and loses nothing that took effect.                    *)
(*                                                                         *)
(* Nothing is promised about when the database can be started again.       *)
(***************************************************************************)
CONSTANTS Keys, Values, Tombstone, Absent

VARIABLES
    store,  \* the value of every key, Tombstone for none
    op,     \* the write in progress, and whether it took effect
    late,   \* the refused write that may still take effect
    reply   \* what the last call returned

vars == <<store, op, late, reply>>

Idle == [key |-> 0, entry |-> Absent, applied |-> FALSE]

NoWrite == [key |-> 0, entry |-> Absent]

NoReply == [status |-> "none", key |-> 0, value |-> Absent]

Reply(s, k) == [status |-> s, key |-> k, value |-> Absent]

Found(k, v) == [status |-> "value", key |-> k, value |-> v]

Init ==
    /\ store = [k \in Keys |-> Tombstone]
    /\ op = Idle
    /\ late = NoWrite
    /\ reply = NoReply

\* PUT (an entry of Values) or DELETE (a tombstone).
Call(k, e) ==
    /\ op = Idle
    /\ op' = [key |-> k, entry |-> e, applied |-> FALSE]
    /\ reply' = NoReply
    /\ UNCHANGED <<store, late>>

Apply ==
    /\ op # Idle
    /\ ~op.applied
    /\ late = NoWrite
    /\ store' = [store EXCEPT ![op.key] = op.entry]
    /\ op' = [op EXCEPT !.applied = TRUE]
    /\ UNCHANGED <<late, reply>>

Return ==
    /\ op # Idle
    /\ \/ op.applied /\ reply' = Reply("OK", op.key) /\ UNCHANGED late
       \/ reply' = Reply("ERROR", op.key) /\ UNCHANGED late
       \/ /\ ~op.applied
          /\ late = NoWrite
          /\ reply' = Reply("ERROR", op.key)
          /\ late' = [key |-> op.key, entry |-> op.entry]
    /\ op' = Idle
    /\ UNCHANGED store

Get(k) ==
    /\ op = Idle
    /\ reply' \in {Reply("ERROR", k),
                   IF store[k] = Tombstone THEN Reply("NOT_FOUND", k)
                                           ELSE Found(k, store[k])}
    /\ UNCHANGED <<store, op, late>>

\* The process dies.
Crash ==
    /\ op' = Idle
    /\ late' = NoWrite
    /\ reply' = NoReply
    /\ UNCHANGED store

\* The process ends in good order.
End ==
    /\ op = Idle
    /\ \/ UNCHANGED store
       \/ late # NoWrite /\ store' = [store EXCEPT ![late.key] = late.entry]
    /\ late' = NoWrite
    /\ reply' = NoReply
    /\ UNCHANGED op

Next ==
    \/ \E k \in Keys, e \in Values \cup {Tombstone} : Call(k, e)
    \/ Apply
    \/ Return
    \/ \E k \in Keys : Get(k)
    \/ Crash
    \/ End

\* Every call is answered, unless the process dies first.
Fairness == WF_vars(Return \/ Apply)

Spec == Init /\ [][Next]_vars /\ Fairness
=============================================================================

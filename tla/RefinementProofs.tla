-------------------------- MODULE RefinementProofs --------------------------
(***************************************************************************)
(* The safety part of the refinement: every step of ForgeDB is a step of   *)
(* KVStore or leaves its state alone, when the data in the files is taken  *)
(* for the store and the write that a bad stream has kept for the late     *)
(* one.  It holds as long as no record is appended behind a torn one (the  *)
(* run torn_tail shows what that does) and every end of the process is a   *)
(* SafeEnd (the run stale_table shows what another one does).              *)
(***************************************************************************)
EXTENDS DataProofs

\* No record in the log is torn.
CleanLog == \A i \in DOMAIN wal : wal[i].gap = 0

\* A log that no write has torn stays clean.
LEMMA CleanLogStep ==
    ASSUME Gaps = {}, StorageInv, CleanLog, [Next]_vars
    PROVE  CleanLog'
<1>1. wal \in Seq(Records)
  BY DEF StorageInv, TypeOK
<1>2. ASSUME wal' = wal \/ wal' = << >> PROVE CleanLog'
  BY <1>2 DEF CleanLog
<1>3. ASSUME NEW r, wal' = Append(wal, r), r.gap = 0 PROVE CleanLog'
  <2> DEFINE n == Len(wal)
  <2>1. /\ n \in Nat /\ DOMAIN wal = 1 .. n /\ DOMAIN wal' = 1 .. n + 1
        /\ \A i \in 1 .. n : wal'[i] = wal[i]
        /\ wal'[n + 1] = r
    BY <1>1, <1>3
  <2> QED  BY <1>3, <2>1 DEF CleanLog
<1>4. ASSUME AppendRecord PROVE CleanLog'
  BY <1>3, <1>4 DEF AppendRecord, Record
<1>5. ASSUME Shutdown PROVE CleanLog'
  BY <1>2, <1>3, <1>5 DEF Shutdown, TornRecord
<1>6. AppendRecord \/ Shutdown \/ wal' = wal \/ wal' = << >>
  BY DEF Next, Step, Initialize, InitializeFails, Get, Write, Load, LoadFails,
         AppendFails, NoFlush, StartFlush, FlushWrite, FlushPublish, FlushReset,
         FlushResetFails, CompactWrite, CompactUnreadable, CompactPublish,
         CompactRetire, CompactRetireFails, CompactUnlink, WriteFails,
         PublishFails, Crash, vars, disk
<1> QED  BY <1>2, <1>4, <1>5, <1>6

\* No complete record stands behind a torn one.
NotGarbled == ~Garbled(wal)

\* None does in a clean log.
LEMMA CleanIsNotGarbled == CleanLog => NotGarbled
BY DEF CleanLog, Garbled, NotGarbled

-----------------------------------------------------------------------------
(***************************************************************************)
(* The steps.                                                              *)
(***************************************************************************)

\* A write in progress is not Idle.
LEMMA OpIs ==
    ASSUME StorageInv
    PROVE  /\ pc \notin Writing => op = KV!Idle
           /\ pc \in Writing =>
                /\ op # KV!Idle
                /\ op = [key |-> req.key, entry |-> req.entry, applied |-> pc # "append"]
                /\ req.key \in Keys
                /\ req.entry \in Values \cup {Tombstone}
<1>1. pc \notin Writing => op = KV!Idle
  BY DEF op, KV!Idle
<1>2. ASSUME pc \in Writing
      PROVE  /\ op = [key |-> req.key, entry |-> req.entry, applied |-> pc # "append"]
             /\ req.key \in Keys /\ req.entry \in Values \cup {Tombstone}
  BY <1>2 DEF op, StorageInv, TypeOK, Entry
<1>3. ASSUME pc \in Writing PROVE op # KV!Idle
  <2>1. op.key = req.key /\ req.key # 0
    BY <1>2, <1>3, KeysAssumption
  <2>2. KV!Idle.key = 0
    BY DEF KV!Idle
  <2> QED  BY <2>1, <2>2
<1> QED  BY <1>1, <1>2, <1>3

\* What a step does to the store.
LEMMA StoreStep ==
    ASSUME StorageInv, StorageInv', DataInv, NotGarbled, NotGarbled',
           [Next]_vars, SafeEnd
    PROVE  \/ Recovered' = IF pc = "append" /\ pc' = "check"
                           THEN [Recovered EXCEPT ![req.key] = req.entry]
                           ELSE Recovered
           \/ /\ Shutdown /\ stream = "bad"
              /\ Recovered' = [Recovered EXCEPT ![kept.key] = kept.entry]
<1>1. ~Garbled(wal) /\ ~Garbled(wal')
  BY DEF NotGarbled
<1>2. /\ After = [k \in Keys |-> After[k]]
      /\ Recovered = [k \in Keys |-> Recovered[k]]
      /\ Recovered' = After
  BY DEF After, Recovered, OnDisk, View
<1>3. CASE \A k \in Keys : StableAt(k)
  <2>1. \A k \in Keys :
            After[k] = IF pc = "append" /\ pc' = "check" /\ k = req.key
                       THEN req.entry ELSE Recovered[k]
    BY <1>1, <1>3 DEF StableAt
  <2> QED  BY <1>2, <2>1
<1>4. CASE Shutdown /\ stream = "bad" /\ \A k \in Keys : LateAt(k)
  <2>1. \A k \in Keys :
            After[k] = IF k = kept.key THEN kept.entry ELSE Recovered[k]
    BY <1>1, <1>4 DEF LateAt
  <2> QED  BY <1>2, <1>4, <2>1
<1> QED  BY <1>3, <1>4, DataStep

\* A call that returns.
LEMMA ReturnRefines ==
    ASSUME StorageInv, pc \in Writing, NEW s \in {"OK", "ERROR"}, Return(s),
           s = "OK" => pc # "append", Recovered' = Recovered,
           \/ kept' = kept
           \/ pc = "append" /\ s = "ERROR" /\ kept = NoRequest /\ kept' = req
    PROVE  KV!Return
<1>1. /\ op # KV!Idle
      /\ op = [key |-> req.key, entry |-> req.entry, applied |-> pc # "append"]
  BY OpIs
<1>2. /\ pc' = "ready"
      /\ reply' = [status |-> s, key |-> req.key, value |-> Absent]
  BY DEF Return
<1>3. op' = KV!Idle
  BY <1>2 DEF op, Writing, KV!Idle
<1>4. reply' = KV!Reply(s, op.key)
  BY <1>1, <1>2 DEF KV!Reply
<1>5. s = "OK" => op.applied
  BY <1>1
<1>6. ASSUME pc = "append", kept = NoRequest, kept' = req
      PROVE  /\ ~op.applied /\ kept = KV!NoWrite
             /\ kept' = [key |-> op.key, entry |-> op.entry]
  <2>1. req \in [key : Keys, entry : Entry]
    BY DEF StorageInv, TypeOK
  <2>2. op.key = req.key /\ op.entry = req.entry
    BY <1>1
  <2>3. ~op.applied
    BY <1>1, <1>6
  <2> QED  BY <1>6, <2>1, <2>2, <2>3 DEF NoRequest, KV!NoWrite
<1> QED  BY <1>1, <1>3, <1>4, <1>5, <1>6 DEF KV!Return

\* execute_get.
LEMMA GetRefines ==
    ASSUME StorageInv, DataInv, NotGarbled, NEW k \in Keys, Get(k),
           Recovered' = Recovered
    PROVE  KV!Get(k)
<1> DEFINE e == Lookup(k)
<1>1. pc = "ready" /\ pc' = pc /\ req' = req /\ reply' = Answer(k) /\ kept' = kept
  BY DEF Get, memory
<1>2. op = KV!Idle /\ op' = op
  BY <1>1 DEF op, Writing, KV!Idle
<1>3. e = ReadError \/ Visible(e) = Recovered[k]
  BY <1>1, LookupIsCurrent DEF InCall, NotGarbled
<1>4. Answer(k) = CASE e = ReadError ->
                        [status |-> "ERROR", key |-> k, value |-> Absent]
                    [] e \in {Absent, Tombstone} ->
                        [status |-> "NOT_FOUND", key |-> k, value |-> Absent]
                    [] OTHER -> [status |-> "value", key |-> k, value |-> e]
  BY DEF Answer
<1> HIDE DEF e
<1>5. Answer(k) \in {KV!Reply("ERROR", k),
                     IF Recovered[k] = Tombstone THEN KV!Reply("NOT_FOUND", k)
                                                 ELSE KV!Found(k, Recovered[k])}
  <2>1. CASE e = ReadError
    <3>1. e \notin {Absent, Tombstone}
      BY <2>1, StorageAssumption DEF Entry
    <3>2. Answer(k) = KV!Reply("ERROR", k)
      BY <1>4, <2>1, <3>1 DEF KV!Reply
    <3> QED  BY <3>2
  <2>2. CASE e # ReadError /\ e \in {Absent, Tombstone}
    <3>1. Recovered[k] = Tombstone
      BY <1>3, <2>2 DEF Visible
    <3>2. Answer(k) = KV!Reply("NOT_FOUND", k)
      BY <1>4, <2>2 DEF KV!Reply
    <3> QED  BY <3>1, <3>2
  <2>3. CASE e # ReadError /\ e \notin {Absent, Tombstone}
    <3>1. Recovered[k] = e /\ e # Tombstone
      BY <1>3, <2>3 DEF Visible
    <3>2. Answer(k) = KV!Found(k, e)
      BY <1>4, <2>3 DEF KV!Found
    <3> QED  BY <3>1, <3>2
  <2> QED  BY <2>1, <2>2, <2>3
<1> QED  BY <1>1, <1>2, <1>5 DEF KV!Get

\* Marking a write as applied.
LEMMA SetApplied ==
    \A a, b, c, d :
        [[key |-> a, entry |-> b, applied |-> c] EXCEPT !.applied = d] =
        [key |-> a, entry |-> b, applied |-> d]
BY SMT

\* Every step.
LEMMA StepRefines ==
    ASSUME StorageInv, StorageInv', DataInv, NotGarbled, NotGarbled',
           [Next]_vars, SafeEnd
    PROVE  [KV!Next]_(KV!vars)
<1>1. ~Shutdown => Recovered' = IF pc = "append" /\ pc' = "check"
                                THEN [Recovered EXCEPT ![req.key] = req.entry]
                                ELSE Recovered
  BY StoreStep
<1>2. ASSUME NEW k \in Keys, Get(k) PROVE KV!Next
  <2>1. Recovered' = Recovered
    BY <1>1, <1>2 DEF Get, Shutdown, Ends
  <2> QED  BY <1>2, <2>1, GetRefines DEF KV!Next
<1>3. ASSUME NEW k \in Keys, NEW e \in Entry, Write(k, e) PROVE KV!Next
  <2>1. /\ pc = "ready" /\ pc' = "append" /\ kept' = kept
        /\ req' = [key |-> k, entry |-> e] /\ reply' = NoReply
    BY <1>3 DEF Write, memory
  <2>2. Recovered' = Recovered
    BY <1>1, <2>1 DEF Shutdown, Ends
  <2>3. op = KV!Idle
    BY <2>1 DEF op, Writing, KV!Idle
  <2>4. op' = [key |-> k, entry |-> e, applied |-> FALSE]
    BY <2>1 DEF op, Writing
  <2>5. KV!Call(k, e)
    BY <2>1, <2>2, <2>3, <2>4 DEF KV!Call, NoReply, KV!NoReply
  <2> QED  BY <2>5 DEF KV!Next, Entry
<1>4. ASSUME AppendRecord PROVE KV!Next
  <2>1. /\ pc = "append" /\ pc' = "check" /\ req' = req /\ reply' = reply
        /\ kept = KV!NoWrite /\ kept' = kept
    BY <1>4 DEF AppendRecord, StorageInv, TypeOK, NoRequest, KV!NoWrite
  <2>2. /\ op # KV!Idle
        /\ op = [key |-> req.key, entry |-> req.entry, applied |-> FALSE]
    BY <2>1, OpIs DEF Writing
  <2>3. op' = [key |-> req.key, entry |-> req.entry, applied |-> TRUE]
    BY <2>1 DEF op, Writing
  <2>4. Recovered' = [Recovered EXCEPT ![op.key] = op.entry]
    BY <1>1, <2>1, <2>2 DEF Shutdown
  <2>5. op' = [op EXCEPT !.applied = TRUE] /\ ~op.applied
    <3> DEFINE c == FALSE
               d == TRUE
    <3>1. /\ op = [key |-> req.key, entry |-> req.entry, applied |-> c]
          /\ op' = [key |-> req.key, entry |-> req.entry, applied |-> d]
      BY <2>2, <2>3
    <3>2. op.applied = c
      BY <3>1
    <3> HIDE DEF c, d
    <3>3. op' = [op EXCEPT !.applied = d]
      BY <3>1, SetApplied
    <3> QED  BY <3>2, <3>3 DEF c, d
  <2> QED  BY <2>1, <2>2, <2>4, <2>5 DEF KV!Next, KV!Apply
<1>5. ASSUME Crash PROVE KV!Next
  <2>1. pc' = "down" /\ reply' = NoReply /\ kept' = NoRequest /\ ~Shutdown
    BY <1>5 DEF Crash, Shutdown, Ends, bounds, StorageInv, TypeOK
  <2>2. op' = KV!Idle /\ Recovered' = Recovered
    BY <1>1, <2>1 DEF op, Writing, KV!Idle
  <2> QED  BY <2>1, <2>2 DEF KV!Next, KV!Crash, NoReply, KV!NoReply, NoRequest, KV!NoWrite
<1>6. ASSUME \/ AppendFails \/ NoFlush \/ FlushResetFails \/ CompactUnreadable
             \/ CompactRetireFails \/ CompactUnlink \/ WriteFails \/ PublishFails
      PROVE  KV!Next
  <2>1. /\ pc \in Writing
        /\ \/ Return("ERROR")
           \/ Return("OK") /\ pc # "append"
    BY <1>6 DEF AppendFails, NoFlush, FlushResetFails, CompactUnreadable,
                CompactRetireFails, CompactUnlink, WriteFails, PublishFails,
                Writing
  <2>2. Recovered' = Recovered
    BY <1>1, <2>1 DEF Return, Shutdown, Ends
  <2>3. CASE kept' = kept
    BY <2>1, <2>2, <2>3, ReturnRefines DEF KV!Next
  <2>4. CASE AppendFails /\ kept' # kept
    <3>1. pc = "append" /\ stream # "bad" /\ kept' = req /\ Return("ERROR")
      BY <2>4 DEF AppendFails
    <3>2. kept = NoRequest
      BY <3>1 DEF StorageInv, TypeOK
    <3> QED  BY <2>1, <2>2, <3>1, <3>2, ReturnRefines DEF KV!Next
  <2>5. kept' = kept \/ AppendFails
    BY <1>6 DEF NoFlush, FlushResetFails, CompactUnreadable, CompactRetireFails,
                CompactUnlink, WriteFails, PublishFails, memory
  <2> QED  BY <2>3, <2>4, <2>5
<1>7. ASSUME pc \in Writing \ {"append"}, pc' \in Writing \ {"append"},
             req' = req, reply' = reply, kept' = kept
      PROVE  UNCHANGED KV!vars
  <2>1. Recovered' = Recovered
    BY <1>1, <1>7 DEF Shutdown, Writing
  <2>2. op' = op
    BY <1>7 DEF op
  <2> QED  BY <1>7, <2>1, <2>2 DEF KV!vars
<1>8. ASSUME FlushReset PROVE [KV!Next]_(KV!vars)
  <2>1. pc = "flush_reset" /\ kept' = kept
    BY <1>8 DEF FlushReset
  <2>2. CASE Return("OK")
    <3>1. Recovered' = Recovered
      BY <1>1, <2>1 DEF Shutdown
    <3>2. KV!Return
      BY <2>1, <2>2, <3>1, ReturnRefines DEF Writing
    <3> QED  BY <3>2 DEF KV!Next
  <2>3. CASE pc' = "compact_write" /\ UNCHANGED <<req, reply>>
    BY <1>7, <2>1, <2>3 DEF Writing
  <2> QED  BY <1>8, <2>2, <2>3 DEF FlushReset
<1>9. ASSUME \/ StartFlush \/ FlushWrite \/ FlushPublish \/ CompactWrite
             \/ CompactPublish \/ CompactRetire
      PROVE  UNCHANGED KV!vars
  BY <1>7, <1>9 DEF StartFlush, FlushWrite, FlushPublish, CompactWrite,
                    CompactPublish, CompactRetire, memory, Writing
<1>10. ASSUME Initialize \/ InitializeFails \/ Load \/ LoadFails
       PROVE  UNCHANGED KV!vars
  <2>1. /\ pc \notin Writing \cup {"ready"} /\ pc' \notin Writing
        /\ reply' = reply /\ kept' = kept
    BY <1>10 DEF Initialize, InitializeFails, Load, LoadFails, memory, Writing
  <2>2. op' = op
    BY <2>1 DEF op
  <2>3. Recovered' = Recovered
    BY <1>1, <2>1 DEF Shutdown, Writing
  <2> QED  BY <2>1, <2>2, <2>3 DEF KV!vars
<1>11. ASSUME UNCHANGED vars PROVE UNCHANGED KV!vars
  <2>1. UNCHANGED <<pc, req, reply, kept, manifestFile, files, torn, wal>>
    BY <1>11 DEF vars, memory, disk
  <2>2. op' = op
    BY <2>1 DEF op
  <2>3. Recovered' = Recovered
    BY <2>1 DEF Recovered
  <2> QED  BY <2>1, <2>2, <2>3 DEF KV!vars
<1>12. ASSUME Shutdown PROVE KV!Next
  <2>1. /\ pc = "ready" /\ pc' = "down" /\ reply' = NoReply /\ kept' = NoRequest
    BY <1>12 DEF Shutdown, Ends
  <2>2. op = KV!Idle /\ op' = KV!Idle
    BY <2>1 DEF op, Writing, KV!Idle
  <2>3. \/ Recovered' = Recovered
        \/ /\ kept # KV!NoWrite
           /\ Recovered' = [Recovered EXCEPT ![kept.key] = kept.entry]
    <3>1. ASSUME stream = "bad" PROVE kept # KV!NoWrite
      <4>1. kept.key \in Keys /\ kept.key # 0
        BY <3>1, KeysAssumption DEF StorageInv, TypeOK
      <4>2. KV!NoWrite.key = 0
        BY DEF KV!NoWrite
      <4> QED  BY <4>1, <4>2
    <3> QED  BY <2>1, <3>1, StoreStep
  <2>4. KV!End
    BY <2>1, <2>2, <2>3 DEF KV!End, NoReply, KV!NoReply, NoRequest, KV!NoWrite
  <2> QED  BY <2>4 DEF KV!Next
<1> QED
  BY <1>2, <1>3, <1>4, <1>5, <1>6, <1>8, <1>9, <1>10, <1>11, <1>12 DEF Next, Step

-----------------------------------------------------------------------------
(***************************************************************************)
(* The theorems.                                                           *)
(***************************************************************************)

\* The initial states.
LEMMA InitRefines == Init => KV!Init
<1> SUFFICES ASSUME Init PROVE KV!Init
  OBVIOUS
<1>1. StorageInv
  BY InitStorageInv
<1>2. /\ pc = "down" /\ reply = NoReply /\ kept = NoRequest
      /\ wal = << >> /\ files = << >>
  BY DEF Init
<1>3. op = KV!Idle
  BY <1>2 DEF op, Writing, KV!Idle
<1>4. \A k \in Keys : Recovered[k] = Tombstone
  <2> SUFFICES ASSUME NEW k \in Keys PROVE Recovered[k] = Tombstone
    OBVIOUS
  <2>1. RecoverWal(wal)[k] = Absent
    BY <1>2, EmptyWal
  <2>2. Newest(files, Base(manifestFile, files), k) = Absent
    BY <1>2 DEF Newest, HoldersIn
  <2> QED  BY <1>1, <2>1, <2>2, RecoveredIs DEF TableView, Visible
<1>5. Recovered = [k \in Keys |-> Tombstone]
  <2>1. Recovered = [k \in Keys |-> Recovered[k]]
    BY DEF Recovered, OnDisk, View
  <2> QED  BY <1>4, <2>1
<1> QED  BY <1>2, <1>3, <1>5 DEF KV!Init, NoReply, KV!NoReply, NoRequest, KV!NoWrite

\* Database::execute behaves like the durable store of KVStore, whatever
\* fails, as long as no record is appended behind a torn one and the process
\* never ends with next_table_id_ more than one ahead of the MANIFEST: a write
\* takes effect at one instant and at most once, a read sees every write that
\* took effect or reports an error, and no crash undoes a write, also when it
\* tears the record of another one.  A write that was refused because its record
\* could not be appended may take effect when the process ends in good order,
\* and no other write has taken effect since.
THEOREM RefinementTheorem ==
    Spec /\ [][SafeEnd]_vars /\ [](~Garbled(wal)) => RefinesKVStore
<1>1. StorageInv /\ StorageInv' /\ DataInv /\ NotGarbled /\ NotGarbled'
        /\ [Next]_vars /\ [SafeEnd]_vars
        => [KV!Next]_(KV!vars)
  BY StepRefines, SafeEndStutters
<1>2. [](~Garbled(wal)) => []NotGarbled
  <2>1. ~Garbled(wal) => NotGarbled
    BY DEF NotGarbled
  <2> QED  BY <2>1, PTL
<1> QED
  BY <1>1, <1>2, InitRefines, StorageInvariant, DataInvariant, PTL
     DEF Spec, RefinesKVStore

\* It does so always, if no failed or interrupted write leaves part of a
\* record in the log and add_table does not fail or nothing fails twice.
THEOREM CleanRefinementTheorem ==
    ASSUME Gaps = {}, FewFailures
    PROVE  Spec => RefinesKVStore
<1>1. Spec => []CleanLog
  <2>1. Init => CleanLog
    BY DEF Init, CleanLog
  <2>2. StorageInv /\ CleanLog /\ [Next]_vars => CleanLog'
    BY CleanLogStep
  <2> QED  BY <2>1, <2>2, StorageInvariant, PTL DEF Spec
<1>2. CleanLog => ~Garbled(wal)
  BY CleanIsNotGarbled DEF NotGarbled
<1> QED  BY <1>1, <1>2, SafeEndTheorem, RefinementTheorem, PTL
=============================================================================

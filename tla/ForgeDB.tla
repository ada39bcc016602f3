------------------------------- MODULE ForgeDB -------------------------------
(***************************************************************************)
(* The storage engine: Database, Storage and Compaction over the MemTable, *)
(* the write-ahead log, the MANIFEST and the SSTable files.                *)
(*                                                                         *)
(* Database::execute holds mutex_ for the whole call, so calls do not      *)
(* overlap and pc says how far the current one has got.  A step ends where *)
(* the state of the disk changes, because that is where a crash can leave  *)
(* it.  Every step that the code checks for failure also has a failing     *)
(* variant, which happens only for the kinds of failure in Faults.         *)
(*                                                                         *)
(* The disk keeps what the operating system was given: WAL records are     *)
(* flushed to it one by one (DurabilityMode::SYNC), and the loss of its    *)
(* cache when the machine itself fails is not modelled.                    *)
(***************************************************************************)
EXTENDS Wal, Manifest

-----------------------------------------------------------------------------
(***************************************************************************)
(* What Storage makes of the files.  fs maps the ids of the table files    *)
(* that parse to their contents, tn holds the ids of those that do not.    *)
(***************************************************************************)

\* The contents of a manifest's tables, oldest first.  A table that cannot
\* be read makes SSTable::load fail, which the callers of Contents test.
Contents(m, fs) ==
    [i \in DOMAIN m.tables |->
        LET id == m.tables[i].id
        IN IF id \in DOMAIN fs THEN fs[id] ELSE EmptyMap]

AllReadable(m, fs) == TableIds(m) \subseteq DOMAIN fs

\* Mutant: missing files go unnoticed.
NeverMissing(m, fs, tn) == FALSE

\* The MANIFEST lists a table that has no file.
MissingTable(m, fs, tn) ==
    \E id \in TableIds(m) : id \notin DOMAIN fs \cup tn

\* The manifest Storage::initialize ends up with.
RecoveredManifest(m, fs, tn) ==
    IF MissingTable(m, fs, tn) THEN Rebuild(fs) ELSE m

\* The data Storage::load reads with a manifest.
LoadedData(m, fs, w) == Overlay(Merge(Contents(m, fs)), RecoverWal(w))

-----------------------------------------------------------------------------
CONSTANTS
    ReadError,         \* the result of a lookup that failed
    FlushThreshold,    \* MEMTABLE_FLUSH_THRESHOLD
    CompactThreshold,  \* COMPACTION_TABLE_THRESHOLD
    Gaps,              \* the gaps a torn WAL record may leave
    Faults,            \* the kinds of failure that may happen
    MaxWrites, MaxCrashes, MaxFaults  \* bounds for model checking

FaultKinds == {"directories", "open", "append", "table", "add_table",
               "remove_tables", "reset", "unlink", "rebuild"}

ASSUME StorageAssumption ==
    /\ ReadError \notin Entry \cup {Absent}
    /\ FlushThreshold \in Nat
    /\ CompactThreshold \in Nat
    /\ Gaps \subseteq Nat \ {0}
    /\ Faults \subseteq FaultKinds
    /\ MaxWrites \in Nat
    /\ MaxCrashes \in Nat
    /\ MaxFaults \in Nat

VARIABLES
    pc,            \* where the process is
    req,           \* the PUT or DELETE being executed
    reply,         \* what the last call returned
    mem,           \* Database::memtable_
    manifest,      \* Manifest::next_table_id_ and tables_
    stream,        \* Wal::file_: "open", "closed", or "bad" after a failed write
    kept,          \* the refused write whose record a bad stream still buffers
    wal,           \* disk: the records of active.log
    manifestFile,  \* disk: MANIFEST
    files,         \* disk: the readable table files, id -> contents
    torn,          \* disk: the ids of the table files that do not parse
    writes, crashes, faults  \* how many there were

memory == <<mem, manifest, stream, kept>>
disk   == <<wal, manifestFile, files, torn>>
bounds == <<writes, crashes, faults>>
vars   == <<pc, req, reply, memory, disk, bounds>>

NoRequest == [key |-> 0, entry |-> Absent]

NoReply == [status |-> "none", key |-> 0, value |-> Absent]

\* The pc values between the call of a write and its reply.
Writing == {"append", "check", "flush_write", "flush_publish", "flush_reset",
            "compact_write", "compact_publish", "compact_retire",
            "compact_unlink"}

Init ==
    /\ pc = "down"
    /\ req = NoRequest
    /\ reply = NoReply
    /\ mem = EmptyMap
    /\ manifest = NewManifest
    /\ stream = "closed"
    /\ kept = NoRequest
    /\ wal = << >>
    /\ manifestFile = NewManifest
    /\ files = << >>
    /\ torn = {}
    /\ writes = 0
    /\ crashes = 0
    /\ faults = 0

\* One failure of kind f.
Fault(f) ==
    /\ f \in Faults
    /\ faults < MaxFaults
    /\ faults' = faults + 1

\* The current call returns s.
Return(s) ==
    /\ pc' = "ready"
    /\ req' = NoRequest
    /\ reply' = [status |-> s, key |-> req.key, value |-> Absent]

-----------------------------------------------------------------------------
(***************************************************************************)
(* Table files.                                                            *)
(***************************************************************************)

\* SSTable::write replaces the file of that id.
WriteFile(id, m) ==
    /\ files' = [i \in DOMAIN files \cup {id} |-> IF i = id THEN m ELSE files[i]]
    /\ torn' = torn \ {id}

\* SSTable::write truncated the file and did not finish it.
TearFile(id) ==
    /\ files' = [i \in DOMAIN files \ {id} |-> files[i]]
    /\ torn' = torn \cup {id}

\* std::filesystem::remove, whose errors are ignored.
RemoveFiles(ids) ==
    \/ /\ files' = [i \in DOMAIN files \ ids |-> files[i]]
       /\ torn' = torn \ ids
    \/ /\ "unlink" \in Faults
       /\ UNCHANGED <<files, torn>>

-----------------------------------------------------------------------------
(***************************************************************************)
(* Database::initialize: Storage::initialize, then Storage::load.          *)
(***************************************************************************)

Initialize ==
    /\ pc \in {"down", "failed"}
    /\ Loadable(manifestFile)
    /\ manifest' = RecoveredManifest(manifestFile, files, torn)
    /\ manifestFile' = manifest'
    /\ \/ stream' = "open"
       \/ "open" \in Faults /\ stream' = "closed"
    /\ pc' = "load"
    /\ UNCHANGED <<req, reply, mem, kept, wal, files, torn, bounds>>

\* The directories cannot be created, the MANIFEST does not parse, or the
\* rebuilt MANIFEST cannot be written.
InitializeFails ==
    /\ pc \in {"down", "failed"}
    /\ \/ Fault("directories")
       \/ ~Loadable(manifestFile) /\ UNCHANGED faults
       \/ /\ Loadable(manifestFile)
          /\ MissingTable(manifestFile, files, torn)
          /\ Fault("rebuild")
    /\ pc' = "failed"
    /\ UNCHANGED <<req, reply, memory, disk, writes, crashes>>

Load ==
    /\ pc = "load"
    /\ AllReadable(manifest, files)
    /\ ~Corrupted(wal)
    /\ mem' = LoadedData(manifest, files, wal)
    /\ pc' = "ready"
    /\ UNCHANGED <<req, reply, manifest, stream, kept, disk, bounds>>

LoadFails ==
    /\ pc = "load"
    /\ ~AllReadable(manifest, files) \/ Corrupted(wal)
    /\ manifest' = NewManifest
    /\ stream' = "closed"
    /\ pc' = "failed"
    /\ UNCHANGED <<req, reply, mem, kept, disk, bounds>>

-----------------------------------------------------------------------------
(***************************************************************************)
(* Database::execute_get.                                                  *)
(***************************************************************************)

\* The tables SSTable::get returns from: those whose key range contains k
\* and that hold an entry for it or cannot be read.
StopsAt(k) ==
    {i \in DOMAIN manifest.tables :
        /\ k \in manifest.tables[i].range
        /\ \/ manifest.tables[i].id \notin DOMAIN files
           \/ files[manifest.tables[i].id][k] # Absent}

\* Storage::get_from_sstables: newest table first; a tombstone also stops
\* the search.
GetFromTables(k) ==
    IF StopsAt(k) = {} THEN Absent
    ELSE LET id == manifest.tables[Max(StopsAt(k))].id
         IN IF id \in DOMAIN files THEN files[id][k] ELSE ReadError

\* Mutant: the tables are searched before the MemTable.
GetTablesFirst(k) ==
    IF GetFromTables(k) # Absent THEN GetFromTables(k) ELSE mem[k]

\* What execute_get finds for k.
Lookup(k) == IF mem[k] # Absent THEN mem[k] ELSE GetFromTables(k)

\* Mutant: a tombstone is returned like a value.
AnswerTombstone(k) ==
    LET e == Lookup(k)
    IN CASE e = ReadError -> [status |-> "ERROR", key |-> k, value |-> Absent]
         [] e = Absent -> [status |-> "NOT_FOUND", key |-> k, value |-> Absent]
         [] OTHER -> [status |-> "value", key |-> k, value |-> e]

\* The reply of execute_get.
Answer(k) ==
    LET e == Lookup(k)
    IN CASE e = ReadError -> [status |-> "ERROR", key |-> k, value |-> Absent]
         [] e \in {Absent, Tombstone} ->
                [status |-> "NOT_FOUND", key |-> k, value |-> Absent]
         [] OTHER -> [status |-> "value", key |-> k, value |-> e]

Get(k) ==
    /\ pc = "ready"
    /\ reply' = Answer(k)
    /\ UNCHANGED <<pc, req, memory, disk, bounds>>

-----------------------------------------------------------------------------
(***************************************************************************)
(* Database::execute_put (e is a value) and execute_delete (a tombstone).  *)
(***************************************************************************)

Write(k, e) ==
    /\ pc = "ready"
    /\ writes < MaxWrites
    /\ writes' = writes + 1
    /\ req' = [key |-> k, entry |-> e]
    /\ reply' = NoReply
    /\ pc' = "append"
    /\ UNCHANGED <<memory, disk, crashes, faults>>

\* Mutant: the stream is not asked whether it failed before, and writes what
\* it had kept with the record.
AppendAfterFailure ==
    /\ pc = "append"
    /\ wal' = wal \o (IF stream = "bad" THEN <<Record(kept.key, kept.entry)>> ELSE << >>)
               \o <<Record(req.key, req.entry)>>
    /\ stream' = "open"
    /\ mem' = [mem EXCEPT ![req.key] = req.entry]
    /\ pc' = "check"
    /\ UNCHANGED <<req, reply, manifest, kept, manifestFile, files, torn, bounds>>

\* Wal::append_record opens the file if need be, and the MemTable takes the
\* entry.
AppendRecord ==
    /\ pc = "append"
    /\ stream # "bad"
    /\ wal' = Append(wal, Record(req.key, req.entry))
    /\ stream' = "open"
    /\ mem' = [mem EXCEPT ![req.key] = req.entry]
    /\ pc' = "check"
    /\ UNCHANGED <<req, reply, manifest, kept, manifestFile, files, torn, bounds>>

\* Mutant: a write to a stream that failed before is tried again and again.
AppendRetries ==
    /\ pc = "append"
    /\ \/ stream = "bad" /\ UNCHANGED <<stream, kept, wal, faults, pc, req, reply>>
       \/ /\ stream # "bad"
          /\ Fault("append")
          /\ stream' = "bad"
          /\ kept' = req
          /\ UNCHANGED wal
          /\ Return("ERROR")
    /\ UNCHANGED <<mem, manifest, manifestFile, files, torn, writes, crashes>>

\* A stream that failed once fails every write after it; the file cannot be
\* opened; or the write fails, may leave some bytes of the record in the file,
\* and leaves the record in the buffer of the stream.
AppendFails ==
    /\ pc = "append"
    /\ \/ stream = "bad" /\ UNCHANGED <<stream, kept, wal, faults>>
       \/ stream = "closed" /\ Fault("open") /\ UNCHANGED <<stream, kept, wal>>
       \/ /\ stream # "bad"
          /\ Fault("append")
          /\ stream' = "bad"
          /\ kept' = req
          /\ \/ UNCHANGED wal
             \/ \E g \in Gaps :
                    wal' = Append(wal, TornRecord(req.key, req.entry, g))
    /\ Return("ERROR")
    /\ UNCHANGED <<mem, manifest, manifestFile, files, torn, writes, crashes>>

FlushDue == MapSize(mem) >= FlushThreshold

NoFlush ==
    /\ pc = "check"
    /\ ~FlushDue
    /\ Return("OK")
    /\ UNCHANGED <<memory, disk, bounds>>

StartFlush ==
    /\ pc = "check"
    /\ FlushDue
    /\ pc' = "flush_write"
    /\ UNCHANGED <<req, reply, memory, disk, bounds>>

-----------------------------------------------------------------------------
(***************************************************************************)
(* Storage::flush_memtable, then Database::maybe_compact.                  *)
(***************************************************************************)

\* Mutant: the WAL is reset before the table is published.
FlushWriteResetsWal ==
    /\ pc = "flush_write"
    /\ WriteFile(manifest.next, mem)
    /\ wal' = << >>
    /\ pc' = "flush_publish"
    /\ UNCHANGED <<req, reply, memory, manifestFile, bounds>>

FlushWrite ==
    /\ pc = "flush_write"
    /\ WriteFile(manifest.next, mem)
    /\ pc' = "flush_publish"
    /\ UNCHANGED <<req, reply, memory, wal, manifestFile, bounds>>

\* Manifest::add_table of the file just written.
PublishTable ==
    LET id == manifest.next
    IN /\ manifest' = AddTable(manifest, Metadata(id, files[id]))
       /\ manifestFile' = manifest'

FlushPublish ==
    /\ pc = "flush_publish"
    /\ PublishTable
    /\ pc' = "flush_reset"
    /\ UNCHANGED <<req, reply, mem, stream, kept, wal, files, torn, bounds>>

\* Storage::reset_wal, MemTable::clear, Compaction::should_compact and the
\* test for two tables at the beginning of Storage::compact.
FlushReset ==
    /\ pc = "flush_reset"
    /\ wal' = << >>
    /\ stream' = "open"
    /\ mem' = EmptyMap
    /\ \/ /\ Len(manifest.tables) >= CompactThreshold
          /\ Len(manifest.tables) >= 2
          /\ pc' = "compact_write"
          /\ UNCHANGED <<req, reply>>
       \/ /\ Len(manifest.tables) < CompactThreshold \/ Len(manifest.tables) < 2
          /\ Return("OK")
    /\ UNCHANGED <<manifest, kept, manifestFile, files, torn, bounds>>

\* Wal::truncate fails before or after it emptied the file; both leave the
\* stream closed and the MemTable as it was.
FlushResetFails ==
    /\ pc = "flush_reset"
    /\ Fault("reset")
    /\ wal' \in {wal, << >>}
    /\ stream' = "closed"
    /\ Return("ERROR")
    /\ UNCHANGED <<mem, manifest, kept, manifestFile, files, torn, writes, crashes>>

-----------------------------------------------------------------------------
(***************************************************************************)
(* Storage::compact.                                                       *)
(***************************************************************************)

\* The contents of the replacement table.
Compacted == DropTombstones(Merge(Contents(manifest, files)))

CompactWrite ==
    /\ pc = "compact_write"
    /\ AllReadable(manifest, files)
    /\ WriteFile(manifest.next, Compacted)
    /\ pc' = "compact_publish"
    /\ UNCHANGED <<req, reply, memory, wal, manifestFile, bounds>>

CompactUnreadable ==
    /\ pc = "compact_write"
    /\ ~AllReadable(manifest, files)
    /\ Return("ERROR")
    /\ UNCHANGED <<memory, disk, bounds>>

CompactPublish ==
    /\ pc = "compact_publish"
    /\ PublishTable
    /\ pc' = "compact_retire"
    /\ UNCHANGED <<req, reply, mem, stream, kept, wal, files, torn, bounds>>

\* Mutant: the old ids are collected after the new table was added.
OldIdsAfterAdd == TableIds(manifest)

\* old_ids: the tables that were listed before the new one was added.
OldIds ==
    {manifest.tables[i].id : i \in 1 .. Len(manifest.tables) - 1}

CompactRetire ==
    /\ pc = "compact_retire"
    /\ manifest' = RemoveTables(manifest, OldIds)
    /\ manifestFile' = manifest'
    /\ pc' = "compact_unlink"
    /\ UNCHANGED <<req, reply, mem, stream, kept, wal, files, torn, bounds>>

CompactRetireFails ==
    /\ pc = "compact_retire"
    /\ Fault("remove_tables")
    /\ Return("ERROR")
    /\ UNCHANGED <<memory, disk, writes, crashes>>

(***************************************************************************)
(* The last loop of compact iterates over tables, a reference to the       *)
(* vector inside the Manifest, which by now lists only the new table.      *)
(***************************************************************************)
CompactUnlink ==
    /\ pc = "compact_unlink"
    /\ RemoveFiles(TableIds(manifest))
    /\ Return("OK")
    /\ UNCHANGED <<memory, wal, manifestFile, bounds>>

-----------------------------------------------------------------------------
(***************************************************************************)
(* Failures that flush_memtable and compact handle in the same way.        *)
(***************************************************************************)

\* SSTable::write fails to create the file, or to write all of it.
WriteFails ==
    /\ \/ pc = "flush_write"
       \/ pc = "compact_write" /\ AllReadable(manifest, files)
    /\ Fault("table")
    /\ \/ UNCHANGED <<files, torn>>
       \/ TearFile(manifest.next)
    /\ Return("ERROR")
    /\ UNCHANGED <<memory, wal, manifestFile, writes, crashes>>

\* Manifest::add_table fails, is rolled back, and the new file is removed.
PublishFails ==
    /\ pc \in {"flush_publish", "compact_publish"}
    /\ Fault("add_table")
    /\ LET id == manifest.next
       IN /\ manifest' = UndoAddTable(manifest, Metadata(id, files[id]))
          /\ RemoveFiles({id})
    /\ Return("ERROR")
    /\ UNCHANGED <<mem, stream, kept, wal, manifestFile, writes, crashes>>

-----------------------------------------------------------------------------
(***************************************************************************)
(* The end of the process, which takes everything in memory with it.       *)
(***************************************************************************)

Ends ==
    /\ pc' = "down"
    /\ req' = NoRequest
    /\ reply' = NoReply
    /\ mem' = EmptyMap
    /\ manifest' = NewManifest
    /\ stream' = "closed"
    /\ kept' = NoRequest

\* The process dies.  A record or a table file that was being written may be
\* left unfinished.
Crash ==
    /\ pc \notin {"down", "failed"}
    /\ crashes < MaxCrashes
    /\ crashes' = crashes + 1
    /\ Ends
    /\ \/ UNCHANGED <<wal, files, torn>>
       \/ /\ pc = "append"
          /\ stream # "bad"
          /\ \E g \in Gaps :
                wal' = Append(wal, TornRecord(req.key, req.entry, g))
          /\ UNCHANGED <<files, torn>>
       \/ /\ \/ pc = "flush_write"
             \/ pc = "compact_write" /\ AllReadable(manifest, files)
          /\ TearFile(manifest.next)
          /\ UNCHANGED wal
    /\ UNCHANGED <<manifestFile, writes, faults>>

\* Database, Storage and Wal are destroyed between two calls.  ~Wal closes the
\* stream, and a bad one then writes what it kept, all of it, a part or
\* nothing: a write that was refused may take effect now.
Shutdown ==
    /\ pc = "ready"
    /\ Ends
    /\ \/ UNCHANGED wal
       \/ /\ stream = "bad"
          /\ \E g \in Gaps \cup {0} :
                wal' = Append(wal, TornRecord(kept.key, kept.entry, g))
    /\ UNCHANGED <<manifestFile, files, torn, bounds>>

\* What the process does by itself once a call or a start is under way.
Step ==
    \/ Load \/ LoadFails
    \/ AppendRecord \/ AppendFails
    \/ NoFlush \/ StartFlush
    \/ FlushWrite \/ FlushPublish \/ FlushReset \/ FlushResetFails
    \/ CompactWrite \/ CompactUnreadable \/ CompactPublish
    \/ CompactRetire \/ CompactRetireFails \/ CompactUnlink
    \/ WriteFails \/ PublishFails

Next ==
    \/ Initialize \/ InitializeFails
    \/ \E k \in Keys : Get(k)
    \/ \E k \in Keys, e \in Entry : Write(k, e)
    \/ Step
    \/ Crash
    \/ Shutdown

Spec == Init /\ [][Next]_vars /\ WF_vars(Step)

-----------------------------------------------------------------------------
TypeOK ==
    /\ pc \in {"down", "failed", "load", "ready"} \cup Writing
    /\ IF pc \in Writing THEN req \in [key : Keys, entry : Entry]
                         ELSE req = NoRequest
    /\ reply \in [status : {"none", "OK", "ERROR", "NOT_FOUND", "value"},
                  key : Keys \cup {0},
                  value : Values \cup {Absent}]
    /\ mem \in Map
    /\ manifest \in Manifests
    /\ manifestFile \in Manifests
    /\ stream \in {"open", "closed", "bad"}
    /\ IF stream = "bad" THEN kept \in [key : Keys, entry : Entry]
                         ELSE kept = NoRequest
    /\ wal \in Seq(Records)
    /\ DOMAIN files \in SUBSET Nat
    /\ IsFiniteSet(DOMAIN files)
    /\ \A id \in DOMAIN files : files[id] \in Map
    /\ torn \in SUBSET Nat
    /\ writes \in Nat
    /\ crashes \in Nat
    /\ faults \in Nat

\* The data in the files, as Storage::load puts it together: what the next
\* start reads, unless it is refused.
OnDisk(mf, fs, tn, w) == View(LoadedData(RecoveredManifest(mf, fs, tn), fs, w))

Recovered == OnDisk(manifestFile, files, torn, wal)

(***************************************************************************)
(* execute_get answers with what is in the files or an error, never with   *)
(* an outdated or a vanished value: after every prefix of a flush or a     *)
(* compaction, after any of their failures, and after a restart from any   *)
(* of the states a crash leaves.  (When records stand behind a torn one    *)
(* the disk itself is behind; see WritesAreDurable.)                       *)
(***************************************************************************)
ReadsAreCurrent ==
    pc \in {"ready"} \cup Writing /\ ~Garbled(wal) =>
        \A k \in Keys :
            \/ Lookup(k) = ReadError
            \/ View([j \in Keys |-> Lookup(j)])[k] = Recovered[k]

(***************************************************************************)
(* The data in the files changes only when a record is appended, and then  *)
(* by exactly that record: by append_record, or when the process ends in   *)
(* good order and ~Wal writes the record of a refused write.  A crash,     *)
(* creating, publishing, retiring and deleting tables, resetting the WAL,  *)
(* rebuilding the MANIFEST and every failure on the way leave it alone.    *)
(***************************************************************************)
RecoveredDataIsStable ==
    [][~Garbled(wal) /\ ~Garbled(wal') =>
        OnDisk(manifestFile', files', torn', wal') \in
            IF pc = "append" /\ pc' = "check"
            THEN {[Recovered EXCEPT ![req.key] = req.entry]}
            ELSE IF stream = "bad" /\ pc' = "down" /\ crashes' = crashes
            THEN {Recovered, [Recovered EXCEPT ![kept.key] = kept.entry]}
            ELSE {Recovered}]_vars

\* A start is refused: Storage::initialize cannot load the MANIFEST, or
\* Storage::load meets a table it cannot read or a corrupted log.
Refused(mf, fs, tn, w) ==
    \/ ~Loadable(mf)
    \/ ~AllReadable(RecoveredManifest(mf, fs, tn), fs)
    \/ Corrupted(w)

(***************************************************************************)
(* From every state a crash may leave, the next start gets at that data.   *)
(* Two steps alone can take this away: publishing a compacted table that   *)
(* has no entries (see ManifestIsLoadable), and writing behind a torn      *)
(* record (see WritesAreDurable).                                          *)
(***************************************************************************)
StartsStayPossible ==
    [][Refused(manifestFile', files', torn', wal') =>
        \/ Refused(manifestFile, files, torn, wal)
        \/ pc = "compact_publish" /\ files[manifest.next] = EmptyMap
        \/ TornAt(wal) # {} /\ Len(wal') > Len(wal)]_vars

(***************************************************************************)
(* Table ids grow along the MANIFEST and stay below next_table_id_, in     *)
(* memory and on disk, also when add_table was rolled back: the order of   *)
(* the tables is their age, and a new table takes nobody's file.           *)
(***************************************************************************)
Ordered(m) ==
    /\ \A i, j \in DOMAIN m.tables : i < j => m.tables[i].id < m.tables[j].id
    /\ \A i \in DOMAIN m.tables : m.tables[i].id < m.next

ManifestIsOrdered == Ordered(manifest) /\ Ordered(manifestFile)

(***************************************************************************)
(* SSTables are immutable: as long as a file is listed in the MANIFEST on  *)
(* disk it is neither rewritten nor truncated.                             *)
(***************************************************************************)
TablesAreImmutable ==
    [][\A id \in TableIds(manifestFile) \cap TableIds(manifestFile)' :
        /\ id \notin torn => id \notin torn'
        /\ id \in DOMAIN files \cap DOMAIN files' => files'[id] = files[id]]_vars

(***************************************************************************)
(* Storage::load never fails because of a table: the manifest it is given  *)
(* lists only files that are there and parse.                              *)
(***************************************************************************)
TablesAreLoadable == pc = "load" => AllReadable(manifest, files)

(***************************************************************************)
(* Why the three properties above hold: while the process runs it lists    *)
(* the same tables as the MANIFEST on disk, the file to be published is    *)
(* there, and what a failed or interrupted write left behind is never      *)
(* listed.  A stream that failed never gets past append_record.            *)
(***************************************************************************)
Running == pc \in {"load", "ready"} \cup Writing

StorageInv ==
    /\ TypeOK
    /\ ManifestIsOrdered
    /\ TablesAreLoadable
    /\ DOMAIN files \cap torn = {}
    /\ TableIds(manifestFile) \cap torn = {}
    /\ Running => manifest.tables = manifestFile.tables
    /\ pc \in {"flush_publish", "compact_publish"} => manifest.next \in DOMAIN files
    /\ stream = "bad" => pc \in {"ready", "append"}

-----------------------------------------------------------------------------
(***************************************************************************)
(* What Database::execute promises.  The state of KVStore is the data in   *)
(* the files, the call that is under way, and the refused write that the   *)
(* stream has kept.                                                        *)
(***************************************************************************)
op ==
    IF pc \in Writing
    THEN [key |-> req.key, entry |-> req.entry, applied |-> pc # "append"]
    ELSE [key |-> 0, entry |-> Absent, applied |-> FALSE]

KV == INSTANCE KVStore WITH store <- Recovered, op <- op, late <- kept, reply <- reply

\* Database::execute takes no step that the durable store of KVStore would not:
\* a write takes effect at once, when its record is appended, a read sees every
\* write that took effect, and neither a flush, a compaction nor a crash undoes
\* one.  A refused write takes effect at most when the process ends in good
\* order, and no other write has taken effect in between.
RefinesKVStore == KV!Init /\ [][KV!Next]_(KV!vars)

\* Database::execute returns: no path through append, flush and compaction,
\* failures included, keeps the call (and mutex_) for ever.
CallsAreAnswered == KV!Fairness

-----------------------------------------------------------------------------
(***************************************************************************)
(* Statements of the repository that the code does not live up to.         *)
(***************************************************************************)

\* tests/crash/crash_after_write.cpp: "The WAL should preserve the write."
\* Once append_record succeeded, a restart reads the entry back.
WritesAreDurable ==
    [][pc = "append" /\ pc' = "check" =>
        OnDisk(manifestFile', files', torn', wal')[req.key] = req.entry]_vars

\* README.md: "compaction merges older tables while preserving the latest
\* value for each key."  A running database can read every key.
ReadsSucceed ==
    pc = "ready" => \A k \in Keys : Lookup(k) # ReadError

\* storage.cpp, before the tables are loaded: "Newer entries overwrite older
\* entries."  No step of a compaction changes which entry of a key is the
\* newest one in the files.
Compacting ==
    pc \in {"compact_write", "compact_publish", "compact_retire",
            "compact_unlink"}

CompactionKeepsNewest ==
    [][Compacting => OnDisk(manifestFile', files', torn', wal') = Recovered]_vars

\* tests/crash/crash_during_compaction.cpp: "committed data remains
\* readable" after a restart.  The MANIFEST on disk can be loaded.
ManifestIsLoadable == Loadable(manifestFile)
=============================================================================

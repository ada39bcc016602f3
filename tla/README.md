# ForgeDB in TLA+

A model of the ForgeDB key-value database (C++, an LSM-style engine behind a
TCP server), checked with TLC on small instances and, for every safety property,
proved with TLAPS for every value of the constants (section 4 says under which
assumptions).
`PROJECT.json` lists components, runs, the map from definitions to source lines,
findings, hazards and theorems.

## 1. Inventory

| part | state | operations | correct when |
|---|---|---|---|
| `Database` | `memtable_`, `storage_`, `compaction_`, `mutex_` | `initialize`, `execute` (PUT, GET, DELETE) | a call is a step of a durable map |
| `MemTable` | `data_`, `size_in_bytes_` | `put`, `erase`, `get`, `clear`, `replace` | the count is the size of the data |
| `Wal` | the stream `file_` with its buffer; on disk `active.log` | `append_record`, `sync`, `truncate`, `open_append`, destructor | what was acknowledged is read back, in ASYNC mode up to a suffix |
| `recovery` | none | `recover_wal` | applies the complete records, in order |
| `Manifest` | `tables_`, `next_table_id_`; on disk `MANIFEST` | `load`, `add_table`, `remove_tables`, `rebuild_from_directory`, `persist` | order of ids is order of age; an id is given out once |
| `SSTable` | on disk `table_N.sst` | `write`, `load`, `get` | a listed file never changes |
| `Storage` | the three above | `initialize`, `load`, `flush_memtable`, `get_from_sstables`, `compact` | every prefix of an operation leaves a disk with the same contents |
| `Compaction` | none | `should_compact`, `run` | preserves the newest entry of every key |
| `Server` | `connections_`, the listening socket | `initialize`, `handle_accept`, `remove_connection`, `stop` | a descriptor has one owner |
| `Connection` | `state_`, `input_buffer_`, `output_buffer_`, `output_offset_` | `handle_readable`, `process_messages`, `queue_response`, `handle_writable`, `close` | every request is executed once and answered, in order |
| `EventLoop` | `read_callbacks_`, `write_callbacks_` | `add_read`, `add_write`, `remove`, `run` | a callback belongs to a live connection |
| `Protocol`, `parser` | none | `create_frame`, `try_extract_frame`, `parse_command` | message boundaries survive any cut of the stream |
| client | its socket | `run_cli`, `send_all`, `receive_response` | a reply belongs to its request |
| `Snapshot`, `DatabaseLock`, fault injection | unused | | |
| CRC32, serialization | none | byte-level functions | |

How they interact: a request travels Connection -> parser -> `Database::execute`,
which holds `mutex_` until the reply is ready. A write appends to the WAL, then
updates the MemTable; if that is full, `Storage` writes it to a table file,
publishes it in the MANIFEST, resets the WAL, and `Compaction` may merge all
tables into one. A start reads the MANIFEST, rebuilds it from the directory if a
listed file is missing, merges all tables and the WAL, and installs *all of that*
as the MemTable.

What is hard: nothing undoes a flush or a compaction that stops half-way, so
each of their five or six effects on the disk must leave something from which a
start recovers the same data; failures of single steps are rolled back partly;
and several mistakes only show after another crash or restart. In the server,
one thread runs callbacks for all connections, and a callback may close the
connection it was called for while events for its descriptor, which the next
accept may reuse, are still waiting in the same batch; streams are cut anywhere
and requests arrive while earlier replies are still being sent.

## 2. Modules

- `Entries` - the maps from keys to entries every layer handles, merging and
  overlaying them, tombstones. A map is a total function with `Absent` where the
  `unordered_map` has no entry. Keys are numbered in their string order.
- `MemTable` - the map together with the running byte count.
- `Wal` - the file as a sequence of records, complete or torn, and `recover_wal`.
- `Manifest` - table metadata and the operations on the pair of `next_table_id_`
  and `tables_`, including the rollback in `add_table` and the rebuild.
- `ForgeDB` - the engine: `Database`, `Storage` and `Compaction` over the disk.
- `KVStore` - the abstract specification: a durable map behind sequential calls.
- `WalFile` - the log as bytes, with the stream's buffer, in both durability
  modes. It extends `Wal` and shows what the records of `Wal` stand for.
- `Protocol` - frames, `parse_command`, and what `Database::execute` replies.
- `Server` - `Server`, `Connection` and `EventLoop` with sockets and clients.
- `MCForgeDB`, `MCMemTable`, `MCWalFile`, `MCServer` - instances for TLC.
- `OrderProofs` - facts about numbers and finite sets that all proofs use;
  `ForgeDBProofs`, `DataProofs` and `RefinementProofs`, each on top of the one
  before, for `ForgeDB`; `FrameProofs` for `Protocol` and `ServerProofs` for
  `Server`; `MemTableProofs`; `WalFileProofs`.

### State and actions of ForgeDB

`mem`, `manifest`, `stream` and `kept` are the process's memory; `wal`, `manifestFile`,
`files` and `torn` are the disk (`torn` holds the ids of table files that do not
parse). Because `execute` holds the mutex throughout, one call is in progress at
a time, and `pc` says how far it has got. A step ends where the disk changes:

    Write -> AppendRecord -> NoFlush
                          \> StartFlush -> FlushWrite -> FlushPublish -> FlushReset
                             [-> CompactWrite -> CompactPublish -> CompactRetire -> CompactUnlink]

Each has a failing variant (`AppendFails`, `WriteFails`, `PublishFails`,
`FlushResetFails`, `CompactUnreadable`, `CompactRetireFails`) that ends the call
with `ERROR` and leaves exactly what the code leaves. `Initialize` and `Load` are
the two halves of `Database::initialize`; `Crash` is possible between any two
steps and may leave a torn record or table file. `Shutdown` is the orderly end
between two calls, when `main` or a test destroys the `Database`. A write that
`AppendFails` refuses stays in the buffer of the failed stream (`kept`), and `~Wal`,
which closes the stream, may write it after all, whole or torn; a crash loses it.
The constant `Faults` selects which kinds of failure may happen.

Two faithful oddities decide much of the behaviour. `CompactUnlink` deletes the
*replacement* table (the loop in `storage.cpp:508` iterates over a reference to
the manifest's own vector, already reduced), so after a compaction the old files
are still there, reads of the replacement fail, and the next start rebuilds the
MANIFEST from the directory. And a torn WAL record is never cut off; `gap` in
`Wal` says how many later records recovery takes for its missing bytes.

### State and actions of WalFile

`file` is the disk, `stream` and `buffer` are `file_`, and `log` is the history of
appended records, each with whether it was acknowledged. A byte is the number of
its record and its place in it. `AppendRecord` flushes in SYNC mode; in ASYNC mode
any part of the buffer that leaves at most `BufferSize` bytes may be written.
`AppendFails`, `SyncFails` and `CrashInAppend` cut a write at any byte, `Truncate` and
`Destroy` close the stream, which writes what is buffered, and `TruncateFails` stops
before the file is emptied or when it cannot be opened again. `Recover`
gives the set of results `recover_wal` can have: a length made of bytes that are
not a length stands for any number, and a checksum matches exactly the payload it
was written for.

### State and actions of Server

The thread is in the event loop (`handler = Nobody`) or inside the loop of
`handle_accept` or `process_messages`; each turn of such a loop is a step, and
clients run between them:

    WaitEvents -> IgnoreEvent | EventError
                | HandleAccept -> AcceptClient | AcceptRefuses ... AcceptDone
                | HandleReadable -> ProcessMessage ... ProcessDone
                | HandleWritable (SendSome | SendAll) -> ProcessMessage ... ProcessDone
                | HandleEndOfStream | HandleWritableClosed | BrokenPipe | SocketError

`batch` holds the events of the last `kevent` call still to dispatch, `readCb` and
`writeCb` whose member function is registered for a descriptor, and `connections`
who owns it. `Close` undoes all three; as it destroys the object, `handler` still
naming it afterwards would be a use of a dead object (`HandlerIsLive`).
`pending` and `due` are histories of clients outside `Raw`: the requests one has sent that were not
executed yet, and the replies it has not taken yet. `Database::execute` is the
function `Reply` with the effect `Effect` on one map; what is behind it is the
subject of `ForgeDB` and `KVStore`.

### Abstractions

- `ForgeDB` has only `DurabilityMode::SYNC` (what `main.cpp` and the crash tests
  use); every append is handed to the operating system before it is acknowledged.
  `WalFile` has both modes.
- A crash is the death of the process. The code never calls `fsync`, so after a
  power failure nothing is promised; that is not modelled.
- In `ForgeDB`, bytes, checksums and lengths are abstracted to "finished or not". A
  record whose missing bytes are filled by later records is taken to fail its
  checksum. `RecordLevelIsFaithful` checks this view of the log against the bytes.
- A stream that failed writes nothing more until it is closed; then it may write
  its buffer again, in `WalFile` any part of it, in `ForgeDB` the kept record, whole
  or torn, or nothing.
- In `WalFile`, closing a stream without an earlier failure writes all of its
  buffer. A payload is abstracted to its size, one per kind of entry.
- Reads fail only for missing or unfinished files.
- `persist` writes a temporary file and renames it, so the MANIFEST changes in
  one step or not at all.
- Creating a file that already existed with the id of a torn or stray file
  replaces it (`ios::trunc`).
- EXIT and INVALID commands have fixed replies and no state, so `ForgeDB` leaves
  them out; `Protocol` has them.
- A message is a sequence of words and its length the number of them; blanks are
  not represented, so neither is the value that `getline` keeps with its blanks.
- Bytes on their way and bytes in the receiver's socket buffer are one sequence;
  how much of it a `recv` loop meets is chosen by `HandleReadable`.
- A header that does not start where a header was written (after an oversized
  message) stands for any number.
- A client connects once; one that comes back is another client. Clients in `Raw`
  frame what they like and are external; the others use `create_frame`.
- Sending to a client that has ended may succeed, fail, or raise SIGPIPE. `recv` and
  `send` may also fail for a client that is there (`SocketError`).
- A client with a larger window than the CLI's 1 keeps the bytes behind a reply.
- Removing an event from the kernel's queue (`EV_DELETE`) does not fail.

## 3. Runs

| run | what may go wrong | checked | bounds |
|---|---|---|---|
| `memtable` | - | `SizeIsExact` | 3 keys, 3 values, all of different sizes (one value empty); finite, unbounded in steps |
| `crashes` | 2 crashes, torn records and files, orderly ends | all safety properties | 2 keys, 2 values, 4 writes |
| `disk_faults` | 2 failures of tables, MANIFEST (other than `add_table`) or WAL, appends torn with gap 1, 1 crash, orderly ends | `ReadsAreCurrent`, `RecoveredDataIsStable`, `StartsStayPossible` | 2 keys, 1 value, 5 writes, flush needs two keys |
| `publish_faults` | 1 failed `add_table`, failing unlinks, 2 crashes, orderly ends | `ReadsAreCurrent`, `RecoveredDataIsStable` and the MANIFEST properties | 1 key, 2 values, 6 writes |
| `refinement` | 1 failure of any kind, 1 crash, orderly ends | `RefinesKVStore`, `CallsAreAnswered` | 2 keys, 1 value, 3 writes |
| `wal_file` | 2 crashes and 1 failed write, cut at any byte, in both modes | `OnlyASuffixIsLost`, `AcknowledgedIsDurable`, `RecordLevelIsFaithful` | 4 appends of payloads of 1, 2 and 3 bytes, the last above the limit; lengths of 2 bytes, so that one can be cut; a buffer smaller than two records |
| `server` | 1 failure of any kind, clients that end at any time, a client with oversized frames | order of requests and replies, `CallbacksAreLive`, `HandlerIsLive` | 2 clients, 1 descriptor, 2 requests each, 2 of them pipelined, a send buffer of 2 units |
| `server_replies` | clients that end at any time | the same order, `WritesAreArmed`, `RequestsAreAnswered` | 2 clients, 2 descriptors, 2 and 1 requests |

Every bound is a constant (`MaxWrites`, `MaxCrashes`, `MaxFaults`) tested in a
guard; orderly ends are not bounded. With `FlushThreshold = 2` and one-byte keys and values a single PUT
flushes, and `CompactThreshold = 2` compacts every second flush, so four writes
reach two flushes and a compaction, and six writes a second compaction over the
leftovers of the first. With threshold 3 a MemTable with several keys, and a
tombstone among them, is flushed. In `server` the single descriptor is the one
every later client gets, so that each batch may hold events of its last owner; a
frame of 3 to 5 units does not fit into the send buffer, so every reply takes
several sends, and a reply is appended behind one that is half sent. Messages
have up to 3 units, the limit, and the oversized one 4. In `server_replies` there
are as many descriptors as clients: with fewer, a client waits until another one
leaves, which nothing forces it to. Values are permuted by symmetry where only
safety is checked and more than one value exists.

The properties:

- `ReadsAreCurrent`: while the process runs, a lookup gives what a start would
  read from the disk now, or an error.
- `RecoveredDataIsStable`: the data in the files, as a start puts it together,
  changes only when a record is appended, and then by that record: by
  `append_record`, or at an orderly end by the destructor, if an append failed
  before. Flush, compaction, rebuild, failure, crash and restart leave it alone.
- `StartsStayPossible`: the next start gets at that data. It would be refused for a
  corrupted log (`storage.cpp:220`), a MANIFEST that does not load (`storage.cpp:58`)
  or an unreadable table (`storage.cpp:186`). Only two steps lead from files that are
  accepted to files that are not: publishing a compacted table without entries, and
  writing behind a torn record; both are findings. Two torn appends, with a restart
  in between, are an instance of the second: no data is missing from the log, but
  the next start refuses it.
- `ManifestIsOrdered`, `TablesAreImmutable`, `TablesAreLoadable`: see section 4.
- `RefinesKVStore`: every step is a step of `KVStore`, whose `store` is what a start
  would read, or leaves it alone. A write takes effect when its record is appended;
  `OK` means that it did; a reply to a read is current or `ERROR`. A write answered
  with `ERROR` may have taken effect, or take effect when the process ends in good
  order (`late`), and no other write does in between. `KVStore` promises nothing about
  when the database can be started again; that is `StartsStayPossible`.
- `CallsAreAnswered`: the fairness of `KVStore`, so every call returns.
- `OnlyASuffixIsLost`: what a start would read is in order, and misses at most the
  last acknowledged records.
- `AcknowledgedIsDurable`: it misses none once the buffer is empty: in SYNC mode
  always, in ASYNC mode after `sync` or an orderly end. Excluded are records above
  the limit of recovery, which it refuses although `append_record` takes them,
  bytes behind a torn record (the first finding), and failed writes in ASYNC mode.
- `RecordLevelIsFaithful`: for some gaps, `ValidPrefix` and `Corrupted` of `Wal` say
  of the file what recovery makes of its bytes.
- `RequestsArriveInOrder`, `RepliesComeInOrder`: what is buffered and on its way in
  either direction is exactly the frames of what was not executed, or not taken.
- `CallbacksAreLive`: callbacks, `connections_` and the connections' descriptors
  agree, whatever events are left in the batch.
- `HandlerIsLive`: `process_messages` does not go on in a destroyed connection. It
  would if a response could not be framed (`connection.cpp:184`); it always can,
  because a stored value is shorter than the message that brought it.
- `WritesAreArmed`: a connection is WRITING and registered for writing exactly
  while it has output left.
- `RequestsAreAnswered`: every request of a client that stays is answered, unless
  the server ends.

`ReadsAreCurrent` and `RecoveredDataIsStable` are restricted to WALs without a
complete record behind a torn one (`Garbled`), the run `refinement` to `Gaps = {}`;
what happens otherwise is the first of the findings below. With more than one
failed `add_table` before the process ends `RecoveredDataIsStable` does not hold;
that is the last finding.

`server`, `server_replies` and `wal_file` turn the deadlock check off: their
instances stop when the bounds are used up and all clients are gone, when the
server has ended, or when recovery refuses the log.

Fairness: in `ForgeDB`, `WF_vars(Step)`. `Step` holds what the process does by itself once a
call or a start is under way; the thread that holds the mutex keeps running. No
fairness is assumed of clients, of starting the process again, or of crashes and
failures, which are bounded and never required to happen. In `Server`, weak
fairness of `ServerStep` as a whole says that the one thread keeps running; which
of several events or outcomes it takes is left open. A client that waits in `recv`
takes what arrives (`ReceiveBytes`, `TakeReply`); no client has to connect, send or
end.

### Findings (runs expected to end in a violation)

- `torn_tail`: after a restart from a torn record, acknowledged writes are
  appended behind it and lost by the next start, which may even refuse the WAL
  as corrupted. tests/crash/crash_after_write.cpp:40: "The WAL should preserve
  the write."
- `failed_reads`: compaction deletes the table it has just published; reads fail
  until a restart. README.md:68: "compaction merges older tables while
  preserving the latest value for each key."
- `empty_table`: a compaction in which only tombstones remain writes a MANIFEST
  that cannot be loaded. tests/crash/crash_during_compaction.cpp:94: "committed
  data remains readable."
- `stale_table`: two rolled-back `add_table` calls, a crash and a compaction make
  an older entry the newest one for the next start. storage.cpp:175: "Newer
  entries overwrite older entries."

## 4. Proofs

Every theorem holds for all values of the constants that the named ASSUMEs of the
modules allow: any finite set of keys, any values, clients, sizes, thresholds and
limits, and any number of writes, crashes and failures, for the bounds of the runs
are constants too. What a theorem assumes beyond that is stated in it.

| theorem | states | assumes |
|---|---|---|
| `StorageInvariant`, `TypeCorrect` | `StorageInv`, `TypeOK` of `ForgeDB` | |
| `ManifestOrderTheorem` | `ManifestIsOrdered` | |
| `LoadTheorem` | `TablesAreLoadable` | |
| `ImmutabilityTheorem` | `TablesAreImmutable` | |
| `StartsTheorem` | `StartsStayPossible` | |
| `DataInvariant`, `ReadsTheorem` | `DataInv`, `ReadsAreCurrent` | every end is a `SafeEnd` |
| `StabilityTheorem` | `RecoveredDataIsStable` | every end is a `SafeEnd` |
| `SafeEndTheorem` | every end is a `SafeEnd` | `FewFailures` |
| `FewFailuresTheorem` | `ReadsAreCurrent`, `RecoveredDataIsStable` | `FewFailures` |
| `RefinementTheorem` | `RefinesKVStore` | every end is a `SafeEnd`, the log is never `Garbled` |
| `CleanRefinementTheorem` | `RefinesKVStore` | `FewFailures`, `Gaps = {}` |
| `SizeTheorem`, `MemTableTypeCorrect` | `SizeIsExact`, `TypeOK` of `MemTable` | |
| `WalInvariant`, `WalTypeCorrect` | `WalInv`, `TypeOK` of `WalFile` | |
| `SuffixTheorem` | `OnlyASuffixIsLost` | |
| `DurabilityTheorem` | `AcknowledgedIsDurable` | |
| `FaithfulTheorem` | `RecordLevelIsFaithful` | |
| `ServerInvariant`, `ServerTypeCorrect` | `ServerInv`, `TypeOK` of `Server` | |
| `CallbacksTheorem`, `HandlerTheorem` | `CallbacksAreLive`, `HandlerIsLive` | |
| `RequestsTheorem` | `RequestsArriveInOrder` | |
| `RepliesTheorem` | `RepliesComeInOrder` | |
| `ArmedTheorem` | `WritesAreArmed` | no failure of kind `register` or `event` |

A `SafeEnd` of the process, by `Crash` or `Shutdown`, finds `next_table_id_` at most one
ahead of the MANIFEST, that is, at most one `add_table` was rolled back since the
last that succeeded; a second one does no harm unless the process then ends. `FewFailures` says that `add_table` does
not fail, however often anything else does, or that at most one failure happens at
all: `crashes`, `disk_faults`, `publish_faults` and `refinement` are instances of
it. The findings `stale_table` (two rolled-back calls and a crash) and `torn_tail`
show that the conditions are needed. A registration
that fails, and an event that reports an error, end the write registration of a
connection that stays WRITING; `server_replies`, where `WritesAreArmed` is
checked, has neither.

### Inductive invariants

`StorageInv`. A table may be written under `manifest.next` only because that id is
above every listed one, in memory *and* on disk, which needs that the running
process and the MANIFEST on disk list the same tables (they may differ in
`next_table_id_` after a rollback, but each is above its own ids). A published file
is readable only because it is still there when `PublishTable` runs. And an
unfinished file is never listed, so a listed file that is not missing parses.
The proof splits the invariant into five parts (control state, the stream,
manifests, files, listed tables), each preserved by every action. A failed stream
gets no call past `append_record`, so nothing is flushed while it keeps a record.
`StartsTheorem` follows: what is published was written whole, a flushed MemTable has
an entry, and a tear alone leaves the torn record at the end of the log. `Ascending`, the sort behind
`RemoveTables` and `Rebuild`, is shown to enumerate its argument in order.

`DataInv`, on top of it, says what the files hold. The process and the MANIFEST on
disk list the same tables, and `next_table_id_` is the same or, after a rolled-back
`add_table`, ahead in the process (`MirrorOK`). A file that is not listed, whether a
crash, a failed `add_table` or `CompactRetire` left it, holds nothing that would win
over the MemTable or a listed table if a rebuild took it up again (`StraysOK`,
`HistoryOK`). This is where one id ahead differs from two. If the MANIFEST has
next id n, a crash one ahead leaves files up to n + 1; after the restart a flush
takes n, and the compaction that would drop the tables overriding such a file
writes its own result over n + 1. A file n + 2 survives it and is then the newest.
If a listed table is missing, it is the replacement that compaction deleted; then
every newer file is `Overridden` key by key, and outside of the lost table's key
range, where a lookup does not notice, the older files show nothing (`LostTableOK`).
What flush and compaction are about to publish agrees with what it replaces
(`FlushOK`, `CompactOK`). Key ranges let no key through unseen (`RangesOK`), and the
MemTable has all of the log and nothing a start would not find (`MemOK`), also
without the file a failed `add_table` is going to remove (`SpareOK`). From these, a
lookup and a restart agree, and every action but `AppendRecord` and `Shutdown` leaves
alone what a restart would read; `Shutdown` changes it by the kept record, if at all.
As long as nothing is appended behind a torn record,
`RefinementProofs` maps each action to an action of `KVStore` or to a stutter.

`MemTableInv` is `SizeIsExact` with the type of the map. What `put` and `erase` add
and subtract is the difference of two sums over all keys, so the work is in the
lemmas about the sum: it does not depend on the order of the keys, and changing
one entry changes it by that entry.

`WalInv` speaks of the file and the buffer behind it as one sequence of bytes
(`Stream`). Its pieces are first bytes of records in the order of their numbers,
and only a torn piece may be followed by the same record again (`Ordered`).
Acknowledged records are complete in it, in SYNC mode in the file alone; after a
crash in ASYNC mode at least no acknowledged record is missing in front of another
one (`AckedOK`). From `Ordered` alone follows what recovery may return: a checksum
that matches means that a whole record stands at that offset although its length
was not compared (`SuccessReads`), hence records are read in order and without a
gap (`RecoveryReadsInOrder`); and if nothing stands behind torn bytes, all complete
ones are read (`RecoveryReadsAll`). Both go over all outcomes of a misread length.
For `RecordLevelIsFaithful` the pieces of a file are numbered by where they end,
and recovery, wherever it stops, has read exactly the pieces in front, all of them
whole (`RecoveryTracks`); what it stops at is the end of the file, a torn piece or
a record above the limit. The gaps are then chosen by what recovery returned: one
later record completes a torn piece if it found corruption, more than there are if
it reached the end.

`ServerInv` ties each connection object to its descriptor, its callbacks and its
entry in `connections_`, which with `HandlerIsLive` covers events left over for a
reused descriptor; it says that what was cut out of the streams so far is
made of whole frames (`RequestsOK`, `RepliesOK`), that a client in the backlog has
had no bytes sent, and that every stored value came in a message (`DbOK`), without
which a response might not fit into a frame and `process_messages` would continue
in a closed connection. `FrameProofs` has the step that matters: cutting the first
frame off a stream of frames gives the first message and leaves the rest
(`ExtractFirst`). That the lines of clients are messages (`IsMessage` in
`ServerAssumption`) is what `getline` gives `run_cli`.

Inductions over data (ranks of a finite set, sums over keys, replaying a log,
frames of a sequence of messages, offsets of a file) are carried out as arguments
about a smallest counterexample, as the library's induction theorems cannot be
instantiated by the provers at hand. A recursive function is first shown to have
the value its equation gives.

### Only model-checked

- `RequestsAreAnswered` and `CallsAreAnswered`: liveness is out of the prover's
  reach.

## 5. Not modelled

- Files that exist but cannot be read for the moment. A start takes such a WAL or
  MANIFEST for a missing one (`recovery.cpp:147`, `manifest.cpp:30`), and a rebuild
  skips such a table (`manifest.cpp:212`); in the model only unfinished files fail
  to parse.
- The byte layout of tables and of payloads, `crc32` and `serialization`: pure
  functions, of which the models use that a checksum tells what was written from
  anything else.
- The composition of the two executables' halves: `Server` runs over a map, which
  `KVStore` is and `ForgeDB` implements.
- `Snapshot`, `DatabaseLock` and fault injection, which no other source file uses.
- Power failures, see above.

## 6. Plan

1. *(done)* `Entries`, `Wal`, `Manifest`, `ForgeDB`, its runs, `KVStore` and the
   refinement, the theorems of section 4.
2. *(done)* `WalFile`: the log as bytes in both modes, tied to `Wal`.
3. *(done)* `Protocol` and `Server`: frames, batches of events, closing inside a
   callback, reuse of descriptors, pipelined requests, partial sends, liveness.
4. *(done)* Proofs of every safety property: the data of `ForgeDB` and the safety
   part of the refinement, `MemTable`, `WalFile`, `Server`.
5. Read failures in `ForgeDB`: an unreadable MANIFEST, WAL or table, and what the
   rebuild makes of it.

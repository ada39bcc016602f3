------------------------------- MODULE WalFile -------------------------------
(***************************************************************************)
(* The write-ahead log byte by byte: what Wal writes through its stream in *)
(* either durability mode, and what recover_wal makes of the bytes.        *)
(*                                                                         *)
(* A record is its length, its payload and the checksum of the payload.    *)
(* In SYNC mode append_record flushes the stream, in ASYNC mode the bytes  *)
(* stay in its buffer until that is full, or until truncate or the         *)
(* destructor closes the file.  The end of the process loses the buffer    *)
(* and may come in the middle of a write; a write may fail in the middle,  *)
(* and then the stream keeps what it could not write and may write it when *)
(* it is closed, after append_record has reported the failure.             *)
(*                                                                         *)
(* A byte of the file is the record it was written for and its place in    *)
(* it.  Module Wal abstracts the bytes to complete and torn records; the   *)
(* property RecordLevelIsFaithful ties the two together.                   *)
(***************************************************************************)
EXTENDS Wal

CONSTANTS
    Modes,          \* the values of DurabilityMode to check
    LengthSize,     \* bytes of the length
    ChecksumSize,   \* bytes of the checksum
    PayloadSize,    \* bytes of the payload, for every entry
    MaxRecordSize,  \* MAX_RECORD_SIZE of recovery.cpp
    BufferSize,     \* what the stream's buffer holds
    MaxAppends, MaxCrashes, MaxFaults  \* bounds for model checking

ASSUME WalFileAssumption ==
    /\ Modes \subseteq {"SYNC", "ASYNC"}
    /\ LengthSize \in Nat \ {0}
    /\ ChecksumSize \in Nat \ {0}
    /\ PayloadSize \in [Entry -> Nat \ {0}]
    /\ MaxRecordSize \in Nat
    /\ BufferSize \in Nat
    /\ MaxAppends \in Nat /\ MaxCrashes \in Nat /\ MaxFaults \in Nat

VARIABLES
    mode,     \* Wal::durability_mode_
    stream,   \* Wal::file_: "closed", "open", or "bad" after a failed write
    buffer,   \* the bytes the stream has not written
    file,     \* disk: the bytes of active.log
    process,  \* "running", "ended" in good order, or "crashed"
    log,      \* history: the records appended since the last reset
    appends, crashes, faults  \* how many there were

vars == <<mode, stream, buffer, file, process, log, appends, crashes, faults>>

Init ==
    /\ mode \in Modes
    /\ stream = "open"
    /\ buffer = << >>
    /\ file = << >>
    /\ process = "running"
    /\ log = << >>
    /\ appends = 0
    /\ crashes = 0
    /\ faults = 0

-----------------------------------------------------------------------------
(***************************************************************************)
(* The format.  l is the log, no the number of a record in it.             *)
(***************************************************************************)

SizeOf(l, no) == LengthSize + PayloadSize[l[no].entry] + ChecksumSize

\* serialize_wal_record and the three writes of append_record.
RecordBytes(l, no) == [i \in 1..SizeOf(l, no) |-> [no |-> no, place |-> i]]

\* The length read_record finds at offset o.  Bytes that are not the length
\* of a record stand for any number.
Lengths(l, f, o) ==
    LET no == f[o + 1].no
    IN IF SubSeq(f, o + 1, o + LengthSize) = SubSeq(RecordBytes(l, no), 1, LengthSize)
       THEN {PayloadSize[l[no].entry]}
       ELSE 0..(MaxRecordSize + 1)

\* The records whose payload and checksum are the n + ChecksumSize bytes at
\* offset o: the checksum matches if and only if there is one.
MatchesAt(l, f, o, n) ==
    {no \in DOMAIN l :
        SubSeq(f, o + 1, o + n + ChecksumSize)
            = SubSeq(RecordBytes(l, no), LengthSize + 1, SizeOf(l, no))}

\* A status of read_record, the record that was read and where it ends.
Outcome(status, no, end) == [status |-> status, no |-> no, end |-> end]

Failed(status) == Outcome(status, 0, 0)

\* Mutant: the length is believed, whatever the checksum says.
ReadPayloadUnchecked(l, f, o, n) ==
    IF n = 0 \/ n > MaxRecordSize THEN Failed("CORRUPTED")
    ELSE IF Len(f) - o < LengthSize + n + ChecksumSize THEN Failed("INCOMPLETE")
    ELSE Outcome("SUCCESS", f[o + 1].no, o + LengthSize + n + ChecksumSize)

\* read_record once the length n is read.
ReadPayload(l, f, o, n) ==
    IF n = 0 \/ n > MaxRecordSize THEN Failed("CORRUPTED")
    ELSE IF Len(f) - o < LengthSize + n + ChecksumSize THEN Failed("INCOMPLETE")
    ELSE LET matches == MatchesAt(l, f, o + LengthSize, n)
         IN IF matches = {} THEN Failed("CORRUPTED")
            ELSE Outcome("SUCCESS", CHOOSE no \in matches : TRUE,
                         o + LengthSize + n + ChecksumSize)

\* Mutant: half a length at the end of the file is an error.
ReadRecordStrict(l, f, o) ==
    IF Len(f) = o THEN {Failed("EOF_REACHED")}
    ELSE IF Len(f) - o < LengthSize THEN {Failed("CORRUPTED")}
    ELSE {ReadPayload(l, f, o, n) : n \in Lengths(l, f, o)}

\* read_record at offset o: the outcomes it can have.  A length that is cut
\* off also ends the file.
ReadRecord(l, f, o) ==
    IF Len(f) - o < LengthSize THEN {Failed("EOF_REACHED")}
    ELSE {ReadPayload(l, f, o, n) : n \in Lengths(l, f, o)}

\* recover_wal: the numbers of the records it applies, and its status.
Recover(l, f) ==
    LET from[o \in 0..Len(f)] ==
            UNION {IF r.status = "SUCCESS"
                   THEN {[records |-> <<r.no>> \o x.records, status |-> x.status] :
                            x \in from[r.end]}
                   ELSE {[records |-> << >>, status |-> r.status]} :
                   r \in ReadRecord(l, f, o)}
    IN from[0]

-----------------------------------------------------------------------------
(***************************************************************************)
(* Wal.                                                                    *)
(***************************************************************************)

LogRecord(k, e, acked) == [key |-> k, entry |-> e, acked |-> acked]

\* The bytes in the stream once the record is written to it.
Buffered(l) == buffer \o RecordBytes(l, Len(l))

\* The stream hands its first n bytes to the operating system.
WriteOut(bytes, n) == file' = file \o SubSeq(bytes, 1, n)

CanAppend ==
    /\ process = "running"
    /\ stream # "bad"
    /\ appends < MaxAppends

\* Mutant: in SYNC mode too the bytes may stay in the buffer.
AppendUnflushed(k, e) ==
    /\ CanAppend
    /\ log' = Append(log, LogRecord(k, e, TRUE))
    /\ \E n \in 0..Len(Buffered(log')) :
        /\ Len(Buffered(log')) - n <= BufferSize
        /\ WriteOut(Buffered(log'), n)
        /\ buffer' = SubSeq(Buffered(log'), n + 1, Len(Buffered(log')))
    /\ stream' = "open"
    /\ appends' = appends + 1
    /\ UNCHANGED <<mode, process, crashes, faults>>

\* append_record: opens the file if need be; SYNC flushes all of the buffer,
\* ASYNC only what it cannot hold.
AppendRecord(k, e) ==
    /\ CanAppend
    /\ log' = Append(log, LogRecord(k, e, TRUE))
    /\ \E n \in 0..Len(Buffered(log')) :
        /\ IF mode = "SYNC" THEN n = Len(Buffered(log'))
                            ELSE Len(Buffered(log')) - n <= BufferSize
        /\ WriteOut(Buffered(log'), n)
        /\ buffer' = SubSeq(Buffered(log'), n + 1, Len(Buffered(log')))
    /\ stream' = "open"
    /\ appends' = appends + 1
    /\ UNCHANGED <<mode, process, crashes, faults>>

\* A write fails: the stream is bad and keeps its buffer, and the record is
\* reported as not written.  Every later append fails at once.
AppendFails(k, e) ==
    /\ CanAppend
    /\ faults < MaxFaults
    /\ log' = Append(log, LogRecord(k, e, FALSE))
    /\ \E n \in 0..(Len(Buffered(log')) - 1) : WriteOut(Buffered(log'), n)
    /\ buffer' = Buffered(log')
    /\ stream' = "bad"
    /\ appends' = appends + 1
    /\ faults' = faults + 1
    /\ UNCHANGED <<mode, process, crashes>>

\* The process dies while it appends.
CrashInAppend(k, e) ==
    /\ CanAppend
    /\ crashes < MaxCrashes
    /\ log' = Append(log, LogRecord(k, e, FALSE))
    /\ \E n \in 0..Len(Buffered(log')) : WriteOut(Buffered(log'), n)
    /\ buffer' = << >>
    /\ stream' = "closed"
    /\ process' = "crashed"
    /\ appends' = appends + 1
    /\ crashes' = crashes + 1
    /\ UNCHANGED <<mode, faults>>

\* Wal::sync, as Storage::sync calls it.
Sync ==
    /\ process = "running"
    /\ stream = "open"
    /\ WriteOut(buffer, Len(buffer))
    /\ buffer' = << >>
    /\ UNCHANGED <<mode, stream, process, log, appends, crashes, faults>>

\* Wal::sync fails half-way.
SyncFails ==
    /\ process = "running"
    /\ stream = "open"
    /\ buffer # << >>
    /\ faults < MaxFaults
    /\ \E n \in 0..(Len(buffer) - 1) : WriteOut(buffer, n)
    /\ stream' = "bad"
    /\ faults' = faults + 1
    /\ UNCHANGED <<mode, buffer, process, log, appends, crashes>>

\* file_.close(): the buffer is written.  A bad stream may write any part of
\* what it kept, also what an earlier write had already got out.
CloseStream ==
    /\ \E n \in 0..Len(buffer) :
        /\ stream # "bad" => n = Len(buffer)
        /\ WriteOut(buffer, n)
    /\ buffer' = << >>
    /\ stream' = "closed"

\* Mutant: the file is not emptied.
TruncateWithoutResize ==
    /\ process = "running"
    /\ CloseStream
    /\ log' = << >>
    /\ UNCHANGED <<mode, process, appends, crashes, faults>>

\* Wal::truncate(0): the file is closed, emptied and opened again.
Truncate ==
    /\ process = "running"
    /\ file' = << >>
    /\ buffer' = << >>
    /\ log' = << >>
    /\ stream' = "open"
    /\ UNCHANGED <<mode, process, appends, crashes, faults>>

\* resize_file fails, or the file is emptied and cannot be opened again:
\* either way it stays closed until the next append.
TruncateFails ==
    /\ process = "running"
    /\ faults < MaxFaults
    /\ \/ CloseStream /\ UNCHANGED log
       \/ /\ file' = << >>
          /\ buffer' = << >>
          /\ log' = << >>
          /\ stream' = "closed"
    /\ faults' = faults + 1
    /\ UNCHANGED <<mode, process, appends, crashes>>

\* Wal::~Wal, at the orderly end of the process.
Destroy ==
    /\ process = "running"
    /\ CloseStream
    /\ process' = "ended"
    /\ UNCHANGED <<mode, log, appends, crashes, faults>>

\* The process dies between two calls.
Crash ==
    /\ process = "running"
    /\ crashes < MaxCrashes
    /\ buffer' = << >>
    /\ stream' = "closed"
    /\ process' = "crashed"
    /\ crashes' = crashes + 1
    /\ UNCHANGED <<mode, file, log, appends, faults>>

\* A start: Wal opens the file for appending, whatever it ends with, and
\* recover_wal reads it.  From now on only what it read counts as written.
\* A corrupted file is refused.
Start ==
    /\ process # "running"
    /\ \E r \in Recover(log, file) :
        /\ r.status # "CORRUPTED"
        /\ log' = [no \in DOMAIN log |->
                    [log[no] EXCEPT !.acked = @ /\ \E i \in DOMAIN r.records :
                                                        r.records[i] = no]]
    /\ stream' = "open"
    /\ process' = "running"
    /\ UNCHANGED <<mode, buffer, file, appends, crashes, faults>>

Next ==
    \/ \E k \in Keys, e \in Entry :
        AppendRecord(k, e) \/ AppendFails(k, e) \/ CrashInAppend(k, e)
    \/ Sync \/ SyncFails
    \/ Truncate \/ TruncateFails
    \/ Destroy \/ Crash \/ Start

Spec == Init /\ [][Next]_vars

-----------------------------------------------------------------------------
(***************************************************************************)
(* Properties.                                                             *)
(***************************************************************************)

\* The place of a byte is inside its record, and what the buffer holds fits
\* into it as long as no write failed (wal.cpp:247-316).
TypeOK ==
    /\ mode \in Modes
    /\ stream \in {"closed", "open", "bad"}
    /\ process \in {"running", "ended", "crashed"}
    /\ \A no \in DOMAIN log : log[no].key \in Keys /\ log[no].entry \in Entry
    /\ \A i \in DOMAIN file :
        file[i].no \in DOMAIN log /\ file[i].place \in 1..SizeOf(log, file[i].no)
    /\ stream # "bad" => Len(buffer) <= BufferSize
    /\ appends \in 0..MaxAppends /\ crashes \in 0..MaxCrashes
    /\ faults \in 0..MaxFaults

Acked == {no \in DOMAIN log : log[no].acked}

\* Where a piece of the file ends: a record, or the first bytes of one.
PieceEnds(f) ==
    {i \in DOMAIN f :
        i < Len(f) => f[i + 1] # [f[i] EXCEPT !.place = @ + 1]}

IsTorn(l, b) == b.place # SizeOf(l, b.no)

\* Something was written behind torn bytes.
GarbledBytes == \E i \in PieceEnds(file) : i # Len(file) /\ IsTorn(log, file[i])

\* append_record takes a record that recovery will refuse.
TooLarge == \E no \in DOMAIN log : PayloadSize[log[no].entry] > MaxRecordSize

\* What an orderly start or a crash at this moment would read misses only the
\* last acknowledged records, and no record is read twice or out of order:
\* in ASYNC mode the lost ones are a suffix, although the buffer reaches the
\* file in arbitrary pieces (wal.cpp:180-184, 311-315; recovery.cpp:154-224).
\* Not so after a failed write in ASYNC mode, when the stream may write its
\* whole buffer again.
OnlyASuffixIsLost ==
    (mode = "SYNC" \/ faults = 0) =>
    \A r \in Recover(log, file) :
        /\ \A i, j \in DOMAIN r.records : i < j => r.records[i] < r.records[j]
        /\ \A i \in DOMAIN r.records, no \in Acked :
            no < r.records[i] => \E j \in DOMAIN r.records : r.records[j] = no

\* Nothing that was acknowledged is lost, and the file is never refused, as
\* soon as the stream's buffer is empty: always in SYNC mode, and in ASYNC mode
\* after sync or the orderly end of the process, if no write failed
\* (wal.cpp:180-184, 311-331).  Torn bytes at the end do no harm, also when they are
\* half a length; torn bytes that were written behind do, and so does a record
\* above the limit of recovery.cpp:65.
AcknowledgedIsDurable ==
    /\ mode = "SYNC" \/ (process # "crashed" /\ faults = 0)
    /\ stream # "bad" /\ buffer = << >> /\ ~GarbledBytes /\ ~TooLarge
    =>
        \A r \in Recover(log, file) :
            /\ r.status # "CORRUPTED"
            /\ Acked \subseteq {r.records[i] : i \in DOMAIN r.records}

\* The file as module Wal sees it, with gap g[i] for piece i if it is torn.
AsRecords(g) ==
    LET ends == Ascending(PieceEnds(file))
        record(b, gap) == TornRecord(log[b.no].key, log[b.no].entry, gap)
    IN [i \in DOMAIN ends |->
            record(file[ends[i]], IF IsTorn(log, file[ends[i]]) THEN g[i] ELSE 0)]

\* Whatever recover_wal makes of the bytes, module Wal says of the records for
\* some gaps: it applies the complete records in front of the first torn one,
\* never one behind it, and reports corruption only if something was written
\* behind torn bytes (recovery.cpp:38-126, 154-224).
RecordLevelIsFaithful ==
    (mode = "SYNC" \/ faults = 0) /\ ~TooLarge =>
        \A r \in Recover(log, file) :
            LET pieces == Cardinality(PieceEnds(file))
            IN \E g \in [1..pieces -> {1, pieces + 1}] :
                /\ ValidPrefix(AsRecords(g))
                    = [i \in DOMAIN r.records |->
                        Record(log[r.records[i]].key, log[r.records[i]].entry)]
                /\ Corrupted(AsRecords(g)) <=> r.status = "CORRUPTED"
=============================================================================

------------------------ MODULE PartitionWalWriter -------------------------
(***************************************************************************)
(* The demux's writer of one partition when system calls fail: the 256 KB  *)
(* buffer, short and failing writes, segment files that cannot be opened,  *)
(* the stall and its end, SIGTERM, and crash recovery.  PartWal composes   *)
(* the worker with the rest of the system and takes write and flush as one *)
(* step that succeeds; here every system call is a step of its own.        *)
(*                                                                         *)
(* A header is its partition_lsn.  The node's WAL holds the headers of the *)
(* partition only, and all of it is flushed.  A write is cut at the end of *)
(* a record: the size of a record divides the block size.  No file is      *)
(* removed, and there are no checkpoints.                                  *)
(***************************************************************************)
EXTENDS Integers, Sequences, FiniteSets, FiniteSetsExt, SequencesExt

CONSTANTS
    MaxLsn,         \* bound: LSNs handed out
    PerSegment,     \* headers whose orig_node_lsn lies in one WAL segment
    BufferSize,     \* PARWAL_WRITER_BUFFER_SIZE, in records (8192)
    MaxOvertake,    \* LSNs allocated and not yet inserted by other backends
    MaxFailures,    \* bound: system calls that fail
    MaxCrashes      \* bound: crashes of the server

ASSUME SizeAssumption ==
    /\ MaxLsn \in Nat \ {0} /\ PerSegment \in Nat \ {0} /\ BufferSize \in Nat \ {0}
    /\ MaxOvertake \in Nat /\ MaxFailures \in Nat /\ MaxCrashes \in Nat

Lsn == 1..MaxLsn

\* The file of a header.  Segments follow the LSNs; PartWal has the headers
\* that change segments against the order of their LSNs.
FileSeg(l) == (l - 1) \div PerSegment + 1

Segment == 1..FileSeg(MaxLsn)

VARIABLES
    wal,        \* the headers in the node's WAL
    pc,         \* control point of the worker; "redo": the server recovers
    pos,        \* number of headers the worker has read (reader->EndRecPtr)
    hdr,        \* the header it is working on, 0 = none
    then,       \* where a flush returns to
    sent,       \* records of the buffer the current flush has written
    writer,     \* the PartitionWALWriter
    files,      \* pg_parwal/<partition>/<segment>
    replayed,   \* headers replayed by crash recovery
    floor,      \* highest LSN in the WAL when the server last started
    failures,   \* history: system calls that failed
    crashes,    \* history: crashes
    accepted,   \* history: headers the present worker has put into its buffer
    dropped,    \* history: headers that reset detection took out of the buffer
    cut         \* history: some write stopped after part of the buffer

vars == <<wal, pc, pos, hdr, then, sent, writer, files, replayed, floor, failures, crashes,
          accepted, dropped, cut>>

serverVars  == <<replayed, floor, crashes>>

\* read: top of the loop; create: CreatePartitionWALWriter; check: reset
\* detection, stall and duplicate filter; open: OpenWriterSegment; buffer:
\* WritePartitionWAL after the choice of the file; flush: inside
\* FlushPartitionWALWriter; destroy: after SIGTERM; exited: proc_exit(0);
\* down: not running, to be started by the postmaster.
WorkerPc == {"down", "read", "create", "check", "open", "buffer", "flush", "destroy",
             "exited", "redo"}

Writer == [fd : {"absent", "closed", "open"}, seg : {0} \cup Segment, last : {0} \cup Lsn,
           buf : Seq(Lsn), stalled : BOOLEAN]
NoWriter == [fd |-> "absent", seg |-> 0, last |-> 0, buf |-> <<>>, stalled |-> FALSE]

\* The worker has started; PartWal has the headers inserted before that.
Init ==
    /\ wal = <<>>
    /\ pc = "read"
    /\ pos = 0 /\ hdr = 0 /\ then = "read" /\ sent = 0
    /\ writer = NoWriter
    /\ files = [s \in Segment |-> <<>>]
    /\ replayed = 0 /\ floor = 0
    /\ failures = 0 /\ crashes = 0
    /\ accepted = {} /\ dropped = {} /\ cut = FALSE
-----------------------------------------------------------------------------
(* Reading the files *)

NonEmpty == {s \in Segment : files[s] # <<>>}

\* Last record of the highest file that has one.
GetLastWrittenPartitionLSN ==
    IF NonEmpty = {} THEN 0 ELSE Last(files[Max(NonEmpty)])

Stored == UNION {Range(files[s]) : s \in Segment}
-----------------------------------------------------------------------------
(* Backends *)

\* WritePartitionWALRecord: some LSNs may have been allocated by backends that
\* insert their headers later.  A crash ends those backends.
InsertHeader(l) ==
    /\ pc # "redo"
    /\ l > floor /\ l \notin Range(wal)
    /\ Cardinality((floor + 1..l - 1) \ Range(wal)) <= MaxOvertake
    /\ wal' = Append(wal, l)
    /\ UNCHANGED <<pc, pos, hdr, then, sent, writer, files, serverVars, failures, accepted,
                   dropped, cut>>
-----------------------------------------------------------------------------
(* The demux worker *)

\* Bound: a system call fails.
Fail == failures < MaxFailures /\ failures' = failures + 1

\* The postmaster starts the worker, which begins at the flush position.
DemuxStart ==
    /\ pc = "down"
    /\ pc' = "read" /\ pos' = Len(wal)
    /\ UNCHANGED <<wal, hdr, then, sent, writer, files, serverVars, failures, accepted,
                   dropped, cut>>

\* Mutant: a stalled writer is left alone.
MustFlushUnlessStalled(w) == w.buf # <<>> /\ w.fd = "open" /\ ~w.stalled

\* FlushPartitionWALWriter returns at once when the buffer is empty or no file
\* is open; else the flush begins.
MustFlush(w) == w.buf # <<>> /\ w.fd = "open"

\* Nothing left to read: FlushAllWriters.
DemuxCaughtUp ==
    /\ pc = "read" /\ pos = Len(wal)
    /\ MustFlush(writer)
    /\ pc' = "flush" /\ then' = "read"
    /\ UNCHANGED <<wal, pos, hdr, sent, writer, files, serverVars, failures, accepted,
                   dropped, cut>>

DemuxRead ==
    /\ pc = "read" /\ pos < Len(wal)
    /\ pos' = pos + 1 /\ hdr' = wal[pos + 1]
    /\ pc' = IF writer.fd = "absent" THEN "create" ELSE "check"
    /\ UNCHANGED <<wal, then, sent, writer, files, serverVars, failures, accepted,
                   dropped, cut>>

CreatePartitionWALWriter ==
    /\ pc = "create"
    /\ pc' = "check"
    /\ writer' = [NoWriter EXCEPT !.fd = "closed", !.last = GetLastWrittenPartitionLSN]
    /\ UNCHANGED <<wal, pos, hdr, then, sent, files, serverVars, failures, accepted,
                   dropped, cut>>

\* No directory or no memory: the record is skipped.
CreateFails ==
    /\ pc = "create" /\ Fail
    /\ pc' = "read"
    /\ UNCHANGED <<wal, pos, hdr, then, sent, writer, files, serverVars, accepted,
                   dropped, cut>>

\* LSN 1 arrives, the watermark is higher and there is nothing on disk: the
\* code concludes that the files were deleted.
ResetDetected == hdr = 1 /\ writer.last > 0 /\ GetLastWrittenPartitionLSN = 0

AfterResetDetection ==
    IF ResetDetected THEN [NoWriter EXCEPT !.fd = "closed"] ELSE writer

\* The stall ends when the disk does not hold the header yet.
AfterUnstall ==
    LET w == AfterResetDetection
    IN  [w EXCEPT !.stalled = w.stalled /\ GetLastWrittenPartitionLSN >= hdr]

DropOnReset == dropped' = IF ResetDetected THEN dropped \cup Range(writer.buf) ELSE dropped

\* The writer is stalled, or the LSN is not above the watermark.
DemuxSkip ==
    LET w == AfterUnstall
    IN  /\ pc = "check"
        /\ w.stalled \/ hdr <= w.last
        /\ pc' = "read" /\ writer' = w
        /\ DropOnReset
        /\ UNCHANGED <<wal, pos, hdr, then, sent, files, serverVars, failures, accepted, cut>>

\* Mutant: the file is changed only if none is open.
SegmentChangesIfClosed(w) == w.fd = "closed" /\ w.seg # 0 /\ w.seg # FileSeg(hdr)

SegmentChanges(w) == w.seg # 0 /\ w.seg # FileSeg(hdr)

\* WritePartitionWAL up to its first system call: flush and switch the file
\* when the segment changes, open one when none is open.
DemuxWrite ==
    LET w == AfterUnstall
    IN  /\ pc = "check"
        /\ ~w.stalled /\ hdr > w.last
        /\ writer' = w
        /\ IF SegmentChanges(w) /\ MustFlush(w)
           THEN pc' = "flush" /\ then' = "open"
           ELSE /\ pc' = IF SegmentChanges(w) \/ w.fd = "closed" THEN "open" ELSE "buffer"
                /\ UNCHANGED then
        /\ DropOnReset
        /\ UNCHANGED <<wal, pos, hdr, sent, files, serverVars, failures, accepted, cut>>

OpenWriterSegment ==
    /\ pc = "open"
    /\ pc' = "buffer"
    /\ writer' = [writer EXCEPT !.fd = "open", !.seg = FileSeg(hdr), !.stalled = FALSE]
    /\ UNCHANGED <<wal, pos, hdr, then, sent, files, serverVars, failures, accepted,
                   dropped, cut>>

\* The old file is closed before the new one fails to open.
OpenFails ==
    /\ pc = "open" /\ Fail
    /\ pc' = "read"
    /\ writer' = [writer EXCEPT !.fd = "closed", !.stalled = TRUE]
    /\ UNCHANGED <<wal, pos, hdr, then, sent, files, serverVars, accepted, dropped, cut>>

FlushFullBuffer ==
    /\ pc = "buffer" /\ Len(writer.buf) >= BufferSize
    /\ pc' = "flush" /\ then' = "buffer"
    /\ UNCHANGED <<wal, pos, hdr, sent, writer, files, serverVars, failures, accepted,
                   dropped, cut>>

\* Mutant: the header stays in the buffer until the buffer is full.
BufferHeaderOnly ==
    /\ pc = "buffer" /\ Len(writer.buf) < BufferSize
    /\ pc' = "read" /\ then' = "read"
    /\ writer' = [writer EXCEPT !.buf = Append(@, hdr), !.last = hdr]
    /\ accepted' = accepted \cup {hdr}
    /\ UNCHANGED <<wal, pos, hdr, sent, files, serverVars, failures, dropped, cut>>

\* The rest of WritePartitionWAL; the demux flushes after every header.
BufferHeader ==
    /\ pc = "buffer" /\ Len(writer.buf) < BufferSize
    /\ pc' = "flush" /\ then' = "read"
    /\ writer' = [writer EXCEPT !.buf = Append(@, hdr), !.last = hdr]
    /\ accepted' = accepted \cup {hdr}
    /\ UNCHANGED <<wal, pos, hdr, sent, files, serverVars, failures, dropped, cut>>
-----------------------------------------------------------------------------
(* FlushPartitionWALWriter: write(2) until the buffer is written. *)

\* Mutant: buf_used is not reset.
FlushEndKeeps(w) == w

\* The writer once the whole buffer has been written.
FlushEnd(w) == IF then = "exited" THEN NoWriter ELSE [w EXCEPT !.buf = <<>>]

\* Mutant: the count is not reset at the end of the buffer.
SentOn(n) == sent + n

SentAfter(n) == IF sent + n = Len(writer.buf) THEN 0 ELSE sent + n

\* One call of write(2), which takes n records.
FlushWrite(n) ==
    LET last == sent + n = Len(writer.buf)
    IN  /\ pc = "flush" /\ sent + n <= Len(writer.buf)
        /\ files' = [files EXCEPT ![writer.seg] = @ \o SubSeq(writer.buf, sent + 1, sent + n)]
        /\ sent' = SentAfter(n)
        /\ IF last THEN pc' = then /\ writer' = FlushEnd(writer)
                   ELSE UNCHANGED <<pc, writer>>
        /\ UNCHANGED <<wal, pos, hdr, then, serverVars, failures, accepted, dropped, cut>>

\* Mutant: the buffer is emptied before it is written.
BufferAfterErrorEmpty == <<>>

\* The buffer and buf_used are left as they were, what has been written included.
BufferAfterError == writer.buf

\* write(2) fails.  The loop and FlushAllWriters catch the error and mark the
\* writer stalled; nobody catches it in DestroyAllWriters: the worker exits
\* with an error and is started again.
FlushFails ==
    /\ pc = "flush" /\ Fail
    /\ sent' = 0
    /\ cut' = (cut \/ sent > 0)
    /\ IF then = "exited"
       THEN pc' = "down" /\ writer' = NoWriter /\ accepted' = {} /\ dropped' = {}
       ELSE /\ pc' = IF then = "destroy" THEN "destroy" ELSE "read"
            /\ writer' = [writer EXCEPT !.stalled = TRUE, !.buf = BufferAfterError]
            /\ UNCHANGED <<accepted, dropped>>
    /\ UNCHANGED <<wal, pos, hdr, then, files, serverVars>>

\* SIGTERM: FlushAllWriters, then DestroyAllWriters.
DemuxStop ==
    /\ pc = "read"
    /\ IF MustFlush(writer) THEN pc' = "flush" /\ then' = "destroy"
                            ELSE pc' = "destroy" /\ UNCHANGED then
    /\ UNCHANGED <<wal, pos, hdr, sent, writer, files, serverVars, failures, accepted,
                   dropped, cut>>

DestroyPartitionWALWriter ==
    /\ pc = "destroy"
    /\ IF MustFlush(writer)
       THEN pc' = "flush" /\ then' = "exited" /\ UNCHANGED writer
       ELSE pc' = "exited" /\ writer' = NoWriter /\ UNCHANGED then
    /\ UNCHANGED <<wal, pos, hdr, sent, files, serverVars, failures, accepted, dropped, cut>>
-----------------------------------------------------------------------------
(* Crash and recovery *)

Crash ==
    /\ crashes < MaxCrashes /\ crashes' = crashes + 1
    /\ pc' = "redo" /\ replayed' = 0
    /\ floor' = Max({0} \cup Range(wal))
    /\ pos' = 0 /\ hdr' = 0 /\ then' = "read" /\ sent' = 0
    /\ writer' = NoWriter /\ accepted' = {} /\ dropped' = {}
    /\ cut' = (cut \/ sent > 0)
    /\ UNCHANGED <<wal, files, failures>>

\* Mutant: a header that is missing below the highest is filled in.
RedoPresent(l) == l \in Stored

\* partdist_wal_redo skips what is not above the last record on disk.
RedoAlreadyWritten(l) == l <= GetLastWrittenPartitionLSN

\* partdist_wal_redo and WriteHeaderToFile.
PartdistRedo ==
    LET l == wal[replayed + 1]
    IN  /\ pc = "redo" /\ replayed < Len(wal)
        /\ replayed' = replayed + 1
        /\ files' = IF RedoAlreadyWritten(l) THEN files
                    ELSE [files EXCEPT ![FileSeg(l)] = Append(@, l)]
        /\ UNCHANGED <<wal, pc, pos, hdr, then, sent, writer, floor, failures, crashes,
                       accepted, dropped, cut>>

\* The file cannot be opened or written: the startup process ends, and the next
\* start replays from the beginning.
RedoFails ==
    /\ pc = "redo" /\ replayed < Len(wal) /\ Fail
    /\ ~RedoAlreadyWritten(wal[replayed + 1])
    /\ replayed' = 0
    /\ UNCHANGED <<wal, pc, pos, hdr, then, sent, writer, files, floor, crashes, accepted,
                   dropped, cut>>

EndRecovery ==
    /\ pc = "redo" /\ replayed = Len(wal)
    /\ pc' = "down" /\ replayed' = 0
    /\ UNCHANGED <<wal, pos, hdr, then, sent, writer, files, floor, failures, crashes,
                   accepted, dropped, cut>>
-----------------------------------------------------------------------------
DemuxLoop ==
    \/ DemuxCaughtUp \/ DemuxRead
    \/ CreatePartitionWALWriter \/ CreateFails
    \/ DemuxSkip \/ DemuxWrite
    \/ OpenWriterSegment \/ OpenFails
    \/ FlushFullBuffer \/ BufferHeader
    \/ \E n \in 1..BufferSize : FlushWrite(n)
    \/ FlushFails
    \/ DestroyPartitionWALWriter

Next ==
    \/ \E l \in Lsn : InsertHeader(l)
    \/ DemuxStart \/ DemuxLoop \/ DemuxStop
    \/ Crash \/ PartdistRedo \/ RedoFails \/ EndRecovery

Spec == Init /\ [][Next]_vars

\* The worker never waits longer than DEMUX_SLEEP_MS and failures are transient
\* (MaxFailures).
FairSpec == Spec /\ WF_vars(DemuxLoop)
-----------------------------------------------------------------------------
(***************************************************************************)
(* Properties                                                              *)
(***************************************************************************)

\* Every variable has its type.
TypeOK ==
    /\ wal \in Seq(Lsn)
    /\ pc \in WorkerPc
    /\ pos \in 0..Len(wal)
    /\ hdr \in {0} \cup Lsn
    /\ then \in {"read", "open", "buffer", "destroy", "exited"}
    /\ sent \in 0..Len(writer.buf)
    /\ writer \in Writer
    /\ files \in [Segment -> Seq(Lsn)]
    /\ replayed \in 0..Len(wal)
    /\ floor \in {0} \cup Lsn
    /\ failures \in 0..MaxFailures
    /\ crashes \in 0..MaxCrashes
    /\ accepted \in SUBSET Lsn /\ dropped \in SUBSET Lsn
    /\ cut \in BOOLEAN

\* Headers are in the buffer only while the file they belong to is open, so that
\* the silent returns of FlushPartitionWALWriter (no open file) and the switch
\* of the file lose nothing, and the buffer never holds more than fits.
BufferHasFile ==
    /\ Len(writer.buf) <= BufferSize
    /\ writer.buf # <<>> =>
        /\ writer.fd = "open"
        /\ \A i \in 1..Len(writer.buf) : FileSeg(writer.buf[i]) = writer.seg

AcceptedThere == accepted \subseteq Stored \cup Range(writer.buf) \cup dropped

\* The headers that lie before header 1 in the WAL.
OvertookFirst ==
    {l \in Lsn : \E i, j \in 1..Len(wal) : i < j /\ wal[i] = l /\ wal[j] = 1}

\* A header that WritePartitionWAL has taken is on disk or in the buffer as long
\* as the worker lives, and on disk once it has exited, however writes fail.  Only
\* reset detection drops headers, and only such as overtook the first one.
AcceptedKept == AcceptedThere /\ dropped \subseteq OvertookFirst

\* Without failures the buffer is empty whenever the worker looks for the next
\* record: publishing the position behind a header means that the header is in
\* its file.  (PartWal takes write and flush as one step.)
FlushedAtTop ==
    pc = "read" /\ failures = 0 => writer.buf = <<>>

\* As long as no write was cut short, the files hold no header twice and read in
\* segment order they ascend, whatever else failed.  (A header may be missing.)
AscendingUnlessCut ==
    ~cut =>
        /\ \A s \in Segment : \A i, j \in 1..Len(files[s]) : i < j => files[s][i] < files[s][j]
        /\ \A s, t \in Segment : s < t =>
              \A i \in 1..Len(files[s]), j \in 1..Len(files[t]) : files[s][i] < files[t][j]

\* Reset detection never throws away a buffered header: no file is deleted here
\* ("Files deleted - restart writer from scratch", demux_worker.c 613).
NothingDropped == dropped = {}

\* When recovery ends, every header of the WAL is in its file ("pg_parwal/N/ is
\* rebuilt correctly after a crash", partition_wal.c 366-367).
RebuiltByRecovery ==
    pc = "redo" /\ replayed = Len(wal) => Range(wal) \subseteq Stored

\* A buffered header reaches its file, unless the worker ends before.
BufferDrains ==
    \A l \in Lsn : l \in Range(writer.buf) ~>
        l \in Stored \cup dropped \/ pc \in {"down", "exited", "redo"}

\* The writer implements the log of its partition: what it stores was offered,
\* and every header that is new in the files lies above their last record, with
\* re-written buffers, repeated redo and skipped headers.
Log == INSTANCE MonotoneLog WITH offered <- Range(wal), stored <- Stored,
                                 last <- GetLastWrittenPartitionLSN

ImplementsMonotoneLog == Log!Spec
-----------------------------------------------------------------------------
(***************************************************************************)
(* The inductive invariant behind these properties; the proofs are in      *)
(* PartitionWalWriterProofs.                                               *)
(***************************************************************************)

\* The worker has chosen to write hdr: it is above the watermark.
Writing == pc \in {"open", "buffer"} \/ (pc = "flush" /\ then \in {"open", "buffer"})

\* A flush is under way exactly while part of the buffer is to be written; the
\* file is open and chosen before the header is buffered; no writer, no state.
WriterControl ==
    /\ pc # "flush" => sent = 0
    /\ pc = "flush" => sent < Len(writer.buf)
    /\ pc \in {"down", "exited", "redo", "create"} => writer.fd = "absent"
    /\ pc \in {"check", "open", "buffer", "flush"} => writer.fd # "absent"
    /\ writer.fd = "absent" => writer = NoWriter
    /\ writer.fd = "open" => writer.seg # 0
    /\ pc = "open" => writer.buf = <<>>
    /\ pc = "buffer" \/ (pc = "flush" /\ then = "buffer") =>
          writer.fd = "open" /\ writer.seg = FileSeg(hdr)
    /\ pc \in {"create", "check"} \/ Writing => hdr \in Range(wal)
    /\ Writing => writer.last < hdr

\* The buffer ascends up to the watermark, and its headers are in the WAL.
BufferAscends ==
    /\ \A i, j \in 1..Len(writer.buf) : i < j => writer.buf[i] < writer.buf[j]
    /\ \A i \in 1..Len(writer.buf) : writer.buf[i] <= writer.last /\ writer.buf[i] \in Range(wal)

\* A file holds headers of its own segment, which are in the WAL.
FilesInPlace ==
    \A s \in Segment : \A i \in 1..Len(files[s]) :
        FileSeg(files[s][i]) = s /\ files[s][i] \in Range(wal)

\* The last record never passes the watermark, and no file above that of the
\* buffer has a record.
WatermarkAbove ==
    /\ writer.fd # "absent" => GetLastWrittenPartitionLSN <= writer.last
    /\ writer.buf # <<>> => \A s \in NonEmpty : s <= writer.seg

\* What a flush has sent is stored; what is not stored lies above the last
\* record, and above every record as long as no write was cut.
BufferAboveFiles ==
    /\ \A i \in 1..sent : writer.buf[i] \in Stored
    /\ \A i \in 1..Len(writer.buf) :
          writer.buf[i] \in Stored \/ GetLastWrittenPartitionLSN < writer.buf[i]
    /\ ~cut => \A i \in sent + 1..Len(writer.buf) : \A l \in Stored : l < writer.buf[i]

\* Without failures the buffer is empty outside a flush.
FlushedUnlessFailed == failures = 0 /\ writer.buf # <<>> => pc = "flush"

WriterInv ==
    /\ TypeOK /\ BufferHasFile /\ AcceptedThere /\ AscendingUnlessCut
    /\ WriterControl /\ BufferAscends /\ FilesInPlace /\ WatermarkAbove
    /\ BufferAboveFiles /\ FlushedUnlessFailed

\* The header the worker is at was read last, those in the buffer earlier.
ReadInOrder ==
    /\ pc \in {"create", "check"} \/ Writing => pos > 0 /\ hdr = wal[pos]
    /\ \A k \in 1..Len(writer.buf) :
          \E i \in 1..pos : wal[i] = writer.buf[k] /\ (pc = "check" => i < pos)
    /\ dropped \subseteq OvertookFirst
=============================================================================

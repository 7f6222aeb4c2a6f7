------------------------------ MODULE PartWal ------------------------------
(***************************************************************************)
(* The per-partition WAL of pg_partdist.                                   *)
(*                                                                         *)
(* A backend that changes a registered partition allocates the next        *)
(* partition_lsn from a shared hash table, inserts a PartWALHeader record  *)
(* into the node's WAL (pg_wal) and flushes it.  One background worker, the *)
(* demux, reads the flushed WAL and appends every header to the file       *)
(* pg_parwal/<partition>/<segment> chosen by the header's orig_node_lsn.   *)
(* After a crash the custom resource manager replays the headers into the  *)
(* same files.                                                             *)
(*                                                                         *)
(* A position of the node's WAL (XLogRecPtr) is the number of records      *)
(* before it: record i ends at position i.  0 is InvalidXLogRecPtr.  The   *)
(* WAL starts with SegSize records, so that every later record lies in     *)
(* segment 1 or above, as in a real cluster.                               *)
(***************************************************************************)
EXTENDS Integers, Sequences, FiniteSets, FiniteSetsExt, SequencesExt

CONSTANTS
    Backend,        \* client backends
    Partition,      \* relation OIDs that get a partition WAL
    NoPart,         \* marks a WAL record of another resource manager
    SegSize,        \* records in one WAL segment (wal_segment_size)
    MaxWal,         \* bound: length of the node's WAL
    MaxLsn,         \* bound: LSNs handed out by alloc_partition_lsn()
    MaxRestart,     \* bound: crashes and clean restarts
    MaxEntries,     \* capacity of the LSN hash table (1024 in the code)
    MaxWriters,     \* DEMUX_MAX_PARTITIONS, the demux's writer cache (512)
    SaveEvery,      \* records between two saves of the progress file (16)
    Env             \* what the environment does in this instance, see EnvKinds

\* "early": statements run before the demux worker has started;
\* "xact": several statements in one transaction; "nowal": a statement that
\* writes no heap WAL; "multi": a statement with several result relations;
\* "sql": write_partition_wal_record(); "alloc": alloc_partition_lsn();
\* "reset": reset_partition_wal_state(); "cleanup": cleanup_partition_wal();
\* "checkpoint": checkpoints, with recycling of WAL segments; "crash": server
\* crashes; "stop": SIGTERM to the demux and clean restarts; "timeout":
\* demux_flush() gives up after 30 s.
EnvKinds == {"early", "xact", "nowal", "multi", "sql", "alloc", "reset", "cleanup",
             "checkpoint", "crash", "stop", "timeout"}

\* The file a header belongs to.  Segment 0 is never used: "segment 0 is not
\* a valid pg_wal file".
FileSeg(ptr) ==
    IF ptr = 0 \/ ptr \div SegSize = 0 THEN 1 ELSE ptr \div SegSize

\* The pg_wal segment that holds record i, which starts at position i - 1.
WalSeg(i) == (i - 1) \div SegSize

Segment == 1..FileSeg(MaxWal)

ASSUME SizeAssumption ==
    /\ SegSize \in Nat \ {0}
    /\ MaxWal \in Nat /\ MaxWal >= SegSize
    /\ MaxLsn \in Nat /\ MaxRestart \in Nat
    /\ MaxEntries \in Nat \ {0} /\ MaxWriters \in Nat \ {0}
    /\ SaveEvery \in Nat \ {0}
    /\ FileSeg(MaxWal) <= 256      \* segfiles[256]: no scan misses a file

ASSUME NameAssumption ==
    /\ NoPart \notin Partition
    /\ Env \subseteq EnvKinds

ASSUME FiniteAssumption == IsFiniteSet(Backend) /\ IsFiniteSet(Partition)

VARIABLES
    wal,            \* the node's WAL: a sequence of records
    flushed,        \* GetFlushRecPtr()
    redoPtr,        \* redo pointer of the last checkpoint
    mode,           \* "run" or "recover"
    replayed,       \* end of the last record replayed by crash recovery
    bk,             \* the backends
    lsnHash,        \* PartWALLSNHash: next_lsn per partition, 0 = no entry
    parwal,         \* the files: pg_parwal/<p>/<segment> is a sequence of headers
    demux,          \* control state of the demux worker
    startLSN,       \* position of the demux's last XLogBeginRead
    endRecPtr,      \* reader->EndRecPtr
    readSeg,        \* pg_wal segment the reader has open, -1 = none
    writers,        \* the demux's PartitionWALWriter per partition
    lastProcessed,  \* DemuxState->last_processed_lsn
    saveCounter,    \* records since the last periodic save
    progress,       \* pg_parwal progress file, 0 = absent
    bootPtr,        \* history: end of the WAL when the server last started
    restarts        \* history: crashes and clean restarts so far

vars == <<wal, flushed, redoPtr, mode, replayed, bk, lsnHash, parwal, demux, startLSN,
          endRecPtr, readSeg, writers, lastProcessed, saveCounter, progress,
          bootPtr, restarts>>

walVars    == <<wal, flushed, redoPtr, mode, replayed>>
demuxVars  == <<demux, startLSN, endRecPtr, readSeg, writers, lastProcessed,
                saveCounter, progress>>
ghostVars  == <<bootPtr, restarts>>
-----------------------------------------------------------------------------
(* Types *)

Header == [part : Partition, lsn : Nat \ {0}, orig : 1..MaxWal]
Other  == [part |-> NoPart, lsn |-> 0, orig |-> 0]
WalRecord == Header \cup {Other}

\* pc: idle; stmt: some relations of the statement are still to be logged;
\* scan, enter: inside AllocPartitionLSN; insert, flush: XLogInsert, XLogFlush;
\* wait: in demux_flush(); opendir, unlink: in reset or cleanup.
BackendState ==
    [pc : {"idle", "stmt", "scan", "enter", "insert", "flush", "wait", "opendir",
           "unlink"},
     op : {"none", "write", "alloc", "flush", "reset", "cleanup"},
     rels : SUBSET Partition,       \* result relations still to be logged
     part : Partition \cup {NoPart},
     ptr : 0..MaxWal,               \* orig_lsn, or demux_flush's target_lsn
     init : Nat,                    \* init_lsn of AllocPartitionLSN
     lsn : Nat,                     \* the LSN allocated
     todo : SUBSET Segment,         \* files still to be unlinked
     xlast : 0..MaxWal]             \* XactLastRecEnd

IdleBackend == [pc |-> "idle", op |-> "none", rels |-> {}, part |-> NoPart, ptr |-> 0,
                init |-> 0, lsn |-> 0, todo |-> {}, xlast |-> 0]

\* fd: absent (no writer), closed, linked (open), unlinked (open, but the file
\* has been removed from its directory); seg: current_segno; last: last_partition_lsn.
Writer == [fd : {"absent", "closed", "linked", "unlinked"},
           seg : {0} \cup Segment, last : Nat]
NoWriter == [fd |-> "absent", seg |-> 0, last |-> 0]

NoFiles == [s \in Segment |-> <<>>]
-----------------------------------------------------------------------------
Init ==
    /\ wal = [i \in 1..SegSize |-> Other]
    /\ flushed = SegSize
    /\ redoPtr = SegSize
    /\ mode = "run"
    /\ replayed = 0
    /\ bk = [b \in Backend |-> IdleBackend]
    /\ lsnHash = [p \in Partition |-> 0]
    /\ parwal = [p \in Partition |-> NoFiles]
    /\ demux = "down"
    /\ startLSN = 0
    /\ endRecPtr = 0
    /\ readSeg = -1
    /\ writers = [p \in Partition |-> NoWriter]
    /\ lastProcessed = 0
    /\ saveCounter = 0
    /\ progress = 0
    /\ bootPtr = SegSize
    /\ restarts = 0
-----------------------------------------------------------------------------
(* Reading pg_parwal *)

FilesOf(p) == {s \in Segment : parwal[p][s] # <<>>}

\* Mutant: the files sorted in the other direction.
GetLastOfFirstFile(p) ==
    LET files == FilesOf(p)
    IN  IF files = {} THEN 0 ELSE Last(parwal[p][Min(files)]).lsn

\* GetLastWrittenPartitionLSN: the last record of the highest segment file
\* that holds one.
GetLastWrittenPartitionLSN(p) ==
    LET files == FilesOf(p)
    IN  IF files = {} THEN 0 ELSE Last(parwal[p][Max(files)]).lsn

OnDisk(h) == h \in Range(parwal[h.part][FileSeg(h.orig)])
-----------------------------------------------------------------------------
(* Backends: statements that write to a partition *)

Idle(b) == mode = "run" /\ bk[b].pc = "idle"

ServerReady == demux # "down" \/ "early" \in Env

\* Bound: a statement starts only when the WAL has room for its n records and
\* for those of the statements under way.
PendingRecords(b) ==
    IF bk[b].op # "write" THEN 0
    ELSE Cardinality(bk[b].rels) + (IF bk[b].pc \in {"scan", "enter", "insert"} THEN 1 ELSE 0)

Room(n) == Len(wal) + n + MapThenSumSet(PendingRecords, Backend) <= MaxWal

\* pg_partdist_executor_finish, and pg_partdist_process_utility for COPY: a
\* statement on the relations S, for which ShouldWritePartWAL holds.  When it
\* wrote heap WAL, XactLastRecEnd is the end of its last record; else it is
\* what an earlier statement of the transaction left, or invalid.
ExecutorFinish(b, S, logged) ==
    LET end  == IF logged THEN Len(wal) + 1 ELSE bk[b].xlast
        orig == IF end = 0 THEN Len(wal) ELSE end
    IN  /\ Idle(b) /\ ServerReady
        /\ S # {}
        /\ "xact" \in Env \/ bk[b].xlast = 0
        /\ Room(Cardinality(S) + 1) /\ (logged => Len(wal) < MaxWal)
        /\ logged \/ "nowal" \in Env
        /\ Cardinality(S) = 1 \/ "multi" \in Env
        /\ wal' = IF logged THEN Append(wal, Other) ELSE wal
        /\ bk' = [bk EXCEPT ![b] = [@ EXCEPT !.pc = "stmt", !.op = "write", !.rels = S,
                                             !.ptr = orig, !.xlast = end]]
        /\ UNCHANGED <<flushed, redoPtr, mode, replayed, lsnHash, parwal, demuxVars, ghostVars>>

\* write_partition_wal_record(p, flags): orig is the current insert position.
WritePartitionWALRecordSql(b, p) ==
    /\ Idle(b) /\ ServerReady /\ "sql" \in Env
    /\ Room(1)
    /\ bk' = [bk EXCEPT ![b] = [@ EXCEPT !.pc = "stmt", !.op = "write", !.rels = {p},
                                         !.ptr = Len(wal)]]
    /\ UNCHANGED <<walVars, lsnHash, parwal, demuxVars, ghostVars>>

\* alloc_partition_lsn(p): only AllocPartitionLSN.
AllocPartitionLSNSql(b, p) ==
    /\ Idle(b) /\ "alloc" \in Env
    /\ lsnHash[p] <= MaxLsn
    /\ bk' = [bk EXCEPT ![b] = [@ EXCEPT !.pc = "stmt", !.op = "alloc", !.rels = {p}]]
    /\ UNCHANGED <<walVars, lsnHash, parwal, demuxVars, ghostVars>>

\* End of a transaction: PostgreSQL clears XactLastRecEnd.
EndXact(b) ==
    /\ Idle(b) /\ bk[b].xlast # 0
    /\ bk' = [bk EXCEPT ![b].xlast = 0]
    /\ UNCHANGED <<walVars, lsnHash, parwal, demuxVars, ghostVars>>
-----------------------------------------------------------------------------
(* AllocPartitionLSN: the look-up under the shared lock, the scan of the     *)
(* files without a lock, the allocation under the exclusive lock.            *)

AllocFind(b, p) ==
    /\ bk[b].pc = "stmt" /\ p \in bk[b].rels
    /\ bk' = [bk EXCEPT ![b] = [@ EXCEPT !.pc = IF lsnHash[p] = 0 THEN "scan" ELSE "enter",
                                         !.rels = bk[b].rels \ {p}, !.part = p, !.init = 1]]
    /\ UNCHANGED <<walVars, lsnHash, parwal, demuxVars, ghostVars>>

\* Mutant: the files are not consulted.
AllocScanSkipped(b) ==
    /\ bk[b].pc = "scan"
    /\ bk' = [bk EXCEPT ![b].pc = "enter"]
    /\ UNCHANGED <<walVars, lsnHash, parwal, demuxVars, ghostVars>>

AllocScan(b) ==
    LET last == GetLastWrittenPartitionLSN(bk[b].part)
    IN  /\ bk[b].pc = "scan"
        /\ bk' = [bk EXCEPT ![b] = [@ EXCEPT !.pc = "enter",
                                             !.init = IF last > 0 THEN last + 1 ELSE 1]]
        /\ UNCHANGED <<walVars, lsnHash, parwal, demuxVars, ghostVars>>

Entries == {q \in Partition : lsnHash[q] # 0}

\* Mutant: the result of the first look-up is trusted under the exclusive lock.
NextLsnNoRecheck(b) == bk[b].init

\* The value of next_lsn that HASH_ENTER leaves for the allocation to return.
NextLsn(b) == IF lsnHash[bk[b].part] = 0 THEN bk[b].init ELSE lsnHash[bk[b].part]

AllocEnter(b) ==
    LET p == bk[b].part
        result == NextLsn(b)
    IN  /\ bk[b].pc = "enter"
        /\ lsnHash[p] # 0 \/ Cardinality(Entries) < MaxEntries
        /\ lsnHash' = [lsnHash EXCEPT ![p] = result + 1]
        /\ bk' = [bk EXCEPT ![b] =
                    IF bk[b].op = "alloc"
                    THEN [IdleBackend EXCEPT !.xlast = bk[b].xlast]
                    ELSE [@ EXCEPT !.pc = "insert", !.lsn = result, !.init = 0]]
        /\ UNCHANGED <<walVars, parwal, demuxVars, ghostVars>>

\* The fixed-size hash table is full: HASH_ENTER raises an error, which aborts
\* the user's transaction.
AllocFull(b) ==
    /\ bk[b].pc = "enter"
    /\ lsnHash[bk[b].part] = 0 /\ Cardinality(Entries) >= MaxEntries
    /\ bk' = [bk EXCEPT ![b] = IdleBackend]
    /\ UNCHANGED <<walVars, lsnHash, parwal, demuxVars, ghostVars>>
-----------------------------------------------------------------------------
(* The rest of WritePartitionWALRecord: XLogInsert, then XLogFlush. *)

XLogInsert(b) ==
    /\ bk[b].pc = "insert"
    /\ Len(wal) < MaxWal
    /\ wal' = Append(wal, [part |-> bk[b].part, lsn |-> bk[b].lsn, orig |-> bk[b].ptr])
    /\ bk' = [bk EXCEPT ![b] = [@ EXCEPT !.pc = "flush", !.lsn = 0, !.xlast = Len(wal) + 1]]
    /\ UNCHANGED <<flushed, redoPtr, mode, replayed, lsnHash, parwal, demuxVars, ghostVars>>

\* The last relation of a statement ends it.
XLogFlush(b) ==
    /\ bk[b].pc = "flush"
    /\ flushed' = Max({flushed, bk[b].xlast})
    /\ bk' = [bk EXCEPT ![b] =
                IF bk[b].rels = {}
                THEN [IdleBackend EXCEPT !.xlast = bk[b].xlast]
                ELSE [@ EXCEPT !.pc = "stmt", !.part = NoPart]]
    /\ UNCHANGED <<wal, redoPtr, mode, replayed, lsnHash, parwal, demuxVars, ghostVars>>

\* PostgreSQL's WAL writer and other commits flush the WAL at any time.
WalWriterFlush ==
    /\ mode = "run"
    /\ flushed < Len(wal)
    /\ flushed' = flushed + 1
    /\ UNCHANGED <<wal, redoPtr, mode, replayed, bk, lsnHash, parwal, demuxVars, ghostVars>>
-----------------------------------------------------------------------------
(* demux_flush(): poll last_processed_lsn until it reaches the flush         *)
(* position read at the call, or give up.                                    *)

DemuxFlushCall(b) ==
    /\ Idle(b) /\ ServerReady
    /\ bk' = [bk EXCEPT ![b] = [@ EXCEPT !.pc = "wait", !.op = "flush", !.ptr = flushed]]
    /\ UNCHANGED <<walVars, lsnHash, parwal, demuxVars, ghostVars>>

DemuxFlushReturn(b) ==
    /\ bk[b].pc = "wait"
    /\ lastProcessed # 0 /\ lastProcessed >= bk[b].ptr
    /\ bk' = [bk EXCEPT ![b] = [IdleBackend EXCEPT !.xlast = bk[b].xlast]]
    /\ UNCHANGED <<walVars, lsnHash, parwal, demuxVars, ghostVars>>

DemuxFlushTimeout(b) ==
    /\ bk[b].pc = "wait" /\ "timeout" \in Env
    /\ bk' = [bk EXCEPT ![b] = [IdleBackend EXCEPT !.xlast = bk[b].xlast]]
    /\ UNCHANGED <<walVars, lsnHash, parwal, demuxVars, ghostVars>>
-----------------------------------------------------------------------------
(* Removal of files.  Both functions walk the directory and unlink one file  *)
(* after the other; the demux may hold a removed file open.                  *)

\* ResetPartitionWALState: remove the hash entry under the lock, then open the
\* directory.
ResetRemoveEntry(b, p) ==
    /\ Idle(b) /\ "reset" \in Env
    /\ lsnHash' = [lsnHash EXCEPT ![p] = 0]
    /\ bk' = [bk EXCEPT ![b] = [@ EXCEPT !.pc = "opendir", !.op = "reset", !.part = p]]
    /\ UNCHANGED <<walVars, parwal, demuxVars, ghostVars>>

ResetOpenDir(b) ==
    /\ bk[b].pc = "opendir"
    /\ bk' = [bk EXCEPT ![b] = [@ EXCEPT !.pc = "unlink", !.todo = FilesOf(bk[b].part)]]
    /\ UNCHANGED <<walVars, lsnHash, parwal, demuxVars, ghostVars>>

\* CleanupPartitionWAL(p, keep): the segments that end at or before keep.
CleanupOpenDir(b, p, keep) ==
    /\ Idle(b) /\ "cleanup" \in Env
    /\ bk' = [bk EXCEPT ![b] = [@ EXCEPT !.pc = "unlink", !.op = "cleanup", !.part = p,
                                  !.todo = {s \in FilesOf(p) : (s + 1) * SegSize <= keep}]]
    /\ UNCHANGED <<walVars, lsnHash, parwal, demuxVars, ghostVars>>

UnlinkFile(b, s) ==
    LET p == bk[b].part
    IN  /\ bk[b].pc = "unlink" /\ s \in bk[b].todo
        /\ parwal' = [parwal EXCEPT ![p][s] = <<>>]
        /\ writers' = IF writers[p].fd = "linked" /\ writers[p].seg = s
                      THEN [writers EXCEPT ![p].fd = "unlinked"] ELSE writers
        /\ bk' = [bk EXCEPT ![b].todo = @ \ {s}]
        /\ UNCHANGED <<walVars, lsnHash, demux, startLSN, endRecPtr, readSeg, lastProcessed,
                       saveCounter, progress, ghostVars>>

CloseDir(b) ==
    /\ bk[b].pc = "unlink" /\ bk[b].todo = {}
    /\ bk' = [bk EXCEPT ![b] = [IdleBackend EXCEPT !.xlast = bk[b].xlast]]
    /\ UNCHANGED <<walVars, lsnHash, parwal, demuxVars, ghostVars>>
-----------------------------------------------------------------------------
(* The demux worker *)

\* The worker starts after recovery and always begins at the flush position.
DemuxStart ==
    /\ mode = "run" /\ demux = "down"
    /\ demux' = "read"
    /\ startLSN' = flushed
    /\ endRecPtr' = flushed
    /\ readSeg' = -1
    /\ saveCounter' = 0
    /\ UNCHANGED <<walVars, bk, lsnHash, parwal, writers, lastProcessed, progress, ghostVars>>

\* Mutants: the position is published without having caught up; the invalid
\* position is not replaced.
DemuxCaughtUpAlways ==
    /\ demux = "read"
    /\ lastProcessed < flushed
    /\ lastProcessed' = flushed
    /\ UNCHANGED <<walVars, bk, lsnHash, parwal, demux, startLSN, endRecPtr, readSeg, writers,
                   saveCounter, progress, ghostVars>>

DemuxCaughtUpIfValid ==
    /\ demux = "read" /\ endRecPtr >= flushed
    /\ lastProcessed < flushed /\ lastProcessed # 0
    /\ lastProcessed' = flushed
    /\ UNCHANGED <<walVars, bk, lsnHash, parwal, demux, startLSN, endRecPtr, readSeg, writers,
                   saveCounter, progress, ghostVars>>

\* Nothing left to read: last_processed_lsn catches up with the flush position.
DemuxCaughtUp ==
    /\ demux = "read" /\ endRecPtr >= flushed
    /\ lastProcessed < flushed
    /\ lastProcessed' = flushed
    /\ UNCHANGED <<walVars, bk, lsnHash, parwal, demux, startLSN, endRecPtr, readSeg, writers,
                   saveCounter, progress, ghostVars>>

\* XLogReadRecord returns the next record.  A segment older than the last
\* checkpoint may have been recycled; one that is open can still be read.
ReadNext ==
    /\ demux = "read" /\ endRecPtr < flushed
    /\ endRecPtr' = endRecPtr + 1
    /\ readSeg' = WalSeg(endRecPtr + 1)
    /\ demux' = "publish"

\* Mutant: skip to the insert position.
DemuxSegmentGoneToInsert ==
    /\ demux = "read" /\ endRecPtr < flushed
    /\ readSeg # WalSeg(endRecPtr + 1)
    /\ WalSeg(endRecPtr + 1) < redoPtr \div SegSize
    /\ startLSN' = Len(wal)
    /\ endRecPtr' = Len(wal)
    /\ readSeg' = -1
    /\ UNCHANGED <<walVars, bk, lsnHash, parwal, demux, writers, lastProcessed, saveCounter,
                   progress, ghostVars>>

\* DemuxOpenSegment fails: skip to the flush position.
DemuxSegmentGone ==
    /\ demux = "read" /\ endRecPtr < flushed
    /\ readSeg # WalSeg(endRecPtr + 1)
    /\ WalSeg(endRecPtr + 1) < redoPtr \div SegSize
    /\ startLSN' = flushed
    /\ endRecPtr' = flushed
    /\ readSeg' = -1
    /\ UNCHANGED <<walVars, bk, lsnHash, parwal, demux, writers, lastProcessed, saveCounter,
                   progress, ghostVars>>

\* A record of another resource manager.
DemuxOther ==
    /\ ReadNext
    /\ wal[endRecPtr + 1].part = NoPart
    /\ UNCHANGED <<walVars, bk, lsnHash, parwal, startLSN, writers, lastProcessed, saveCounter,
                   progress, ghostVars>>

NumWriters == Cardinality({p \in Partition : writers[p].fd # "absent"})

\* GetOrCreateWriter finds no writer and no free slot: the record is skipped.
DemuxNoWriter ==
    LET r == wal[endRecPtr + 1]
    IN  /\ ReadNext
        /\ r.part # NoPart /\ writers[r.part].fd = "absent" /\ NumWriters >= MaxWriters
        /\ UNCHANGED <<walVars, bk, lsnHash, parwal, startLSN, writers, lastProcessed, saveCounter,
                       progress, ghostVars>>

\* GetOrCreateWriter: a new writer takes its watermark from the files.
WriterFor(p) ==
    IF writers[p].fd = "absent"
    THEN [fd |-> "closed", seg |-> 0, last |-> GetLastWrittenPartitionLSN(p)]
    ELSE writers[p]

\* Reset detection: LSN 1 arrives, the watermark is higher and the files are gone.
AfterResetDetection(w, r) ==
    IF r.lsn = 1 /\ w.last > 0 /\ GetLastWrittenPartitionLSN(r.part) = 0
    THEN [fd |-> "closed", seg |-> 0, last |-> 0]
    ELSE w

OpenWriterSegment(w, seg) == [w EXCEPT !.fd = "linked", !.seg = seg]

\* WritePartitionWAL's choice of file: switch when the segment changes.
WriterAt(w, seg) ==
    IF (w.seg # 0 /\ w.seg # seg) \/ w.fd = "closed" THEN OpenWriterSegment(w, seg) ELSE w

\* The files after the flush of a writer that holds one header.
FlushPartitionWALWriter(w, r) ==
    IF w.fd = "linked" THEN [parwal EXCEPT ![r.part][w.seg] = Append(@, r)] ELSE parwal

CanWrite(p) == writers[p].fd # "absent" \/ NumWriters < MaxWriters

\* A header whose LSN is not above the watermark is dropped.
DemuxDuplicate ==
    LET r == wal[endRecPtr + 1]
        w == AfterResetDetection(WriterFor(r.part), r)
    IN  /\ ReadNext
        /\ r.part # NoPart /\ CanWrite(r.part)
        /\ r.lsn <= w.last
        /\ writers' = [writers EXCEPT ![r.part] = w]
        /\ UNCHANGED <<walVars, bk, lsnHash, parwal, startLSN, lastProcessed, saveCounter,
                       progress, ghostVars>>

\* WritePartitionWAL and FlushPartitionWALWriter.
DemuxWrite ==
    LET r == wal[endRecPtr + 1]
        w == AfterResetDetection(WriterFor(r.part), r)
        v == WriterAt(w, FileSeg(r.orig))
    IN  /\ ReadNext
        /\ r.part # NoPart /\ CanWrite(r.part)
        /\ r.lsn > w.last
        /\ writers' = [writers EXCEPT ![r.part] = [v EXCEPT !.last = r.lsn]]
        /\ parwal' = FlushPartitionWALWriter(v, r)
        /\ UNCHANGED <<walVars, bk, lsnHash, startLSN, lastProcessed, saveCounter, progress,
                       ghostVars>>

\* The position that is saved never exceeds the flush position.
SafeLsn == Min({endRecPtr, flushed})

\* After every record: publish last_processed_lsn, save the progress file from
\* time to time.
DemuxPublish ==
    LET save == saveCounter + 1 >= SaveEvery
    IN  /\ demux = "publish"
        /\ demux' = "read"
        /\ lastProcessed' = endRecPtr
        /\ saveCounter' = IF save THEN 0 ELSE saveCounter + 1
        /\ progress' = IF save THEN SafeLsn ELSE progress
        /\ UNCHANGED <<walVars, bk, lsnHash, parwal, startLSN, endRecPtr, readSeg, writers,
                       ghostVars>>

\* SIGTERM: the loop ends without draining the WAL; proc_exit(0) means that
\* the postmaster does not start the worker again.
DemuxStop ==
    /\ "stop" \in Env
    /\ demux = "read"
    /\ demux' = "exited"
    /\ progress' = SafeLsn
    /\ readSeg' = -1
    /\ writers' = [p \in Partition |-> NoWriter]
    /\ UNCHANGED <<walVars, bk, lsnHash, parwal, startLSN, endRecPtr, lastProcessed, saveCounter,
                   ghostVars>>
-----------------------------------------------------------------------------
(* The server: checkpoints, clean restarts, crashes and recovery *)

Checkpoint ==
    /\ "checkpoint" \in Env
    /\ mode = "run" /\ redoPtr < flushed
    /\ redoPtr' = flushed
    /\ UNCHANGED <<wal, flushed, mode, replayed, bk, lsnHash, parwal, demuxVars, ghostVars>>

\* What a restart takes away: shared memory and every process.
LoseMemory ==
    /\ restarts < MaxRestart /\ restarts' = restarts + 1
    /\ bk' = [b \in Backend |-> IdleBackend]
    /\ lsnHash' = [p \in Partition |-> 0]
    /\ demux' = "down"
    /\ startLSN' = 0 /\ endRecPtr' = 0 /\ readSeg' = -1
    /\ writers' = [p \in Partition |-> NoWriter]
    /\ lastProcessed' = 0 /\ saveCounter' = 0
    /\ UNCHANGED <<parwal, progress>>

\* A fast shutdown flushes the WAL and ends with a checkpoint: no recovery.
CleanRestart ==
    /\ mode = "run" /\ demux = "exited"
    /\ \A b \in Backend : bk[b].pc = "idle"
    /\ flushed' = Len(wal) /\ redoPtr' = Len(wal) /\ bootPtr' = Len(wal)
    /\ LoseMemory
    /\ UNCHANGED <<wal, mode, replayed>>

\* Records that were not flushed may survive or not.
Crash(end) ==
    /\ "crash" \in Env
    /\ end \in flushed..Len(wal)
    /\ wal' = SubSeq(wal, 1, end)
    /\ flushed' = end /\ bootPtr' = end
    /\ mode' = "recover" /\ replayed' = redoPtr
    /\ LoseMemory
    /\ UNCHANGED redoPtr

\* Mutants: off by one in either direction.
RedoBelowLast(r) == r.lsn < GetLastWrittenPartitionLSN(r.part)
RedoUpToNext(r) == r.lsn <= GetLastWrittenPartitionLSN(r.part) + 1

\* partdist_wal_redo skips a header whose LSN is not above the last on disk.
RedoAlreadyWritten(r) == r.lsn <= GetLastWrittenPartitionLSN(r.part)

\* WriteHeaderToFile: the files after the header was appended to its own.
WriteHeaderToFile(r) == [parwal EXCEPT ![r.part][FileSeg(r.orig)] = Append(@, r)]

PartdistRedo ==
    LET r == wal[replayed + 1]
    IN  /\ mode = "recover" /\ replayed < Len(wal)
        /\ replayed' = replayed + 1
        /\ parwal' = IF r.part = NoPart \/ RedoAlreadyWritten(r) THEN parwal
                     ELSE WriteHeaderToFile(r)
        /\ UNCHANGED <<wal, flushed, redoPtr, mode, bk, lsnHash, demuxVars, ghostVars>>

\* Recovery ends with a checkpoint.
EndRecovery ==
    /\ mode = "recover" /\ replayed = Len(wal)
    /\ mode' = "run" /\ replayed' = 0
    /\ redoPtr' = Len(wal)
    /\ UNCHANGED <<wal, flushed, bk, lsnHash, parwal, demuxVars, ghostVars>>
-----------------------------------------------------------------------------
BackendStep(b) ==
    \/ \E S \in SUBSET Partition, logged \in BOOLEAN : ExecutorFinish(b, S, logged)
    \/ \E p \in Partition : \/ WritePartitionWALRecordSql(b, p)
                            \/ AllocPartitionLSNSql(b, p)
                            \/ AllocFind(b, p)
                            \/ ResetRemoveEntry(b, p)
                            \/ \E keep \in 1..MaxWal : CleanupOpenDir(b, p, keep)
    \/ EndXact(b)
    \/ AllocScan(b) \/ AllocEnter(b) \/ AllocFull(b)
    \/ XLogInsert(b) \/ XLogFlush(b)
    \/ DemuxFlushCall(b) \/ DemuxFlushReturn(b) \/ DemuxFlushTimeout(b)
    \/ ResetOpenDir(b) \/ CloseDir(b)
    \/ \E s \in Segment : UnlinkFile(b, s)

\* One pass of the worker's main loop.
DemuxLoop ==
    \/ DemuxCaughtUp \/ DemuxSegmentGone
    \/ DemuxOther \/ DemuxNoWriter \/ DemuxDuplicate \/ DemuxWrite
    \/ DemuxPublish

ServerStep ==
    \/ WalWriterFlush \/ Checkpoint \/ CleanRestart
    \/ \E end \in 1..MaxWal : Crash(end)
    \/ PartdistRedo \/ EndRecovery

Next ==
    \/ \E b \in Backend : BackendStep(b)
    \/ DemuxStart \/ DemuxLoop \/ DemuxStop
    \/ ServerStep

Spec == Init /\ [][Next]_vars
-----------------------------------------------------------------------------
(***************************************************************************)
(* Properties                                                              *)
(***************************************************************************)

\* Every variable has its type, and the positions keep their order: redo pointer,
\* reader, published and saved position lie inside the flushed WAL, the published
\* one not ahead of the reader.
TypeOK ==
    /\ wal \in Seq(WalRecord) /\ Len(wal) \in SegSize..MaxWal
    /\ flushed \in SegSize..Len(wal)
    /\ redoPtr \in SegSize..flushed
    /\ mode \in {"run", "recover"}
    /\ replayed \in 0..Len(wal)
    /\ bk \in [Backend -> BackendState]
    /\ lsnHash \in [Partition -> Nat]
    /\ parwal \in [Partition -> [Segment -> Seq(Header)]]
    /\ demux \in {"down", "read", "publish", "exited"}
    /\ startLSN \in 0..flushed
    /\ endRecPtr \in startLSN..flushed
    /\ readSeg \in {-1} \cup 0..MaxWal
    /\ writers \in [Partition -> Writer]
    /\ lastProcessed \in 0..endRecPtr
    /\ saveCounter \in 0..SaveEvery
    /\ progress \in 0..flushed
    /\ bootPtr \in SegSize..Len(wal)
    /\ restarts \in 0..MaxRestart

SamePart(i, j) == wal[i].part # NoPart /\ wal[i].part = wal[j].part

\* Between two starts of the server no partition_lsn is handed out twice: not
\* to two records of the WAL, nor to backends that have allocated and not yet
\* inserted, although the look-up, the scan of the files and the allocation
\* are three steps (AllocPartitionLSN).  reset_partition_wal_state() starts
\* the numbering again, so it is excluded.
LsnUnique ==
    "reset" \notin Env =>
        /\ \A i, j \in bootPtr + 1..Len(wal) :
              i # j /\ SamePart(i, j) => wal[i].lsn # wal[j].lsn
        /\ \A b \in Backend : bk[b].pc = "insert" =>
              /\ \A i \in bootPtr + 1..Len(wal) :
                    wal[i].part = bk[b].part => wal[i].lsn # bk[b].lsn
              /\ \A c \in Backend \ {b} :
                    bk[c].pc = "insert" /\ bk[c].part = bk[b].part => bk[c].lsn # bk[b].lsn

\* The flushed headers of p agree on the order of segments and LSNs.  A
\* statement may break this: orig_node_lsn is read before the LSN is
\* allocated, and may be the position of an earlier statement.
SegOrdered(p) ==
    \A i, j \in 1..flushed :
        /\ wal[i].part = p /\ wal[j].part = p
        /\ FileSeg(wal[i].orig) < FileSeg(wal[j].orig)
        => wal[i].lsn < wal[j].lsn

Ascending(p) ==
    /\ \A s \in Segment : \A m, n \in 1..Len(parwal[p][s]) :
          m < n => parwal[p][s][m].lsn < parwal[p][s][n].lsn
    /\ \A s, t \in Segment : s < t =>
          \A m \in 1..Len(parwal[p][s]), n \in 1..Len(parwal[p][t]) :
              parwal[p][s][m].lsn < parwal[p][t][n].lsn

\* As long as the headers of a partition do not change segments against the
\* order of their LSNs, its files read in segment order are strictly ascending
\* in partition_lsn: no duplicate and no inversion.  Whatever else happens:
\* concurrent writers, crashes and repeated recoveries, clean restarts that
\* reuse LSNs, resets, removal of files the demux has open, skipped segments.
SortedOnDisk == \A p \in Partition : SegOrdered(p) => Ascending(p)

\* A header with the same or a higher LSN of the same partition comes earlier
\* in the WAL: two backends inserted in the opposite order of their allocations.
Overtaken(i) == \E j \in 1..i - 1 : SamePart(i, j) /\ wal[j].lsn >= wal[i].lsn

\* The demux has, or can still create, a writer for p.
Served(p) == Cardinality(Partition) <= MaxWriters \/ (demux # "exited" /\ CanWrite(p))

RoutedUpTo(n) ==
    \A i \in startLSN + 1..n :
        wal[i].part # NoPart /\ Served(wal[i].part) => OnDisk(wal[i]) \/ Overtaken(i)

\* The published position (last_processed_lsn, which demux_flush() waits for)
\* and the saved one (the progress file) never run ahead of the files: a header
\* read since the worker last positioned itself is on disk when a position
\* beyond it is published, unless an earlier header overtook it or its
\* partition found the writer cache full.  Files must not be removed.
PublishedIsRouted ==
    demux # "down" /\ Env \cap {"reset", "cleanup"} = {} =>
        RoutedUpTo(lastProcessed) /\ RoutedUpTo(progress)

\* When demux_flush() returns without a timeout, every header that was flushed
\* at the call is in its file, so that the caller reads all of it.
DemuxFlushComplete ==
    [][\A b \in Backend : DemuxFlushReturn(b) =>
          \A i \in 1..bk[b].ptr : wal[i].part # NoPart => OnDisk(wal[i])]_vars

\* No two headers of a partition carry the same partition_lsn, over all
\* restarts of the server (AllocPartitionLSN: "strictly increasing across
\* server restarts").
LsnNeverReused ==
    \A i, j \in 1..Len(wal) : i # j /\ SamePart(i, j) => wal[i].lsn # wal[j].lsn

\* verify_partition_wal(p): the files read in segment order are 1, 2, 3, ...
Verify(p) ==
    LET all == FlattenSeq(parwal[p])
    IN  \A n \in 1..Len(all) : all[n].lsn = n

\* verify_partition_wal() never finds a gap, a duplicate or an inversion, also
\* while the demux is writing, during recovery and after it.
VerifyHolds == \A p \in Partition : Verify(p)

\* When recovery ends, every header of the WAL is in its file ("pg_parwal/N/ is
\* rebuilt correctly after a crash").
RebuiltByRecovery ==
    mode = "recover" /\ replayed = Len(wal) =>
        \A i \in 1..Len(wal) : wal[i].part # NoPart => OnDisk(wal[i])

\* The headers up to n are on disk, but for the overtaken ones.
RestoredUpTo(n) ==
    \A i \in 1..n : wal[i].part # NoPart => OnDisk(wal[i]) \/ Overtaken(i)

\* What the tests do: the demux runs whenever a client writes, nobody removes
\* files, and only recovery moves the redo pointer.
NothingSkipped == Env \cap {"early", "reset", "cleanup", "checkpoint", "stop"} = {}

\* With any number of clients recovery misses only headers that were overtaken,
\* although redo goes by the last LSN on disk alone and the demux may have found
\* its writer cache full.
RebuiltUnlessOvertaken ==
    NothingSkipped /\ mode = "recover" /\ replayed = Len(wal) => RestoredUpTo(Len(wal))

\* The LSNs of p in the WAL up to n, and in its files.
WalLsns(p, n) == {wal[i].lsn : i \in {k \in 1..n : wal[k].part = p}}
FileLsns(p) == UNION {{h.lsn : h \in Range(parwal[p][s])} : s \in Segment}

Log == INSTANCE PartitionLog WITH
    inserted <- [p \in Partition |-> WalLsns(p, Len(wal))],
    durable  <- [p \in Partition |-> WalLsns(p, flushed)],
    stored   <- [p \in Partition |-> FileLsns(p)]

\* Backends, demux and recovery implement the log of one client: a new LSN
\* follows on those in the WAL, the files grow in the order of the LSNs and
\* lose nothing, and recovery completes them before the server runs again.  (A
\* set counts an LSN once; LsnNeverReused and VerifyHolds exclude a second use.)
ImplementsPartitionLog == Log!Spec

\* No file holds the same partition_lsn twice (redo is idempotent).
NoDuplicateOnDisk ==
    \A p \in Partition : IsInjective([n \in 1..Len(FlattenSeq(parwal[p])) |->
                                          FlattenSeq(parwal[p])[n].lsn])

\* The demux's loop keeps running: it never waits longer than DEMUX_SLEEP_MS.
\* The startup process replays to the end, the postmaster starts the worker.
FairSpec == Spec /\ WF_vars(DemuxStart) /\ WF_vars(DemuxLoop)
                 /\ WF_vars(PartdistRedo) /\ WF_vars(EndRecovery)

\* What is flushed is eventually processed, unless the server crashes first:
\* every demux_flush() can return.
DemuxCatchesUp ==
    \A n \in SegSize..MaxWal :
        (mode = "run" /\ flushed >= n) ~> (lastProcessed >= n \/ mode = "recover")
-----------------------------------------------------------------------------
(***************************************************************************)
(* The inductive invariants behind these properties; the proofs are in     *)
(* PartWalProofs, PartWalDiskProofs and PartWalRecoveryProofs.             *)
(***************************************************************************)

\* What a backend holds at each control point; end is the end of the WAL.
BackendOK(r, end) ==
    /\ r.xlast <= end
    /\ r.pc \in {"scan", "enter", "insert", "flush", "opendir", "unlink"} => r.part \in Partition
    /\ r.pc \in {"scan", "enter"} => r.init >= 1
    /\ r.pc \in {"stmt", "scan", "enter"} => r.op \in {"write", "alloc"}
    /\ r.pc \in {"insert", "flush"} => r.op = "write"
    /\ r.op = "write" => r.ptr >= 1
    /\ r.pc = "insert" => r.lsn >= 1

BackendInv == \A b \in Backend : BackendOK(bk[b], Len(wal))

\* During recovery no process writes, and the whole WAL is flushed.
RecoveryInv ==
    mode = "recover" =>
        /\ flushed = Len(wal) /\ demux = "down"
        /\ \A b \in Backend : bk[b].pc = "idle"
        /\ \A p \in Partition : writers[p].fd = "absent"

\* A writer with an open file knows its segment.
OpenFileInv ==
    \A p \in Partition : writers[p].fd \in {"linked", "unlinked"} => writers[p].seg # 0

\* A header on disk is a flushed header of its partition, in the file of its
\* orig_node_lsn.
Provenance ==
    \A p \in Partition, s \in Segment : \A n \in 1..Len(parwal[p][s]) :
        \E i \in 1..flushed : /\ wal[i] = parwal[p][s][n]
                              /\ wal[i].part = p
                              /\ FileSeg(wal[i].orig) = s

\* The watermark of a writer is not below any LSN in its files.
AboveDisk(p, last) ==
    \A s \in Segment : \A n \in 1..Len(parwal[p][s]) : parwal[p][s][n].lsn <= last

WatermarkInv ==
    \A p \in Partition :
        writers[p].fd # "absent" /\ SegOrdered(p) => AboveDisk(p, writers[p].last)

\* The counter is above every LSN handed out since the server started.
CounterInv ==
    "reset" \notin Env =>
        /\ \A i \in bootPtr + 1..Len(wal) :
              wal[i].part # NoPart => wal[i].lsn < lsnHash[wal[i].part]
        /\ \A b \in Backend : bk[b].pc = "insert" => bk[b].lsn < lsnHash[bk[b].part]

ControlInv == TypeOK /\ BackendInv /\ RecoveryInv /\ OpenFileInv

\* Without removals: no file is unlinked under the demux, ...
NothingUnlinked ==
    /\ \A b \in Backend : bk[b].pc \notin {"opendir", "unlink"}
    /\ \A p \in Partition : writers[p].fd # "unlinked"

\* ... what is on disk has been read, and so has the header a watermark comes
\* from, so that a header below the watermark was overtaken.
ReadBefore ==
    /\ \A p \in Partition, s \in Segment : \A n \in 1..Len(parwal[p][s]) :
          \E i \in 1..endRecPtr : wal[i] = parwal[p][s][n] /\ wal[i].part = p
    /\ \A p \in Partition : writers[p].fd # "absent" /\ writers[p].last # 0 =>
          \E i \in 1..endRecPtr : wal[i].part = p /\ wal[i].lsn = writers[p].last

\* What is read is routed before it is published.
RoutedInv ==
    Env \cap {"reset", "cleanup"} = {} =>
        /\ NothingUnlinked
        /\ demux = "down" => \A p \in Partition : writers[p].fd = "absent"
        /\ demux # "down" => progress <= endRecPtr /\ ReadBefore /\ RoutedUpTo(endRecPtr)

\* orig_node_lsn is a position of the current run of the server, before the
\* header itself, ...
OriginInv ==
    /\ \A i \in 1..Len(wal) : wal[i].part # NoPart => wal[i].orig < i
    /\ \A b \in Backend : /\ bk[b].xlast = 0 \/ bootPtr <= bk[b].xlast
                          /\ bk[b].op = "write" => bk[b].ptr \in bootPtr..Len(wal)

\* ... so that no two headers are equal, although an LSN may be used again after
\* a restart.
HeadersDiffer ==
    "reset" \notin Env =>
        \A i, j \in 1..Len(wal) : i < j /\ wal[i].part # NoPart => wal[i] # wal[j]

\* The demux runs from the redo pointer on, whenever a client writes.
RestartControl ==
    /\ demux # "exited"
    /\ mode = "run" => redoPtr = bootPtr
    /\ mode = "recover" => bootPtr = Len(wal)
    /\ demux = "down" => /\ endRecPtr = 0
                         /\ mode = "run" => Len(wal) = redoPtr
                         /\ \A b \in Backend : bk[b].op # "write"
    /\ demux # "down" => mode = "run" /\ startLSN = redoPtr

\* A header is not on disk before an earlier one, but for the overtaken ones, so
\* that redo skips nothing that is missing.
EarlierFirst ==
    \A i, j \in 1..flushed :
        i < j /\ SamePart(i, j) /\ ~Overtaken(i) /\ OnDisk(wal[j]) => OnDisk(wal[i])

\* What lies before the redo pointer, and what redo has replayed, is on disk.
RestoreInv ==
    NothingSkipped =>
        /\ RestartControl /\ EarlierFirst
        /\ RestoredUpTo(redoPtr)
        /\ mode = "recover" => RestoredUpTo(replayed)

OneClient == \A b, c \in Backend : b = c

\* One client at a time: the WAL has the headers of a partition in the order of
\* their LSNs and of their files, and the next LSN lies above them.
SerialInv ==
    OneClient /\ NothingSkipped =>
        /\ \A i, j \in 1..Len(wal) :
              i < j /\ SamePart(i, j) => wal[i].lsn < wal[j].lsn /\ wal[i].orig <= wal[j].orig
        /\ \A b \in Backend :
              /\ bk[b].xlast \in {0, Len(wal)}
              /\ bk[b].op = "write" =>
                    \A i \in 1..Len(wal) : wal[i].part # NoPart => wal[i].orig <= bk[b].ptr
              /\ bk[b].pc = "insert" =>
                    \A i \in 1..Len(wal) : wal[i].part = bk[b].part => wal[i].lsn < bk[b].lsn
              /\ bk[b].pc = "enter" /\ lsnHash[bk[b].part] = 0 =>
                    \A i \in 1..Len(wal) : wal[i].part = bk[b].part => wal[i].lsn < bk[b].init
        /\ \A p \in Partition : lsnHash[p] # 0 =>
              \A i \in 1..Len(wal) : wal[i].part = p => wal[i].lsn < lsnHash[p]

\* l is the first LSN of p, or follows one that is in the WAL before position n.
Preceded(p, l, n) == l = 1 \/ \E i \in 1..n : wal[i].part = p /\ wal[i].lsn = l - 1

\* Without alloc_partition_lsn() the LSNs in the WAL have no gaps.
DenseInv ==
    OneClient /\ NothingSkipped /\ "alloc" \notin Env =>
        /\ \A i \in 1..Len(wal) :
              wal[i].part # NoPart => Preceded(wal[i].part, wal[i].lsn, i - 1)
        /\ \A b \in Backend :
              /\ bk[b].op # "alloc"
              /\ bk[b].pc = "insert" => /\ Preceded(bk[b].part, bk[b].lsn, Len(wal))
                                        /\ lsnHash[bk[b].part] = bk[b].lsn + 1
              /\ bk[b].pc = "enter" /\ lsnHash[bk[b].part] = 0 =>
                    Preceded(bk[b].part, bk[b].init, Len(wal))
        /\ \A p \in Partition :
              lsnHash[p] # 0 /\ (\A b \in Backend : bk[b].pc = "insert" => bk[b].part # p) =>
                  Preceded(p, lsnHash[p], Len(wal))
=============================================================================

---------------------------- MODULE ParwalScan -----------------------------
(***************************************************************************)
(* The functions that read a directory pg_parwal/<partition>/: each lists  *)
(* it and then opens one file after the other, without a lock, while the   *)
(* demux appends headers and begins new segment files, and a clean-up or a *)
(* reset removes files, the one the demux has open too.  PartWal takes     *)
(* such a read as one step; the properties below say when it may.          *)
(*                                                                         *)
(* Readers change nothing, so one reader stands for any number.  A file is *)
(* its whole records and, in "torn", whether part of a record follows,     *)
(* left by a write that was cut; nothing is appended behind such a tail.   *)
(* A read to the end of an append-only file returns what was in it when    *)
(* the end was met, so it is one step.                                     *)
(***************************************************************************)
EXTENDS Integers, Sequences, FiniteSets, FiniteSetsExt, SequencesExt

CONSTANTS
    MaxSeg,     \* bound: segment files
    MaxRec,     \* bound: records
    MaxFiles    \* names a reader collects: segfiles[256]

ASSUME ScanAssumption ==
    MaxSeg \in Nat \ {0} /\ MaxRec \in Nat \ {0} /\ MaxFiles \in Nat \ {0}

Segment == 1..MaxSeg
Record == 1..MaxRec

VARIABLES
    exists,     \* the files in the directory
    recs,       \* their records, identified by partition_lsn
    torn,       \* files that end with part of a record
    cur,        \* the file the demux appends to
    next,       \* partition_lsn of the next record
    rd          \* the reader

vars == <<exists, recs, torn, cur, next, rd>>
dirVars == <<exists, recs, torn, cur, next>>

\* last: GetLastWrittenPartitionLSN; verify: verify_partition_wal(); dump:
\* check_partition_wal() and read_all_headers(); count: count_parwal_records().
Op == {"last", "verify", "dump", "count"}

\* base: the files at opendir(); todo: files collected and not read yet; seen:
\* files counted; out: the records read, for "last" the result; atCall, nextAtCall:
\* history, the records and the next LSN at the call; anew: history, the LSNs have
\* begun at 1 again since then.
ReaderState ==
    [pc : {"idle", "list", "read", "done"}, op : Op, base : SUBSET Segment,
     todo : SUBSET Segment, seen : SUBSET Segment, out : Seq(Record), total : Nat,
     atCall : SUBSET Record, nextAtCall : Nat, anew : BOOLEAN]
IdleReader == [pc |-> "idle", op |-> "last", base |-> {}, todo |-> {}, seen |-> {},
               out |-> <<>>, total |-> 0, atCall |-> {}, nextAtCall |-> 0,
               anew |-> FALSE]

OnDisk == UNION {Range(recs[s]) : s \in exists}

Init ==
    /\ exists \in {{}, {1}}
    /\ torn \in SUBSET exists
    /\ \E n \in (IF exists = {} THEN {0} ELSE 0..MaxRec) :
          /\ recs = [s \in Segment |-> IF s = 1 THEN [i \in 1..n |-> i] ELSE <<>>]
          /\ next = n + 1
    /\ cur = IF exists = {} THEN 0 ELSE 1
    /\ rd = IdleReader
-----------------------------------------------------------------------------
(* The other processes *)

\* OpenWriterSegment: the file exists before its first record is flushed.  A new
\* writer creates the file of the current segment again if it was removed.
OpenWriterSegment(s) ==
    /\ s \in Segment \ exists /\ s \in {cur, cur + 1}
    /\ cur' = s /\ exists' = exists \cup {s}
    /\ UNCHANGED <<recs, torn, next, rd>>

\* The file is open: what is appended to it once it was removed is in no directory.
FlushPartitionWALWriter ==
    /\ cur \in Segment \ torn /\ next <= MaxRec
    /\ recs' = [recs EXCEPT ![cur] = IF cur \in exists THEN Append(@, next) ELSE @]
    /\ next' = next + 1
    /\ UNCHANGED <<exists, torn, cur, rd>>

\* A file that CleanupPartitionWAL or ResetPartitionWALState removes: any file,
\* and readdir() returns them in any order.
Unlink(s) ==
    /\ s \in exists
    /\ exists' = exists \ {s} /\ torn' = torn \ {s}
    /\ recs' = [recs EXCEPT ![s] = <<>>]
    /\ UNCHANGED <<cur, next, rd>>

\* After a reset the header with LSN 1 arrives: the demux begins anew, in the file
\* of the header's segment, if the records are gone; if they are not, it drops the
\* headers it has written before.
StartAnew(s) ==
    /\ OnDisk = {} /\ next > 1
    /\ s \in {cur, cur + 1}
    /\ next' = 1 /\ cur' = s /\ exists' = exists \cup {s}
    /\ rd' = [rd EXCEPT !.anew = TRUE]
    /\ UNCHANGED <<recs, torn>>

\* The server restarts: redo and the demux write the headers above the last one
\* in the files again, as far as they are still read, and open the file anew.
Restart ==
    /\ next' \in Max({0} \cup OnDisk) + 1..next
    /\ exists' = exists \cup ({cur} \cap Segment)
    /\ rd' = IdleReader
    /\ UNCHANGED <<recs, torn, cur>>
-----------------------------------------------------------------------------
(* The reader *)

OpenDir(op) ==
    /\ rd.pc = "idle"
    /\ rd' = [IdleReader EXCEPT !.pc = IF op = "count" THEN "read" ELSE "list", !.op = op,
                                !.base = exists, !.atCall = OnDisk, !.nextAtCall = next]
    /\ UNCHANGED dirVars

\* What readdir() may return: a file that is there all the time for certain, one
\* that was created or removed meanwhile perhaps.
Listing(names) == rd.base \cap exists \subseteq names

\* The names are collected in any order, as long as the array has room.
ReadDir(names) ==
    /\ rd.pc = "list"
    /\ \/ Listing(names) /\ Cardinality(names) <= MaxFiles
       \/ Cardinality(names) = MaxFiles
    /\ rd' = [rd EXCEPT !.pc = "read", !.todo = names]
    /\ UNCHANGED dirVars

\* Mutant: the names sorted the other way.
NextFileReversed == IF rd.op = "last" THEN Min(rd.todo) ELSE Max(rd.todo)

\* The names are sorted, descending for "last".
NextFile == IF rd.op = "last" THEN Max(rd.todo) ELSE Min(rd.todo)

\* Mutant: the seek goes to the tail and the file counts as empty.
LastOfFileAtTail(s) == IF s \in torn \/ recs[s] = <<>> THEN 0 ELSE Last(recs[s])

\* GetLastWrittenPartitionLSN on one file: the last record, or, when the seek
\* meets a torn tail, the highest of all.
LastOfFile(s) ==
    IF s \in torn THEN Max({0} \cup Range(recs[s]))
    ELSE IF recs[s] = <<>> THEN 0 ELSE Last(recs[s])

\* Mutant: the first file decides.
FoundAny(s) == TRUE

\* The walk goes on to the next lower file until it has met a record.
Found(s) == LastOfFile(s) > 0

\* verify_partition_wal: the records read so far, followed by those of s.
Expected(s) ==
    \A i \in 1..Len(recs[s]) : recs[s][i] = Len(rd.out) + i

\* Mutant: a file that cannot be opened ends the walk.
AfterMissingStop == {}

\* The files left after one that cannot be opened any more.
AfterMissing == rd.todo \ {NextFile}

SkipMissing ==
    /\ rd.pc = "read" /\ rd.op # "count" /\ rd.todo # {}
    /\ NextFile \notin exists
    /\ rd' = [rd EXCEPT !.todo = AfterMissing]
    /\ UNCHANGED dirVars

ReadLast ==
    /\ rd.pc = "read" /\ rd.op = "last" /\ rd.todo # {}
    /\ NextFile \in exists
    /\ rd' = IF Found(NextFile)
             THEN [rd EXCEPT !.pc = "done", !.todo = {}, !.out = <<LastOfFile(NextFile)>>]
             ELSE [rd EXCEPT !.todo = @ \ {NextFile}]
    /\ UNCHANGED dirVars

\* verify_partition_wal stops at the first record that is not the expected one;
\* the result is false.
ReadVerify ==
    /\ rd.pc = "read" /\ rd.op = "verify" /\ rd.todo # {}
    /\ NextFile \in exists
    /\ rd' = [rd EXCEPT !.out = @ \o recs[NextFile],
                        !.todo = IF Expected(NextFile) THEN @ \ {NextFile} ELSE {}]
    /\ UNCHANGED dirVars

ReadDump ==
    /\ rd.pc = "read" /\ rd.op = "dump" /\ rd.todo # {}
    /\ NextFile \in exists
    /\ rd' = [rd EXCEPT !.out = @ \o recs[NextFile], !.todo = @ \ {NextFile}]
    /\ UNCHANGED dirVars

\* Mutant: the size is rounded up.
RecordsInSizeUp(s) == Len(recs[s]) + (IF s \in torn THEN 1 ELSE 0)

\* The size of the file divided by the size of a record.
RecordsInSize(s) == Len(recs[s])

\* count_parwal_records opens every file as readdir() returns it.
CountFile(s) ==
    /\ rd.pc = "read" /\ rd.op = "count"
    /\ s \in exists \ rd.seen
    /\ rd' = [rd EXCEPT !.seen = @ \cup {s}, !.total = @ + RecordsInSize(s)]
    /\ UNCHANGED dirVars

EndOfWalk ==
    /\ rd.pc = "read"
    /\ IF rd.op = "count" THEN Listing(rd.seen) ELSE rd.todo = {}
    /\ rd' = [rd EXCEPT !.pc = "done"]
    /\ UNCHANGED dirVars

Return ==
    /\ rd.pc = "done"
    /\ rd' = IdleReader
    /\ UNCHANGED dirVars
-----------------------------------------------------------------------------
ReaderStep ==
    \/ \E op \in Op : OpenDir(op)
    \/ \E names \in SUBSET (rd.base \cup exists) : ReadDir(names)
    \/ SkipMissing \/ ReadLast \/ ReadVerify \/ ReadDump
    \/ \E s \in Segment : CountFile(s)
    \/ EndOfWalk \/ Return

Next ==
    \/ \E s \in Segment : OpenWriterSegment(s) \/ Unlink(s) \/ StartAnew(s)
    \/ FlushPartitionWALWriter \/ Restart
    \/ ReaderStep

Spec == Init /\ [][Next]_vars
-----------------------------------------------------------------------------
(***************************************************************************)
(* Properties, with at most MaxFiles files in the directory.  They speak   *)
(* of calls during which the partition's LSNs did not begin at 1 again.    *)
(***************************************************************************)

\* Every variable has its type; only an existing file has a torn tail.
TypeOK ==
    /\ exists \in SUBSET Segment /\ torn \in SUBSET exists
    /\ recs \in [Segment -> Seq(Record)]
    /\ cur \in 0..MaxSeg /\ next \in 1..MaxRec + 1
    /\ rd \in ReaderState

Returned(op) == rd.pc = "done" /\ rd.op = op /\ ~rd.anew

\* GetLastWrittenPartitionLSN returns a value that was the highest LSN on disk at
\* some moment of the call: the demux's watermark, the counter of
\* AllocPartitionLSN and the duplicate check of redo rest on it.  Neither a new
\* empty file, nor a torn tail, nor the removal of other files deceives it, as
\* long as the record that was the highest at the call is not removed.
LastLinearizable ==
    Returned("last") =>
        LET result == IF rd.out = <<>> THEN 0 ELSE rd.out[1]
            highest == Max({0} \cup rd.atCall)
        IN  highest \in {0} \cup OnDisk => result \in highest..next - 1

\* No file was removed with a record that was not written again.
NothingRemoved == 1..next - 1 \subseteq OnDisk

\* verify_partition_wal() raises no false alarm while the demux appends and
\* begins a new file, unless records were removed.  (Of two files
\* begun during the listing, readdir() may return the second alone.)
VerifyNoFalseAlarm ==
    Returned("verify") /\ NothingRemoved /\ Cardinality(exists \ rd.base) <= 1 =>
        \A i \in 1..Len(rd.out) : rd.out[i] = i

\* check_partition_wal() and read_all_headers() return records in strictly
\* ascending order, and every record that was there during the whole call.
DumpComplete ==
    Returned("dump") =>
        /\ \A i, j \in 1..Len(rd.out) : i < j => rd.out[i] < rd.out[j]
        /\ rd.atCall \cap OnDisk \subseteq Range(rd.out)

\* count_parwal_records() counts every record that was there during the whole
\* call, and none that was never there.
CountBounded ==
    Returned("count") =>
        /\ Cardinality(rd.atCall \cap OnDisk) <= rd.total
        /\ rd.total <= Cardinality(rd.atCall \cup (rd.nextAtCall..next - 1))
-----------------------------------------------------------------------------
(***************************************************************************)
(* The inductive invariant behind these properties; the proofs are in      *)
(* ParwalScanProofs.                                                       *)
(***************************************************************************)

\* Only existing files have records; a file holds consecutive LSNs, and the files
\* ascend up to the current one, which ends with the latest record.
DirOrdered ==
    /\ \A s \in Segment : recs[s] # <<>> => s \in exists
    /\ \A s \in exists : s <= cur
    /\ \A s \in Segment : \A i \in 1..Len(recs[s]) : recs[s][i] = recs[s][1] + i - 1
    /\ \A s \in Segment : \A l \in Range(recs[s]) : l < next
    /\ \A s, t \in Segment : s < t => \A l \in Range(recs[s]), m \in Range(recs[t]) : l < m
    /\ \A s \in Segment : s = cur /\ recs[s] # <<>> => next - 1 \in Range(recs[s])

\* What the reader may rely on since the call: a record from before the call that
\* is on disk was on disk then, in a file of that time, and those are the lower ones.
SinceCall ==
    rd.pc # "idle" =>
        /\ rd.nextAtCall <= next
        /\ \A l \in rd.atCall : l < rd.nextAtCall
        /\ \A l \in OnDisk : l < rd.nextAtCall => l \in rd.atCall
        /\ \A s \in exists : \A l \in Range(recs[s]) : l \in rd.atCall => s \in rd.base
        /\ \A s \in rd.base : s <= cur /\ \A t \in exists \ rd.base : s < t

\* The counted records are records of the call or later ones; those of the call in
\* files counted are among them, those in files to be counted are not.
Counted(S) ==
    /\ Cardinality(S) = rd.total
    /\ S \subseteq rd.atCall \cup (rd.nextAtCall..next - 1)
    /\ \A s \in exists \cap rd.seen : Range(recs[s]) \cap rd.atCall \subseteq S
    /\ \A s \in exists \ rd.seen : Range(recs[s]) \cap S = {}
    /\ rd.pc = "done" => rd.atCall \cap OnDisk \subseteq S

CountWalk ==
    rd.op = "count" /\ rd.pc # "idle" => \E S \in SUBSET Record : Counted(S)

\* A count collects no names.
CountListsNothing == rd.op = "count" => rd.pc # "list"

ScanInv ==
    /\ TypeOK /\ DirOrdered /\ CountListsNothing
    /\ ~rd.anew => SinceCall /\ CountWalk

\* Highest record of the call.
Highest == Max({0} \cup rd.atCall)

\* The file of the highest record of the call is still to be read, or was removed.
LastWalk ==
    rd.op = "last" =>
        /\ rd.pc \in {"list", "read"} => rd.out = <<>>
        /\ rd.pc = "read" => \A s \in exists : Highest \in Range(recs[s]) => s \in rd.todo
        /\ rd.pc = "done" =>
              /\ Highest \in OnDisk => rd.out # <<>> /\ Highest <= rd.out[1]
              /\ rd.out # <<>> => rd.out[1] < next

\* What has been read ascends and lies below what is to be read.
ReadAscends ==
    rd.op \in {"verify", "dump"} =>
        /\ rd.pc = "list" => rd.out = <<>>
        /\ \A i, j \in 1..Len(rd.out) : i < j => rd.out[i] < rd.out[j]
        /\ \A i \in 1..Len(rd.out) : rd.out[i] < next
        /\ rd.pc = "read" =>
              \A s \in rd.todo : \A i \in 1..Len(rd.out) : \A l \in Range(recs[s]) : rd.out[i] < l

\* A record of the call that is on disk was read, or its file is to be read.
DumpWalk ==
    rd.op = "dump" =>
        /\ rd.pc = "read" =>
              \A s \in exists : \A l \in Range(recs[s]) :
                  l \in rd.atCall => s \in rd.todo \/ l \in Range(rd.out)
        /\ rd.pc = "done" => rd.atCall \cap OnDisk \subseteq Range(rd.out)

OneNewFile ==
    \A s, t \in exists \ rd.base : recs[s] # <<>> /\ recs[t] # <<>> => s = t

\* Without removals the records read are the first ones; a file with a later
\* record is to be read, or lies above those to be read.
VerifyWalk ==
    rd.op = "verify" /\ rd.pc \in {"read", "done"} /\ NothingRemoved /\ OneNewFile =>
        /\ \A i \in 1..Len(rd.out) : rd.out[i] = i
        /\ rd.pc = "read" =>
              \A s \in exists : \A l \in Range(recs[s]) : Len(rd.out) < l =>
                  s \in rd.todo \/ \A t \in rd.todo :
                      t < s \/ (t \notin rd.base /\ s \notin rd.base)

\* The files of the call and those to be read were begun.
TodoBegun == \A s \in rd.base \cup rd.todo : s <= cur

WalkInv ==
    TodoBegun /\ (~rd.anew => LastWalk /\ ReadAscends /\ DumpWalk /\ VerifyWalk)
=============================================================================

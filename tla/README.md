# Verification of pg_partdist

pg_partdist is a PostgreSQL 16 + Citus extension that keeps, beside the WAL of a
node, one small WAL per partition: every write to a registered partition (or a
Citus shard) appends a header with a per-partition sequence number, the
*partition_lsn*, to `pg_parwal/<partition>/<segment>`.  This directory holds
TLA+ modules that model the extension, TLC configurations that check them on
small instances, and TLAPS proofs.

All source paths below are relative to `src/pg-partdist-src/`.

## 1. Inventory

| Part | Source | State | Operations |
|---|---|---|---|
| LSN allocation | `src/wal/partition_wal.c` 127-169 | shared hash table partition -> next_lsn, one LWLock | `AllocPartitionLSN`, `alloc_partition_lsn()` |
| Record insertion | `src/wal/partition_wal.c` 336-377, 767-940, 1056-1073 | PostgreSQL's WAL | ExecutorFinish hook, ProcessUtility hook (COPY), `write_partition_wal_record()` |
| Demux worker | `src/worker/demux_worker.c` | WAL reader, array of writers, `last_processed_lsn` (shared), progress file | main loop, SIGTERM, `demux_flush()` |
| Partition WAL writer | `src/wal/partition_wal_writer.c` | file descriptor, segment, watermark, buffer | create, write, flush, destroy, `GetLastWrittenPartitionLSN` |
| Crash recovery | `src/wal/partition_wal.c` 274-425 | the files | `partdist_wal_redo` |
| Removal of files | `src/wal/partition_wal.c` 215-262, 951-1036 | the files, the counter | `reset_partition_wal_state()`, `cleanup_partition_wal()` |
| Metadata cache | `src/metadata_cache.c` | two shared hash tables, `metadata_generation` | `GetPartitionPrimary`, `GetNodeInfo`, `InvalidatePartdistCache` |
| Write router | `src/router/write_router.c`, `src/pg_partdist.c` | none | ExecutorStart hook, `get_primary()`, `route_write()` |
| Metadata tables | `sql/pg_partdist--1.0.sql` | `partition_map`, `node_map` | ordinary SQL |
| Directory readers | `src/wal/partition_wal.c` 1084-1278, `src/worker/demux_worker.c` 720-970, `src/wal/partition_wal_writer.c` 93-186 | none; they list and read the files without a lock | `GetLastWrittenPartitionLSN`, `verify_partition_wal()`, `check_partition_wal()`, `read_all_headers()`, `count_parwal_records()` |
| Write hooks | `src/wal/partition_wal.c` 767-940, `src/pg_partdist.c` 55-120 | three re-entrancy flags per backend | which statement writes a header, and when, relative to triggers, errors, commit and abort |
| Latency statistics | `src/worker/demux_worker.c` 338-350, 807-867 | ring buffer | sample, percentiles |
| Shard detection | `src/wal/partition_wal.c` 490-751 | per-backend caches that never expire | `IsCitusShardName`, `GetLocalCitusGroupId`, `GetCitusDistTableStatus`, `ShouldWritePartWAL` |

**How they interact.**  A DML statement passes the ExecutorStart hook (router,
which fills the metadata caches), runs, and passes the ExecutorFinish hook,
which looks into the partition cache and writes one header per relation: it
allocates an LSN under a lock, inserts the header into the WAL under
PostgreSQL's own locks and flushes it.  The demux worker is the only process
that writes the files while the server runs; it learns of a header from the WAL
alone.  The startup process writes them during crash recovery.  Backends read
the files to find the next LSN after a restart, and remove them on request.

**What is hard.**

* allocation, insertion and routing of a header are three unsynchronised steps
  of two processes, and the order of the first two may differ;
* the counter is volatile and is rebuilt from files that another process writes
  with a delay; the worker's position is not restored after a restart;
* redo must not repeat what the demux has already written, and recovery may be
  interrupted;
* a reset or clean-up unlinks files that the worker has open;
* a system call fails half-way: the buffer, the file and the watermark of a
  writer then disagree, and the worker goes on;
* directories are listed and read while files appear, grow and vanish;
* a header is written in a hook of a statement, its change becomes durable with
  the commit, and between the two lie triggers, errors and further statements;
* fixed capacities: 1024 LSN entries, 512 writers, 1024 and 64 cache entries;
* the cache reads the table without a lock and fills the entry later, while
  tables change and the generation is bumped.

**What makes it correct.**  LSNs are unique; files are strictly ascending, and
`1, 2, 3, ...` in the simple case; a published position has everything below it
on disk; recovery rebuilds the files; the demux catches up; a statement runs
only where the metadata tables allow it, and never misses its header; a writer
keeps what it accepted whatever fails, and writes it out in the end; a reader
of the directory returns what an atomic read could have returned.

## 2. Modules

| Module | Models |
|---|---|
| `PartWal` | LSN allocation, record insertion, demux worker and writers, recovery, removal of files, restarts: the composition of these parts around the node's WAL and the files |
| `MCPartWal` | symmetry sets for TLC |
| `PartitionLog` | abstract specification: what the partition WAL promises one client, whatever crashes |
| `PartWalProofs` | proofs of `TypeOK`, with the control invariant of backends, recovery and open files, and of `LsnUnique` |
| `PartWalDiskProofs` | proofs of `SortedOnDisk` and `PublishedIsRouted` |
| `PartWalRecoveryProofs` | proofs of what recovery restores (`RebuiltUnlessOvertaken`) and of what one client sees: `LsnNeverReused`, `RebuiltByRecovery`, `DemuxFlushComplete`, `VerifyHolds`, the refinement of `PartitionLog` |
| `Routing` | metadata cache, write router, the partition-cache branch of `ShouldWritePartWAL` |
| `MCRouting` | symmetry sets for TLC |
| `MonotoneLog` | abstract specification: what the log of one partition promises |
| `PartitionWalWriter` | the writer of one partition with the worker around it, one step per system call, any of which may fail; implements `MonotoneLog` |
| `PartitionWalWriterProofs` | proofs of the invariants of the writer and of its refinement of `MonotoneLog` |
| `ParwalScan` | the functions that read a partition's directory, one step per file |
| `ParwalScanProofs` | proofs of what these functions return |
| `WriteHooks` | a backend's transactions, nested statements, hooks and Citus look-ups |
| `WriteHooksProofs` | proofs of `TypeOK`, `CommittedHasHeader`, `DistributedHasHeader` |
| `RoutingProofs` | proofs of `TypeOK`, `RoutedByCurrentMap`, `RegisteredWritesLogged` |
| `BasicLemmas` | facts about division, maxima, sequences and their concatenation that the proofs cite, and induction over indices |

### PartWal

A position of the WAL is the number of records before it, so `Len(wal)` is the
insert position; a segment holds `SegSize` records.  A file is a sequence of
headers; the magic number, the flags and the byte layout are left out.

| State | Code |
|---|---|
| `wal`, `flushed`, `redoPtr` | pg_wal, `GetFlushRecPtr()`, redo pointer of the last checkpoint |
| `lsnHash` | `PartWALLSNHash` (0: no entry) |
| `parwal[p][s]` | `pg_parwal/<p>/<s>` |
| `bk[b]` | control point and local variables of a backend inside a statement or SQL function |
| `demux`, `startLSN`, `endRecPtr`, `readSeg` | worker, position of the last `XLogBeginRead`, `reader->EndRecPtr`, `reader->seg` |
| `writers[p]` | `PartitionWALWriter`; `fd = "unlinked"`: the open file has been removed from its directory |
| `lastProcessed`, `progress`, `saveCounter` | `DemuxState->last_processed_lsn`, `.demux_progress`, `save_counter` |
| `bootPtr`, `restarts` | history variables of the properties and bounds |

Backend steps end where the code releases a lock or makes a system call that
others can observe: `AllocFind` (shared lock), `AllocScan` (files, no lock),
`AllocEnter` (exclusive lock), `XLogInsert`, `XLogFlush`; a reset is
`ResetRemoveEntry`, `ResetOpenDir`, one `UnlinkFile` per file, `CloseDir`.  One
pass of the demux's loop is a read step (`DemuxOther`, `DemuxNoWriter`,
`DemuxDuplicate` or `DemuxWrite`) and `DemuxPublish`; the write and its flush
are one step, because the worker flushes after every record and no one else
writes the file (`FlushedAtTop` of `PartitionWalWriter` shows that nothing is
left in the buffer between two records while writes succeed).  Reading the
files is one step too; `ParwalScan` shows what that leaves out.
`ExecutorFinish` covers the hook for COPY too.  A statement
that writes no heap WAL takes `orig_node_lsn` from what the transaction wrote
before, or from the insert position.

An error of `InitPartitionWALDirectory` comes before the allocation and ends the
statement; it is `HookError` of `WriteHooks`.  `MaxEntries` is the number of LSNs
the hash table has room for when shared memory is used up (`AllocFull`); only
`single` has more partitions than that.

External actions stand for PostgreSQL: `WalWriterFlush`, `EndXact`,
`Checkpoint`, `CleanRestart`, `Crash` (records that were not flushed survive or
not) and `EndRecovery`.  `CleanRestart` follows the worker's `DemuxStop`, as in
a fast shutdown.

The constant `Env` switches parts of the environment on, so that each run
combines the ones its question needs; nothing else depends on it.

`PartitionLog` has three sets of LSNs per partition and the mode of the server:
the LSNs in the WAL (`inserted`), the flushed ones (`durable`) and those in the
files (`stored`), each without gaps.  `Insert` and `Store` add the next LSN,
`Flush` is for all partitions at once, `Crash` takes away some of what is not
durable, and `Recovered` waits until `stored` is `inserted`.  The refinement
mapping reads the sets off `wal`, `flushed` and `parwal`; allocation, the
demux's reading and publishing and redo's skipping are stuttering steps.  It is
a specification for one client: `NothingSkipped` and `OneClient` below.

### Routing

`partMap` and `nodeMap` are the committed tables.  A statement reads them
through the active snapshot (`snapP`, `snapN`), because SPI runs read-only
under it: the rows committed when the statement began, or when its REPEATABLE
READ transaction began (`BeginRepeatableRead`), and on top of them the rows its
own transaction has changed and not yet committed (`dirtyP`, `dirtyN`).  Both an
old row and an uncommitted one enter the shared cache as current, and stay there
after `Commit` or `Rollback`.  A READ COMMITTED transaction needs no state
before its first change of the tables: until then nothing tells its statements
from statements of their own.  `ChangeRow` keeps PostgreSQL's row locks: two
transactions never change one row at a time.

`partHash` and `nodeHash` are the caches, `gen = -1` means no entry.
`GetPartitionPrimary` is `FindPartition`, `LoadPartitionFromTable`,
`FillPartition`, and `GetNodeInfo` likewise.  `FillPartitionFull` is the error of
`HASH_ENTER`: the size given to `ShmemInitHash` is no limit, a new entry takes
what shared memory is left, so that the error may meet any new entry.

`bumped`, `settled` and `clean` are history variables.  `settled` becomes true at
a bump at which nobody has an uncommitted change and no statement that is routing
and no REPEATABLE READ transaction holds a snapshot other than the tables; the
next change of a row ends it.  `clean` marks a statement that began in a settled
state and saw no change since.  Outside of a settled state the router may decide
by any row that some transaction once saw.

### PartitionWalWriter and MonotoneLog

One partition, one worker, and system calls that fail.  `writer` is the
`PartitionWALWriter` with its buffer; `pc` is the control point of the worker:
`create` (`CreatePartitionWALWriter`), `check` (reset detection, un-stall and
duplicate filter, `demux_worker.c` 600-638), `open` (`OpenWriterSegment`),
`buffer` and `flush` (`FlushPartitionWALWriter`, one step per `write(2)`, with
`sent` records written so far), `destroy` and `exited` after SIGTERM, `redo`
while the server recovers.  `CreateFails`, `OpenFails`, `FlushFails` and
`RedoFails` are the errors of the calls, at most `MaxFailures`.  A write stops
after a whole number of records: a record has 32 bytes, which divides the block
size, and the file system takes whole blocks until it is full.  `Init` is a
worker that has started on an empty directory.

The headers' segments follow their LSNs (`FileSeg`); the headers that change
segments against that order are in `PartWal`.  A backend may insert a header
after `MaxOvertake` later ones.

`MonotoneLog` has three variables: the LSNs offered, the LSNs stored and the
last record.  What is new lies above the last record (`Store`), and the last
record may go back to one that is stored already (`Rewind`).  The refinement
mapping takes `offered` from the WAL, `stored` from the files and `last` from
`GetLastWrittenPartitionLSN`, the value the writer's creation and redo go by.
Headers that are skipped and redo that finds its header written are stuttering
steps of the abstract log.

"What is new lies above everything stored" would be a stronger promise, and the
code does not keep it.  Header 2 reaches the WAL while no worker runs and is
skipped; the buffer `1, 3, 4` is cut after two records, written again from its
beginning and cut after one, so that the file reads `1, 3, 1`; after a crash
redo takes 1 for the highest and appends 2.  The step that failed in the proof
showed it, and TLC reproduces it with a buffer of three records; a buffer of
two is too small.

### ParwalScan

A call is `OpenDir`, `ReadDir` (the listing, up to `MaxFiles` names), one step
per file (`ReadLast`, `ReadVerify`, `ReadDump`, `SkipMissing`) and `Return`;
`count_parwal_records()` has no array of names and opens each file as readdir
returns it (`CountFile`).  readdir returns for certain only the files that are
there all the time (`Listing`).  Meanwhile the writer appends and begins files,
and a clean-up or a reset removes any of them, the current one included
(`Unlink`): what the writer appends to a removed file it has open vanishes, until
a new writer creates the file again.  `StartAnew` is LSN 1 after a reset,
`Restart` a restart of the server, which writes some of the headers above the
last one on disk once more.  A file may end with part of a record.
`check_partition_wal()` and `read_all_headers()` have the same walk.  The LSNs of
a file have no gaps here; the gaps that overtaking leaves are the subject of
`PartWal`.

### WriteHooks

One backend, `me`, is modelled step by step; `OtherCommits`, `OtherRoutes`,
`BecomeWorker`, `LeaveCluster`, `Distribute`, `Undistribute` and `Restart` are
what the rest of the node can do to the state it reads.  The catalogs of Citus
change in both directions, the answers a backend has cached never.

| State | Code |
|---|---|
| `partMap`, `me.own` | committed rows of `partdist.partition_map`, rows changed by this transaction |
| `cache` | entries of `PartitionMapHash` (never removed before a restart) |
| `worker`, `distTables` | `pg_dist_local_group`, `pg_dist_partition` |
| `me.stack` | the statements under way: a trigger's statement lies on top of the one that fired it |
| `me.hook`, `me.todo` | the hook that runs, and the relations it has still to look at |
| `me.inFinish`, `inUtility`, `inRoute` | `in_partwal_finish`, `in_partwal_utility`, `in_partdist_hook` |
| `me.group`, `me.dist` | `cached_group_id`, `DistTableCache` |
| `me.unlogged` | history: changes without a header yet |

A statement is plain DML, DML planned by Citus (empty `resultRelations`, the
hook falls back to the range table), COPY, or one the hooks do not recognise
(MERGE, a SELECT with a data-modifying WITH).  Changes that must get a header
are fixed when the statement starts (`Owed`).  A crash needs no state of its
own: the header precedes the commit record in the WAL, so a transaction that
survives has its headers.

## 3. Runs

Every passing run explores its whole state space.

| Run | Instance | Shows |
|---|---|---|
| `single` | 1 backend, 3 partitions, 2 LSN entries, 2 crashes, segments of 2 records | the contract of the test-suite: `VerifyHolds`, `LsnNeverReused`, `RebuiltByRecovery`, `DemuxFlushComplete`, and the refinement `ImplementsPartitionLog`, also when the LSN table is full |
| `concurrent` | 2 backends, 2 partitions, 1 writer, 2 crashes | `LsnUnique`: look-up, scan and allocation may interleave in any way; `SortedOnDisk`; `PublishedIsRouted` and `RebuiltUnlessOvertaken` when the writer table is full |
| `restarts` | clean restarts, checkpoints, recycled segments, crashes, resets, clean-ups | `TypeOK`, `SortedOnDisk` although files vanish under the worker |
| `liveness` | `FairSpec`, 2 crashes, recycled segments, headers and `alloc_partition_lsn()` before the worker starts | `DemuxCatchesUp` |
| `routing` | 2 backends, 1 partition, 2 nodes, 2 bumps, 1 changed row, READ COMMITTED and REPEATABLE READ transactions | `TypeOK`, `RoutedByCurrentMap`, `RegisteredWritesLogged` |
| `writer` | 5 headers in 2 segments, a buffer of 3, 3 failing calls, 2 crashes, SIGTERM | `BufferHasFile`, `AcceptedKept`, `FlushedAtTop`, `AscendingUnlessCut`, the refinement `ImplementsMonotoneLog`, `BufferDrains` |
| `scan` | 3 files, 4 records, torn tails, clean-ups, resets, restarts | `LastLinearizable`, `VerifyNoFalseAlarm`, `DumpComplete`, `CountBounded` |
| `hooks` | 1 shard and 1 ordinary relation, statements nested twice | `CommittedHasHeader`, `DistributedHasHeader` |

Runs that find a disagreement between the code and its comments (the
counterexample is the shortest TLC found):

| Run | Property | What happens |
|---|---|---|
| `v_reorder` | `DemuxFlushComplete` | b1 allocates LSN 1, b2 allocates 2 and inserts first; the demux writes 2 and drops 1; `demux_flush()` returns with header 1 in no file |
| `v_reuse` | `LsnNeverReused` | the worker is stopped behind the WAL; after a clean restart header 1 is not read, LSN 1 is handed out again |
| `v_stale_fill` | `InvalidateRefreshes` | load, change, commit, invalidate, fill: the old row is stamped as current |
| `v_gap` | `RebuiltByRecovery` | the writer cannot be created for header 1, or its file cannot be opened and header 2 ends the stall; header 2 is written, and after a crash redo sees 2 on disk and skips 1 |

**Further disagreements** met while modelling, without a run of their own.  The
first three are counterexamples of TLC in instances that are not kept:

* `partition_wal_writer.c` 87-88 promises the highest `partition_lsn` recorded,
  `partition_wal.c` 410-411 that redo avoids duplicates.  `orig_node_lsn`, which
  selects the file, is read before the LSN is allocated, so LSN 2 can lie in a
  lower segment than LSN 1; redo takes 1 for the highest and appends 2 again.
  (`NoDuplicateOnDisk` of `PartWal`, with two backends, one crash and segments
  of two records.)
* `demux_worker.c` 613 says "Files deleted".  Header 2 overtakes header 1 and
  stays in the buffer after a failed write; header 1 arrives, nothing is on
  disk, and the buffer is thrown away although no file was deleted.
  (`NothingDropped` of `PartitionWalWriter`, with `MaxOvertake = 1` and one
  failure.)
* `partition_wal_writer.c` 111 stops after 256 names, in readdir's order: with
  more files in the directory the newest can be missing and the result is too
  low.  (`LastLinearizable` of `ParwalScan`, with `MaxFiles < MaxSeg`.)
* `partition_wal.c` 754-755 says the ExecutorFinish hook fires after every DML.
  MERGE is `CMD_MERGE` and a data-modifying WITH is `CMD_SELECT`: neither
  writes a header.
* `partition_wal.c` 858-860 says the utility hook covers registered partitions.
  COPY does not pass the ExecutorStart hook, and unless something else has
  filled the cache, its relation is not recognised.
* `partition_wal.c` 541 says the group is cached after the first *successful*
  look-up; a failure is cached too.  A backend that asked before the node was
  added, or before `create_distributed_table()`, writes no header for its
  distributed tables until it ends.
* `partition_wal.c` 745 says headers are skipped on the coordinator.  A backend
  that asked while the node was a worker goes on writing them.
* `metadata_cache.c` 303-333 puts the row the caller sees into the shared cache.
  After the `ROLLBACK` of the transaction that changed it, the other backends
  route by a row the tables never had, and a REPEATABLE READ transaction that
  looks a row up after an invalidation puts the old one back, until the next
  invalidation.
* the fallback to the range table also logs relations that the statement only
  reads.
* `partition_wal.c` 763-764 says `orig_node_lsn` points to the last record of
  the DML; for a statement whose trigger wrote a header it points behind that
  header.

* `partition_wal.c` 366-367 says redo rebuilds the files after a crash; a
  checkpoint does not wait for the demux, so a header before the redo pointer
  that was in no file is not rebuilt.  `single` therefore has no checkpoints,
  `restarts` has them and claims less.
* `demux_worker.c` 14-15 says the worker resumes from the progress file;
  `LoadDemuxProgress()` is never called, and a header flushed before the worker
  starts is never routed.
* `partition_wal.c` 958 says a reset makes the next allocation start at 1; a
  header in flight lands in a new file, and the next allocation returns 2.
* `metadata_cache.h` 14 says the generation is bumped on any metadata write;
  only `InvalidatePartdistCache()` bumps it, on request.
* `partition_wal.c` 754-755 says the hook fires for every DML on a registered
  relation; without `local_node_id` the router returns at once
  (`write_router.c` 109), nothing fills the cache, and no header is written.
* `write_router.c` 84-86 says every operation proceeds normally; lines 156-171
  raise an error for remote and down nodes.
* `partition_wal.c` 862-864 says headers are emitted for committed COPY data
  only; the transaction may still abort after the hook, and so may that of a
  DML statement: its headers stay.

**Bounds.**  `MaxWal` leaves room for two to five headers beside the heap
records: enough for an overtaking, a change of segments in either direction and
a record lost and reused.  Two restarts allow a crash during recovery and a
crash after a lossy restart.  Two backends race on every shared step: one of
them can hold a stale `init_lsn` while the other allocates (the proof of
`LsnUnique` covers any number).  `SegSize = 8` (no segment change) is used where segments do not
matter, 2 where they do.  In `Routing` one change suffices to make a row stale,
and two bumps to tell an entry filled before the first from one filled between
them; `routing` has two
backends on one relation, so that one changes a row while the other looks it up,
and one changed row, with one bump before or after it and another one between a
look-up and its fill.  `InitialParts` and `InitialNodes` give the relation to
this node and take the other node down, so that a change can go wrong in either
table.  The theorems cover any number of each.  In
`PartitionWalWriter` a buffer of three records is the smallest that can be cut
in two different places, so that the last record goes back; segments of four
headers let a fourth one meet a full buffer, five headers change the file, and
three failures let a failed flush be repeated and followed by a failed open.  In `ParwalScan` three
files leave one below and one above the one that is removed, and four records
let one of them have two.  In
`WriteHooks` a second level is a trigger's statement inside its statement, and
relations are independent of each other but for the list of a hook.

**Deadlock** is checked in every run but `writer` and `v_gap`: the demux or a
backend can always move.  There the system may stop: after SIGTERM the worker
exits with code 0 and nobody starts it again.

**Fairness** (`FairSpec`): weak fairness of the demux's loop, whose waits all
end after `DEMUX_SLEEP_MS`; of the worker's start, since the postmaster starts it when
recovery is finished; of redo and of the end of recovery, which the startup
process performs.  Backends, checkpoints and crashes are not fair.  The run
excludes SIGTERM: the worker exits with code 0, is not started again, and
`demux_flush()` then times out.  `FairSpec` of `PartitionWalWriter` is weak
fairness of the worker's loop alone; that at most `MaxFailures` calls fail means
that failures are transient.  `BufferDrains` excepts a worker that ends before.

## 4. Proofs

Each theorem holds for all values of the constants that satisfy the named
assumptions of its module: `SizeAssumption`, `NameAssumption` and
`FiniteAssumption` in `PartWal` (sizes are positive, `NoPart` is no partition,
backends and partitions are finite sets, at most 256 files),
`RoutingAssumption` in `Routing`, `HooksAssumption` in `WriteHooks`,
`SizeAssumption` in `PartitionWalWriter` and `ScanAssumption` in `ParwalScan`
(sizes are positive, bounds are numbers).

* `TypeCorrect` (`PartWalProofs`): `Spec => []TypeOK`.  `TypeOK` is not
  inductive; `ControlInv` adds what each backend holds at each control point
  (`BackendInv`), that nothing but redo moves during recovery (`RecoveryInv`)
  and that an open writer knows its segment (`OpenFileInv`).
* `LsnUniqueness` (`PartWalProofs`): `Spec => []LsnUnique`.  The invariant
  is `CounterInv`: the counter is above every LSN in the WAL since the last
  start and above every LSN allocated and not yet inserted.  The re-check under
  the exclusive lock (`NextLsn`) is what keeps it.
* `SortedFiles` (`PartWalDiskProofs`): `Spec => []SortedOnDisk`.  The invariant
  adds `Provenance` (a header on disk is a flushed header of its partition, in
  the file of its `orig_node_lsn`) and `WatermarkInv` (a writer's watermark is
  not below anything in its files).  With segment order and LSN order aligned
  (`SegOrdered`), the last record of the last file is the highest, so that the
  demux and redo append above everything on disk.
* `PublishedAlwaysRouted` (`PartWalDiskProofs`): `Spec => []PublishedIsRouted`.
  The invariant `RoutedInv` speaks of the reader's own position, which the
  published and the saved one follow: everything on disk, and the header each
  watermark comes from, has been read (`ReadBefore`).  A header that the demux
  drops as a duplicate is therefore on disk or lies below one of its partition
  that was read before it: it was overtaken.  `Provenance` identifies a header
  on disk with its record in the WAL.  As in the property, no files are
  removed: a reset takes away what was routed.
* `RecoveryMissesOnlyOvertaken` (`PartWalRecoveryProofs`):
  `Spec => []RebuiltUnlessOvertaken`, for any number of clients, partitions,
  writers and crashes, as long as nothing is skipped (`NothingSkipped`, below).
  Redo looks at the last LSN on disk alone, so what it
  skips may be missing; `EarlierFirst` says why it is not: no header is on disk
  before an earlier one of its partition, but for the overtaken ones.  The demux
  keeps this because it starts at the redo pointer, below which all is on disk
  (`RestartControl`, `RestoreInv`), and has routed what it has read
  (`RoutedInv`).  A header on disk must be told from another one with the same
  LSN, which two clients and a restart can produce: `HeadersDiffer`, and for it
  `OriginInv` (`orig_node_lsn` is a position of the current run of the server).
* `LsnNotReused`, `RecoveryComplete`, `FlushComplete`, `VerifyAlways`
  (`PartWalRecoveryProofs`): `LsnNeverReused`, `RebuiltByRecovery`,
  `DemuxFlushComplete` and `VerifyHolds` of one client.  `SerialInv` says that
  the headers of a partition are in the WAL in the order of their LSNs and of
  their files and that the next LSN lies above them: while the server runs
  because of the counter, after a restart because the files hold the last LSN of
  the WAL (`RestoreInv`).  Nothing is overtaken then, and the theorems follow
  from `RestoreInv` and `RoutedInv`.  For `VerifyHolds`, `DenseInv` adds that each
  LSN follows one that is in the WAL before it.  The concatenation of the files
  is a recursive function of the library; `BasicLemmas` proves that it is
  defined, and what it contains in which order (`FlattenFacts`), by induction
  over the indices of a sequence in the form of a least counterexample
  (`IndexInduction`).
* `ImplementsLog` (`PartWalRecoveryProofs`): `Spec => ImplementsPartitionLog`,
  from the same invariants, with one lemma per step that changes what the
  mapping reads: insertion, flush, append by the demux or by redo, crash, end
  of recovery.

  The hypotheses of these theorems are formulas over the constants, and `single`
  satisfies all of them.  `NothingSkipped`: no checkpoint but the one that ends
  recovery, no removal of files, no stop of the worker, no header before the
  worker starts; without it the properties are false (`v_reuse`, *Further
  disagreements*).  `OneClient`: at most one backend writes; with two of them one
  overtakes the other (`v_reorder`).  `FlushComplete` also needs room for every
  partition in the writer cache, `VerifyAlways` and `ImplementsLog` that nobody
  calls `alloc_partition_lsn()`, which leaves a gap.
* `WriterTypeCorrect`, `BufferAlwaysHasFile`, `AcceptedNeverLost`,
  `EmptyAtTheTop`, `FilesAscendUnlessCut`, `WriterImplementsLog`
  (`PartitionWalWriterProofs`).  The invariant is `WriterInv`.  `WriterControl`
  ties the control point to the writer: a header is buffered only in the open
  file of its segment.  `BufferAscends` and `WatermarkAbove` order the buffer
  below the watermark and the last record not above it.  `BufferAboveFiles` is
  the part that failures make necessary: what a failed flush leaves in the
  buffer is either stored already or above the last record, and above every
  record as long as no write was cut.  The refinement has one lemma per step
  that changes the files: an append by redo is `Store`; a `write(2)` of part of
  the buffer is `Store` when its last record is not below the last one on disk,
  and `Rewind` otherwise; all other steps leave the log alone.
  `AcceptedNeverLost` needs `ReadInOrder` too: what is in the buffer was read
  before the header the worker is at.  When header 1 makes reset detection throw
  the buffer away, everything in it has therefore overtaken header 1.
* `ScanTypeCorrect`, `CountAlwaysBounded` (`ParwalScanProofs`).  `ScanInv` says
  that the directory is ordered (`DirOrdered`) and, as long as the LSNs have not
  begun at 1 again since the call, that a record from before the call lies in a
  file from before the call (`SinceCall`), and that the number counted so far
  is the size of a set of records (`Counted`): the set has those of the call in
  the files counted and none of the files to come, so that no record is counted
  twice.
* `LastAlwaysLinearizable`, `VerifyNeverFalseAlarm`, `DumpAlwaysComplete`
  (`ParwalScanProofs`), under `MaxSeg <= MaxFiles`: the array of 256 names has
  room for every file.  Without this they are false (see *Further
  disagreements*).  `WalkInv` relates what has been read to what the directory
  holds now: the highest record of the call is in a file still to be read, or
  gone (`LastWalk`); what has been read lies below what is to be read
  (`ReadAscends`); a record of the call that is still on disk has been read or
  is to be read (`DumpWalk`); while no record is missing, a file with a later
  one is to be read or lies above those to be read (`VerifyWalk`).  The steps of the
  directory preserve it through what they have in common (`Grown`: a file grows at its
  end by later records, or vanishes), those of the reader because they leave the
  directory alone (`Walked`).
* `RoutingTypes`, `RoutedCorrectly`, `RegisteredLogged` (`RoutingProofs`).  The
  invariant says that in a settled state nothing is uncommitted, every entry of
  the current generation and every snapshot that can still become one agree with
  the tables (`Coherent`, `Good`), that answers obtained by a clean statement do too
  (`Truthful`), and that routing a registered relation leaves an entry in the
  cache (`Cached`).  `RegisteredLogged` assumes that `local_node_id` is set:
  without it routing leaves no entry.
* `HooksTypes`, `CommittedLogged`, `DistributedLogged` (`WriteHooksProofs`, from `HooksAssumption`).  The invariant is `HooksInv`:
  every change without a header is owed by a statement on the stack, and is
  still in the list of the hook when that statement's hook runs
  (`UnloggedInv`); what a statement owes stays in the cache, or stays
  distributed on a worker with no cached answer that says otherwise
  (`StatementInv`): a table cannot be undistributed under a statement, and a node
  that leaves takes away what its distributed statements owe.  `OwedRecognised`
  then says that `ShouldWritePartWAL` accepts what is owed.  The properties
  alone speak of moments without statements and say nothing about a step inside
  one.

**Only model-checked:** `DemuxCatchesUp` and `BufferDrains` need fairness, which
is out of the prover's reach.  Every other property of a passing run is a
theorem.

## 5. Not modelled

* the reading of WAL pages: NULL records, `XLogFindNextRecord`, an open segment
  that PostgreSQL overwrites after recycling it.  It depends on the byte layout
  of PostgreSQL's WAL and on its xlogreader, which is not part of the sources;
* a record torn inside its 32 bytes with records appended behind it (everything
  behind is then misaligned); `ParwalScan` has torn tails at the end of a file;
* errors of `fsync`, which the code only reports;
* in `WriteHooks`: subtransactions and EXCEPTION blocks, aliases that hide or
  imitate a shard's name, an INSERT into a partitioned root (only the root is in
  `resultRelations`), the digits of a shard's name;
* cache counters, secondaries, `GetPartitionEntry` (no caller), GUC and shared
  memory set-up, the resource manager's text callbacks, latency statistics (a
  ring that only a diagnostic function reads);
* `pg-install/`: about a thousand headers of PostgreSQL and Citus, third-party
  interfaces without behaviour of this system, and nearly all of the
  repository's lines; scripts and the Dockerfile.  Of the extension's own C
  sources more than half of the lines are mapped.

## 6. Plan

Done: `PartWal`, `Routing`, `WriteHooks`, `ParwalScan` and `PartitionWalWriter`
with their runs and proofs, the refinements of `MonotoneLog` and of
`PartitionLog` included.  Left: an atomic cache as abstract specification of
`Routing` between changes of the tables, and the reading of WAL pages once
PostgreSQL's xlogreader is part of what is modelled.

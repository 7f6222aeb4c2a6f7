-------------------------- MODULE PartWalDiskProofs --------------------------
(***************************************************************************)
(* The files of a partition are ascending as long as its headers do not    *)
(* change segments against the order of their LSNs (SortedOnDisk).         *)
(*                                                                         *)
(* The argument: a header is appended only when its LSN is above the       *)
(* watermark of the demux's writer, or above the last LSN that redo finds  *)
(* on disk.  WatermarkInv says that this is above everything in the files. *)
(* Provenance says that every header on disk is a flushed one, so that     *)
(* SegOrdered also speaks about the files: a file of a higher segment      *)
(* cannot hold anything when a header goes into a lower one.               *)
(*                                                                         *)
(* What the demux publishes is routed (PublishedIsRouted), as long as no   *)
(* file is removed.  Everything on disk, and the header every watermark    *)
(* comes from, lies at or before the demux's read position (ReadBefore), so *)
(* a header that is dropped as a duplicate was overtaken by one before it; *)
(* a header that is not dropped goes into its file, which is linked.       *)
(***************************************************************************)
EXTENDS PartWalProofs, FiniteSetTheorems

DiskInv == Provenance /\ WatermarkInv /\ SortedOnDisk

\* The flushed WAL only grows.
WalKept == /\ flushed' \in Nat /\ flushed <= flushed'
           /\ \A i \in 1..flushed : wal'[i] = wal[i]

\* SegOrdered speaks about a prefix, so it held before if it holds after.
LEMMA SegOrderedBefore ==
    ASSUME TypeOK, WalKept, NEW p \in Partition, SegOrdered(p)'
    PROVE  SegOrdered(p)
<1>1. flushed \in Nat
  BY SizeAssumption DEF TypeOK
<1>2. \A i \in 1..flushed : i \in 1..flushed' /\ wal'[i] = wal[i]
  BY <1>1 DEF WalKept
<1> QED BY <1>2 DEF SegOrdered

\* Files stay as they are or are removed.
FilesKeptOrRemoved ==
    \A p \in Partition, s \in Segment :
        parwal'[p][s] = parwal[p][s] \/ parwal'[p][s] = <<>>

LEMMA AboveDiskKept ==
    ASSUME FilesKeptOrRemoved, NEW p \in Partition, NEW last, AboveDisk(p, last)
    PROVE  \A s \in Segment : \A n \in 1..Len(parwal'[p][s]) : parwal'[p][s][n].lsn <= last
<1> TAKE s \in Segment
<1>1. CASE parwal'[p][s] = parwal[p][s]
  BY <1>1 DEF AboveDisk
<1>2. CASE parwal'[p][s] = <<>>
  BY <1>2
<1> QED BY <1>1, <1>2 DEF FilesKeptOrRemoved

\* A step that writes no file and raises no watermark.
LEMMA DiskFrame ==
    ASSUME TypeOK, DiskInv, WalKept, FilesKeptOrRemoved,
           \A p \in Partition : writers'[p].fd # "absent" =>
               writers[p].fd # "absent" /\ writers'[p].last = writers[p].last
    PROVE  DiskInv'
<1>1. flushed \in Nat
  BY SizeAssumption DEF TypeOK
<1>2. Provenance'
  <2> SUFFICES ASSUME NEW p \in Partition, NEW s \in Segment, NEW n \in 1..Len(parwal'[p][s])
               PROVE  \E i \in 1..flushed' : /\ wal'[i] = parwal'[p][s][n]
                                             /\ wal'[i].part = p
                                             /\ FileSeg(wal'[i].orig) = s
    BY DEF Provenance, FileSeg
  <2>1. parwal'[p][s] = parwal[p][s]
    BY DEF FilesKeptOrRemoved
  <2>2. PICK i \in 1..flushed : /\ wal[i] = parwal[p][s][n]
                                /\ wal[i].part = p
                                /\ FileSeg(wal[i].orig) = s
    BY <2>1 DEF DiskInv, Provenance
  <2>3. i \in 1..flushed' /\ wal'[i] = wal[i]
    BY <1>1 DEF WalKept
  <2> QED BY <2>1, <2>2, <2>3
<1>3. WatermarkInv'
  <2> SUFFICES ASSUME NEW p \in Partition, writers'[p].fd # "absent", SegOrdered(p)'
               PROVE  \A s \in Segment : \A n \in 1..Len(parwal'[p][s]) :
                          parwal'[p][s][n].lsn <= writers'[p].last
    BY DEF WatermarkInv, AboveDisk
  <2>1. AboveDisk(p, writers[p].last)
    BY SegOrderedBefore DEF DiskInv, WatermarkInv
  <2> QED BY <2>1, AboveDiskKept
<1>4. SortedOnDisk'
  <2> SUFFICES ASSUME NEW p \in Partition, SegOrdered(p)' PROVE Ascending(p)'
    BY DEF SortedOnDisk
  <2>1. Ascending(p)
    BY SegOrderedBefore DEF DiskInv, SortedOnDisk
  <2>2. \A s \in Segment : Len(parwal'[p][s]) = 0 \/ parwal'[p][s] = parwal[p][s]
    BY DEF FilesKeptOrRemoved
  <2>3. ASSUME NEW s \in Segment, NEW m \in 1..Len(parwal'[p][s]), NEW n \in 1..Len(parwal'[p][s]),
               m < n
        PROVE  parwal'[p][s][m].lsn < parwal'[p][s][n].lsn
    BY <2>1, <2>2, <2>3 DEF Ascending
  <2>4. ASSUME NEW s \in Segment, NEW t \in Segment, s < t,
               NEW m \in 1..Len(parwal'[p][s]), NEW n \in 1..Len(parwal'[p][t])
        PROVE  parwal'[p][s][m].lsn < parwal'[p][t][n].lsn
    BY <2>1, <2>2, <2>4, SMTT(30) DEF Ascending
  <2> QED BY <2>3, <2>4 DEF Ascending
<1> QED BY <1>2, <1>3, <1>4 DEF DiskInv

\* One flushed header, above everything on disk, is appended to its file.
LEMMA DiskAppend ==
    ASSUME TypeOK, DiskInv, wal' = wal, flushed' = flushed,
           NEW i \in 1..flushed, NEW p \in Partition, wal[i].part = p,
           parwal' = [parwal EXCEPT ![p][FileSeg(wal[i].orig)] = Append(@, wal[i])],
           SegOrdered(p) => \A s \in Segment : \A n \in 1..Len(parwal[p][s]) :
                                parwal[p][s][n].lsn < wal[i].lsn
    PROVE  /\ Provenance' /\ SortedOnDisk'
           /\ SegOrdered(p) => \A s \in Segment : \A n \in 1..Len(parwal'[p][s]) :
                                   parwal'[p][s][n].lsn <= wal[i].lsn
           /\ \A q \in Partition \ {p} : parwal'[q] = parwal[q]
<1> DEFINE r == wal[i]
           f == FileSeg(r.orig)
<1>1. /\ flushed \in Nat /\ i \in 1..Len(wal)
      /\ parwal \in [Partition -> [Segment -> Seq(Header)]]
  BY SizeAssumption DEF TypeOK
<1>2. r.part # NoPart
  BY NameAssumption
<1>3. r \in Header /\ r.lsn \in Nat /\ f \in Segment
  BY <1>1, <1>2, NextRecordType
<1>4. /\ \A q \in Partition \ {p} : parwal'[q] = parwal[q]
      /\ \A s \in Segment \ {f} : parwal'[p][s] = parwal[p][s]
      /\ parwal'[p][f] = Append(parwal[p][f], r)
  <2> HIDE DEF r, f
  <2>1. parwal' = [parwal EXCEPT ![p][f] = Append(parwal[p][f], r)]
    BY DEF r, f
  <2> QED BY <2>1, <1>1, <1>3
<1>5. parwal[p][f] \in Seq(Header)
  BY <1>1, <1>3
<1> DEFINE len == Len(parwal[p][f])
<1>6. /\ len \in Nat /\ Len(parwal'[p][f]) = len + 1
      /\ parwal'[p][f][len + 1] = r
      /\ \A n \in 1..len : parwal'[p][f][n] = parwal[p][f][n]
  BY <1>3, <1>4, <1>5
\* A header of the new files is an old one or the appended one.
<1>7. ASSUME NEW s \in Segment, NEW n \in 1..Len(parwal'[p][s])
      PROVE  \/ n \in 1..Len(parwal[p][s]) /\ parwal'[p][s][n] = parwal[p][s][n]
             \/ s = f /\ n = len + 1 /\ parwal'[p][s][n] = r
  <2>1. CASE s = f
    BY <2>1, <1>6, <1>7
  <2>2. CASE s # f
    BY <2>2, <1>4, <1>7
  <2> QED BY <2>1, <2>2
<1>8. Provenance'
  <2> SUFFICES ASSUME NEW q \in Partition, NEW s \in Segment, NEW n \in 1..Len(parwal'[q][s])
               PROVE  \E j \in 1..flushed : /\ wal[j] = parwal'[q][s][n]
                                            /\ wal[j].part = q
                                            /\ FileSeg(wal[j].orig) = s
    BY DEF Provenance
  <2>1. CASE n \in 1..Len(parwal[q][s]) /\ parwal'[q][s][n] = parwal[q][s][n]
    BY <2>1 DEF DiskInv, Provenance
  <2>2. CASE q = p /\ s = f /\ parwal'[q][s][n] = r
    BY <2>2
  <2>3. CASE q # p
    BY <2>1, <2>3, <1>4
  <2> QED BY <2>1, <2>2, <2>3, <1>7
<1> HIDE DEF len
<1>9. ASSUME SegOrdered(p), NEW s \in Segment, NEW n \in 1..Len(parwal'[p][s])
      PROVE  parwal'[p][s][n].lsn <= r.lsn
  <2>1. CASE n \in 1..Len(parwal[p][s]) /\ parwal'[p][s][n] = parwal[p][s][n]
    <3>1. parwal[p][s][n] \in Header
      BY <2>1, <1>1
    <3>2. parwal[p][s][n].lsn \in Nat
      BY <3>1 DEF Header
    <3> QED BY <3>2, <2>1, <1>3, <1>9
  <2>2. CASE parwal'[p][s][n] = r
    BY <2>2, <1>3
  <2> QED BY <2>1, <2>2, <1>7
<1>10. ASSUME SegOrdered(p) PROVE Ascending(p)'
  <2>1. Ascending(p)
    BY <1>10 DEF DiskInv, SortedOnDisk
  <2>2. ASSUME NEW s \in Segment, NEW m \in 1..Len(parwal'[p][s]), NEW n \in 1..Len(parwal'[p][s]),
               m < n
        PROVE  parwal'[p][s][m].lsn < parwal'[p][s][n].lsn
    <3>1. m \in 1..Len(parwal[p][s]) /\ parwal'[p][s][m] = parwal[p][s][m]
      <4>1. CASE s = f
        <5>1. m \in 1..len
          BY <4>1, <2>2, <1>6
        <5> QED BY <5>1, <4>1, <1>6 DEF len
      <4>2. CASE s # f
        BY <4>2, <2>2, <1>4
      <4> QED BY <4>1, <4>2
    <3>2. CASE n \in 1..Len(parwal[p][s]) /\ parwal'[p][s][n] = parwal[p][s][n]
      BY <3>1, <3>2, <2>1, <2>2 DEF Ascending
    <3>3. CASE parwal'[p][s][n] = r
      BY <3>1, <3>3, <1>10
    <3> QED BY <3>2, <3>3, <1>7
  <2>3. ASSUME NEW s \in Segment, NEW t \in Segment, s < t,
               NEW m \in 1..Len(parwal'[p][s]), NEW n \in 1..Len(parwal'[p][t])
        PROVE  parwal'[p][s][m].lsn < parwal'[p][t][n].lsn
    <3>0. s # t
      BY <2>3, FileSegType DEF Segment
    <3>1. CASE m \in 1..Len(parwal[p][s]) /\ parwal'[p][s][m] = parwal[p][s][m]
      <4>1. CASE n \in 1..Len(parwal[p][t]) /\ parwal'[p][t][n] = parwal[p][t][n]
        BY <4>1, <3>1, <2>1, <2>3 DEF Ascending
      <4>2. CASE parwal'[p][t][n] = r
        BY <4>2, <3>1, <1>10
      <4> QED BY <4>1, <4>2, <1>7
    <3>2. CASE s = f /\ parwal'[p][s][m] = r
      <4>1. n \in 1..Len(parwal[p][t]) /\ parwal'[p][t][n] = parwal[p][t][n]
        BY <3>0, <3>2, <2>3, <1>7
      <4>2. PICK j \in 1..flushed : /\ wal[j] = parwal[p][t][n]
                                    /\ wal[j].part = p
                                    /\ FileSeg(wal[j].orig) = t
        BY <4>1 DEF DiskInv, Provenance
      <4>3. r.lsn < wal[j].lsn
        BY <4>2, <3>2, <2>3, <1>10 DEF SegOrdered
      <4> QED BY <4>1, <4>2, <4>3, <3>2
    <3> QED BY <3>1, <3>2, <1>7
  <2> QED BY <2>2, <2>3 DEF Ascending
<1>11. SortedOnDisk'
  <2> SUFFICES ASSUME NEW q \in Partition, SegOrdered(q)' PROVE Ascending(q)'
    BY DEF SortedOnDisk
  <2>1. SegOrdered(q)
    BY DEF SegOrdered
  <2>2. CASE q = p
    BY <2>1, <2>2, <1>10
  <2>3. CASE q # p
    <3>1. Ascending(q) /\ parwal'[q] = parwal[q]
      BY <2>1, <2>3, <1>4 DEF DiskInv, SortedOnDisk
    <3> QED BY <3>1 DEF Ascending
  <2> QED BY <2>2, <2>3
<1> QED BY <1>4, <1>8, <1>9, <1>11

LEMMA DiskInit == Init => DiskInv
<1> SUFFICES ASSUME Init PROVE DiskInv
  OBVIOUS
<1>1. \A p \in Partition : writers[p].fd = "absent"
  BY DEF Init, NoWriter
<1>2. \A p \in Partition, s \in Segment : parwal[p][s] = <<>>
  BY DEF Init, NoFiles
<1>3. Provenance
  BY <1>2 DEF Provenance
<1>4. WatermarkInv
  BY <1>1 DEF WatermarkInv
<1>5. SortedOnDisk
  BY <1>2 DEF SortedOnDisk, Ascending
<1> QED BY <1>3, <1>4, <1>5 DEF DiskInv

\* Backends append to the WAL and flush it, or remove files.
LEMMA BackendKeeps ==
    ASSUME ControlInv, NEW b \in Backend, BackendStep(b)
    PROVE  /\ WalKept
           /\ (parwal' = parwal /\ UNCHANGED demuxVars) \/ \E s \in Segment : UnlinkFile(b, s)
<1>a. TypeOK /\ BackendInv
  BY DEF ControlInv
<1>b. /\ wal \in Seq(WalRecord) /\ Len(wal) \in Nat /\ flushed \in Nat /\ flushed <= Len(wal)
      /\ bk[b] \in BackendState /\ bk[b].xlast \in Nat
  BY <1>a, SizeAssumption DEF TypeOK, BackendState
<1> DEFINE Kept == parwal' = parwal /\ UNCHANGED demuxVars
<1>1. ASSUME wal' = wal, flushed' = flushed PROVE WalKept
  BY <1>1, <1>b DEF WalKept
<1>2. ASSUME NEW e \in WalRecord, wal' = Append(wal, e), flushed' = flushed PROVE WalKept
  BY <1>2, <1>b DEF WalKept
<1>3. ASSUME NEW S \in SUBSET Partition, NEW logged \in BOOLEAN, ExecutorFinish(b, S, logged)
      PROVE  WalKept /\ Kept
  <2>1. /\ wal' = IF logged THEN Append(wal, Other) ELSE wal
        /\ flushed' = flushed /\ Kept
    BY <1>3 DEF ExecutorFinish
  <2>2. Other \in WalRecord
    BY DEF WalRecord
  <2> QED BY <2>1, <2>2, <1>1, <1>2
<1>4. ASSUME XLogInsert(b) PROVE WalKept /\ Kept
  <2> DEFINE e == [part |-> bk[b].part, lsn |-> bk[b].lsn, orig |-> bk[b].ptr]
  <2>1. bk[b].pc = "insert" /\ wal' = Append(wal, e) /\ flushed' = flushed /\ Kept
    BY <1>4 DEF XLogInsert
  <2>2. bk[b].part \in Partition /\ bk[b].lsn >= 1 /\ bk[b].ptr >= 1
    BY <2>1, <1>a DEF BackendInv, BackendOK
  <2>3. e \in WalRecord
    BY <2>2, <1>b, SizeAssumption DEF WalRecord, Header, BackendState
  <2> QED BY <2>1, <2>3, <1>2
<1>5. ASSUME XLogFlush(b) PROVE WalKept /\ Kept
  <2> DEFINE x == bk[b].xlast
  <2>1. flushed' = Max({flushed, x}) /\ wal' = wal /\ Kept
    BY <1>5 DEF XLogFlush
  <2>2. x \in Nat
    BY <1>b
  <2> HIDE DEF x
  <2>3. flushed' = IF flushed >= x THEN flushed ELSE x
    <3>1. flushed \in Int /\ x \in Int
      BY <2>2, <1>b
    <3> QED BY <3>1, <2>1, MaxOfTwo
  <2> QED BY <2>1, <2>2, <2>3, <1>b DEF WalKept
<1>6. ASSUME NEW s \in Segment, UnlinkFile(b, s) PROVE WalKept
  BY <1>6, <1>1 DEF UnlinkFile, walVars
<1>7. ASSUME NEW p \in Partition,
             \/ WritePartitionWALRecordSql(b, p) \/ AllocPartitionLSNSql(b, p)
             \/ AllocFind(b, p) \/ ResetRemoveEntry(b, p)
             \/ \E keep \in 1..MaxWal : CleanupOpenDir(b, p, keep)
      PROVE  WalKept /\ Kept
  <2>1. wal' = wal /\ flushed' = flushed /\ Kept
    BY <1>7 DEF WritePartitionWALRecordSql, AllocPartitionLSNSql, AllocFind, ResetRemoveEntry,
                CleanupOpenDir, walVars
  <2> QED BY <2>1, <1>1
<1>8. ASSUME \/ EndXact(b) \/ AllocScan(b) \/ AllocEnter(b) \/ AllocFull(b)
             \/ DemuxFlushCall(b) \/ DemuxFlushReturn(b) \/ DemuxFlushTimeout(b)
             \/ ResetOpenDir(b) \/ CloseDir(b)
      PROVE  WalKept /\ Kept
  <2>1. wal' = wal /\ flushed' = flushed /\ Kept
    BY <1>8 DEF EndXact, AllocScan, AllocEnter, AllocFull, DemuxFlushCall, DemuxFlushReturn,
                DemuxFlushTimeout, ResetOpenDir, CloseDir, walVars
  <2> QED BY <2>1, <1>1
<1> QED BY <1>3, <1>4, <1>5, <1>6, <1>7, <1>8 DEF BackendStep

LEMMA DiskBackend ==
    ASSUME ControlInv, DiskInv, NEW b \in Backend, BackendStep(b)
    PROVE  DiskInv'
<1>a. TypeOK /\ BackendInv /\ WalKept
  BY BackendKeeps DEF ControlInv
<1>b. parwal \in [Partition -> [Segment -> Seq(Header)]] /\ writers \in [Partition -> Writer]
  BY <1>a DEF TypeOK
<1>1. CASE parwal' = parwal /\ UNCHANGED demuxVars
  <2>1. FilesKeptOrRemoved /\ writers' = writers
    BY <1>1 DEF FilesKeptOrRemoved, demuxVars
  <2> QED BY <2>1, <1>a, DiskFrame
<1>2. ASSUME NEW s \in Segment, UnlinkFile(b, s) PROVE DiskInv'
  <2> DEFINE p == bk[b].part
  <2>1. /\ bk[b].pc = "unlink" /\ parwal' = [parwal EXCEPT ![p][s] = <<>>]
        /\ writers' = IF writers[p].fd = "linked" /\ writers[p].seg = s
                      THEN [writers EXCEPT ![p].fd = "unlinked"] ELSE writers
    BY <1>2 DEF UnlinkFile
  <2>2. p \in Partition
    BY <2>1, <1>a DEF BackendInv, BackendOK
  <2> HIDE DEF p
  <2>3. FilesKeptOrRemoved
    BY <2>1, <2>2, <1>b DEF FilesKeptOrRemoved
  <2>4. \A q \in Partition : /\ writers'[q].last = writers[q].last
                             /\ writers'[q].fd # "absent" => writers[q].fd # "absent"
    BY <2>1, <2>2, <1>b DEF Writer
  <2> QED BY <2>3, <2>4, <1>a, DiskFrame
<1> QED BY <1>1, <1>2, BackendKeeps

\* The watermark that the demux compares the next header with.
LEMMA WatermarkAbove ==
    ASSUME ControlInv, DiskInv, NEW i \in 1..Len(wal), wal[i].part # NoPart,
           SegOrdered(wal[i].part)
    PROVE  AboveDisk(wal[i].part, AfterResetDetection(WriterFor(wal[i].part), wal[i]).last)
<1> DEFINE r == wal[i]
           p == r.part
           u == WriterFor(p)
           w == AfterResetDetection(u, r)
<1>1. TypeOK /\ p \in Partition
  BY NextRecordType DEF ControlInv
<1>2. Ascending(p)
  BY <1>1 DEF DiskInv, SortedOnDisk
<1>3. AboveDisk(p, u.last)
  <2>1. CASE writers[p].fd = "absent"
    BY <2>1, <1>1, <1>2, GetLastIsGreatest DEF WriterFor
  <2>2. CASE writers[p].fd # "absent"
    BY <2>2, <1>1 DEF WriterFor, DiskInv, WatermarkInv
  <2> QED BY <2>1, <2>2
<1>4. CASE w = u
  BY <1>3, <1>4
<1>5. CASE w # u
  <2>1. GetLastWrittenPartitionLSN(p) = 0 /\ w.last = 0
    BY <1>5 DEF AfterResetDetection
  <2> QED BY <2>1, <1>1, <1>2, GetLastIsGreatest
<1> QED BY <1>4, <1>5

LEMMA DiskDemux ==
    ASSUME ControlInv, DiskInv, DemuxStart \/ DemuxLoop \/ DemuxStop
    PROVE  DiskInv'
<1>a. TypeOK
  BY DEF ControlInv
<1>b. /\ Len(wal) \in Nat /\ flushed \in Nat /\ flushed <= Len(wal) /\ endRecPtr \in Nat
      /\ parwal \in [Partition -> [Segment -> Seq(Header)]] /\ writers \in [Partition -> Writer]
  BY <1>a, SizeAssumption DEF TypeOK
<1>1. ASSUME wal' = wal, flushed' = flushed, parwal' = parwal,
             writers' = writers \/ writers' = [p \in Partition |-> NoWriter]
      PROVE  DiskInv'
  <2>1. WalKept /\ FilesKeptOrRemoved
    BY <1>1, <1>b DEF WalKept, FilesKeptOrRemoved
  <2>2. \A p \in Partition : writers'[p].fd # "absent" => writers' = writers
    BY <1>1 DEF NoWriter
  <2> QED BY <2>1, <2>2, <1>a, DiskFrame
<1>2. CASE \/ DemuxStart \/ DemuxCaughtUp \/ DemuxSegmentGone \/ DemuxOther \/ DemuxNoWriter
           \/ DemuxPublish \/ DemuxStop
  <2>1. /\ wal' = wal /\ flushed' = flushed /\ parwal' = parwal
        /\ writers' = writers \/ writers' = [p \in Partition |-> NoWriter]
    BY <1>2 DEF DemuxStart, DemuxCaughtUp, DemuxSegmentGone, DemuxOther, DemuxNoWriter,
                DemuxPublish, DemuxStop, walVars
  <2> QED BY <2>1, <1>1
<1> DEFINE i == endRecPtr + 1
           r == wal[i]
           w == AfterResetDetection(WriterFor(r.part), r)
           v == WriterAt(w, FileSeg(r.orig))
           vv == [v EXCEPT !.last = r.lsn]
<1>3. ASSUME endRecPtr < flushed, r.part # NoPart
      PROVE  /\ i \in 1..flushed /\ i \in 1..Len(wal)
             /\ r.part \in Partition /\ r.lsn \in Nat
             /\ w.last \in Nat /\ vv.last = r.lsn /\ v.seg = FileSeg(r.orig)
             /\ FileSeg(r.orig) \in Segment
             /\ SegOrdered(r.part) => AboveDisk(r.part, w.last)
  <2>1. i \in 1..flushed /\ i \in 1..Len(wal)
    BY <1>3, <1>b
  <2>2. r.part \in Partition /\ r.lsn \in Nat /\ FileSeg(r.orig) \in Segment
    BY <2>1, <1>3, <1>a, NextRecordType
  <2>3. w \in Writer /\ v \in Writer /\ v.seg = FileSeg(r.orig)
    BY <2>1, <1>3, WriterForType
  <2>4. SegOrdered(r.part) => AboveDisk(r.part, w.last)
    BY <2>1, <1>3, WatermarkAbove
  <2> HIDE DEF w, v, r, i
  <2>5. w.last \in Nat /\ vv.last = r.lsn
    BY <2>3 DEF Writer
  <2> QED BY <2>1, <2>2, <2>3, <2>4, <2>5
\* The writer of p is replaced by one whose watermark is above p's files.
<1>4. ASSUME NEW p \in Partition, NEW x, writers' = [writers EXCEPT ![p] = x],
             wal' = wal, flushed' = flushed,
             Provenance', SortedOnDisk',
             \A q \in Partition \ {p} : parwal'[q] = parwal[q],
             SegOrdered(p) => \A s \in Segment : \A n \in 1..Len(parwal'[p][s]) :
                                  parwal'[p][s][n].lsn <= x.last
      PROVE  DiskInv'
  <2>1. WatermarkInv'
    <3> SUFFICES ASSUME NEW q \in Partition, writers'[q].fd # "absent", SegOrdered(q)'
                 PROVE  \A s \in Segment : \A n \in 1..Len(parwal'[q][s]) :
                            parwal'[q][s][n].lsn <= writers'[q].last
      BY DEF WatermarkInv, AboveDisk
    <3>1. SegOrdered(q)
      BY <1>4 DEF SegOrdered
    <3>2. CASE q = p
      BY <3>1, <3>2, <1>4, <1>b
    <3>3. CASE q # p
      <4>1. writers'[q] = writers[q] /\ parwal'[q] = parwal[q]
        BY <3>3, <1>4, <1>b
      <4>2. AboveDisk(q, writers[q].last)
        BY <4>1, <3>1 DEF DiskInv, WatermarkInv
      <4> QED BY <4>1, <4>2 DEF AboveDisk
    <3> QED BY <3>2, <3>3
  <2> QED BY <2>1, <1>4 DEF DiskInv
<1>5. ASSUME wal' = wal, flushed' = flushed, parwal' = parwal PROVE Provenance' /\ SortedOnDisk'
  BY <1>5 DEF DiskInv, Provenance, SortedOnDisk, SegOrdered, Ascending
<1>6. CASE DemuxDuplicate
  <2>1. /\ endRecPtr < flushed /\ r.part # NoPart /\ writers' = [writers EXCEPT ![r.part] = w]
        /\ wal' = wal /\ flushed' = flushed /\ parwal' = parwal
    BY <1>6 DEF DemuxDuplicate, ReadNext, walVars
  <2> HIDE DEF w, r
  <2>2. SegOrdered(r.part) => \A s \in Segment : \A n \in 1..Len(parwal'[r.part][s]) :
                                  parwal'[r.part][s][n].lsn <= w.last
    BY <2>1, <1>3 DEF AboveDisk
  <2> QED BY <2>1, <2>2, <1>3, <1>4, <1>5
<1>7. CASE DemuxWrite
  <2>1. /\ endRecPtr < flushed /\ r.part # NoPart /\ writers' = [writers EXCEPT ![r.part] = vv]
        /\ r.lsn > w.last
        /\ parwal' = IF v.fd = "linked"
                     THEN [parwal EXCEPT ![r.part][v.seg] = Append(@, r)] ELSE parwal
        /\ wal' = wal /\ flushed' = flushed
    BY <1>7 DEF DemuxWrite, FlushPartitionWALWriter, ReadNext, walVars
  <2> HIDE DEF w, v, vv
  <2>2. ASSUME SegOrdered(r.part), NEW s \in Segment, NEW n \in 1..Len(parwal[r.part][s])
        PROVE  parwal[r.part][s][n].lsn < r.lsn
    <3> HIDE DEF r, i
    <3>1. parwal[r.part][s][n] \in Header
      BY <2>1, <2>2, <1>3, <1>b
    <3>2. parwal[r.part][s][n].lsn \in Nat
      BY <3>1 DEF Header
    <3>3. parwal[r.part][s][n].lsn <= w.last
      BY <2>1, <2>2, <1>3 DEF AboveDisk
    <3> QED BY <3>2, <3>3, <2>1, <1>3
  <2>3. CASE v.fd = "linked"
    <3>1. parwal' = [parwal EXCEPT ![r.part][FileSeg(r.orig)] = Append(@, r)]
      BY <2>1, <2>3, <1>3
    <3>2. /\ Provenance' /\ SortedOnDisk'
          /\ SegOrdered(r.part) => \A s \in Segment : \A n \in 1..Len(parwal'[r.part][s]) :
                                       parwal'[r.part][s][n].lsn <= r.lsn
          /\ \A q \in Partition \ {r.part} : parwal'[q] = parwal[q]
      <4>1. i \in 1..flushed /\ r.part \in Partition
        BY <2>1, <1>3
      <4> QED BY <4>1, <3>1, <2>1, <2>2, <1>a, DiskAppend
    <3> HIDE DEF r, i
    <3>3. SegOrdered(r.part) => \A s \in Segment : \A n \in 1..Len(parwal'[r.part][s]) :
                                    parwal'[r.part][s][n].lsn <= vv.last
      BY <3>2, <2>1, <1>3
    <3>4. r.part \in Partition
      BY <2>1, <1>3
    <3> QED BY <3>2, <3>3, <3>4, <2>1, <1>4
  <2>4. CASE v.fd # "linked"
    <3> HIDE DEF r, i
    <3>1. parwal' = parwal
      BY <2>1, <2>4
    <3>2. SegOrdered(r.part) => \A s \in Segment : \A n \in 1..Len(parwal'[r.part][s]) :
                                    parwal'[r.part][s][n].lsn <= vv.last
      <4> SUFFICES ASSUME SegOrdered(r.part), NEW s \in Segment,
                          NEW n \in 1..Len(parwal[r.part][s])
                   PROVE  parwal[r.part][s][n].lsn <= r.lsn
        BY <3>1, <2>1, <1>3
      <4>1. parwal[r.part][s][n] \in Header
        BY <2>1, <1>3, <1>b
      <4>2. parwal[r.part][s][n].lsn \in Nat
        BY <4>1 DEF Header
      <4> QED BY <4>2, <2>1, <2>2, <1>3
    <3> QED BY <3>1, <3>2, <2>1, <1>3, <1>4, <1>5
  <2> QED BY <2>3, <2>4
<1> QED BY <1>2, <1>6, <1>7 DEF DemuxLoop

LEMMA DiskServer ==
    ASSUME ControlInv, DiskInv, ServerStep
    PROVE  DiskInv'
<1>a. TypeOK /\ RecoveryInv
  BY DEF ControlInv
<1>b. /\ Len(wal) \in Nat /\ flushed \in Nat /\ flushed <= Len(wal) /\ replayed \in Nat
      /\ parwal \in [Partition -> [Segment -> Seq(Header)]] /\ writers \in [Partition -> Writer]
  BY <1>a, SizeAssumption DEF TypeOK
<1>1. ASSUME WalKept, parwal' = parwal,
             writers' = writers \/ writers' = [p \in Partition |-> NoWriter]
      PROVE  DiskInv'
  <2>1. FilesKeptOrRemoved
    BY <1>1 DEF FilesKeptOrRemoved
  <2>2. \A p \in Partition : writers'[p].fd # "absent" => writers' = writers
    BY <1>1 DEF NoWriter
  <2> QED BY <2>1, <2>2, <1>1, <1>a, DiskFrame
<1>2. CASE WalWriterFlush \/ Checkpoint \/ EndRecovery
  <2>1. /\ wal' = wal /\ flushed' \in {flushed, flushed + 1} /\ parwal' = parwal
        /\ writers' = writers
    BY <1>2 DEF WalWriterFlush, Checkpoint, EndRecovery, demuxVars
  <2>2. WalKept
    BY <2>1, <1>b DEF WalKept
  <2> QED BY <2>1, <2>2, <1>1
<1>3. CASE CleanRestart
  <2>1. /\ wal' = wal /\ flushed' = Len(wal) /\ parwal' = parwal
        /\ writers' = [p \in Partition |-> NoWriter]
    BY <1>3 DEF CleanRestart, LoseMemory
  <2>2. WalKept
    BY <2>1, <1>b DEF WalKept
  <2> QED BY <2>1, <2>2, <1>1
<1>4. ASSUME NEW end \in 1..MaxWal, Crash(end) PROVE DiskInv'
  <2>1. /\ end \in flushed..Len(wal) /\ wal' = SubSeq(wal, 1, end) /\ flushed' = end
        /\ parwal' = parwal /\ writers' = [p \in Partition |-> NoWriter]
    BY <1>4 DEF Crash, LoseMemory
  <2>2. \A i \in 1..end : wal'[i] = wal[i]
    BY <2>1, <1>a, TruncatedWal
  <2>3. WalKept
    BY <2>1, <2>2, <1>b DEF WalKept
  <2> QED BY <2>1, <2>3, <1>1
<1>5. CASE PartdistRedo
  <2> DEFINE i == replayed + 1
             r == wal[i]
  <2>1. /\ mode = "recover" /\ replayed < Len(wal)
        /\ parwal' = IF r.part = NoPart \/ RedoAlreadyWritten(r) THEN parwal
                     ELSE [parwal EXCEPT ![r.part][FileSeg(r.orig)] = Append(@, r)]
        /\ wal' = wal /\ flushed' = flushed /\ writers' = writers
    BY <1>5 DEF PartdistRedo, WriteHeaderToFile, demuxVars
  <2>2. i \in 1..flushed /\ i \in 1..Len(wal) /\ \A p \in Partition : writers[p].fd = "absent"
    BY <2>1, <1>a, <1>b DEF RecoveryInv
  <2>3. CASE r.part = NoPart \/ RedoAlreadyWritten(r)
    <3>1. WalKept /\ parwal' = parwal
      BY <2>1, <2>3, <1>b DEF WalKept
    <3> QED BY <3>1, <2>1, <1>1
  <2>4. CASE r.part # NoPart /\ ~RedoAlreadyWritten(r)
    <3>1. r.part \in Partition /\ r.lsn \in Nat
      BY <2>2, <2>4, <1>a, NextRecordType
    <3>2. parwal' = [parwal EXCEPT ![r.part][FileSeg(r.orig)] = Append(@, r)]
      BY <2>1, <2>4
    <3>3. ASSUME SegOrdered(r.part), NEW s \in Segment, NEW n \in 1..Len(parwal[r.part][s])
          PROVE  parwal[r.part][s][n].lsn < r.lsn
      <4> DEFINE last == GetLastWrittenPartitionLSN(r.part)
      <4>1. AboveDisk(r.part, last) /\ last \in Nat /\ ~(r.lsn <= last)
        <5>1. Ascending(r.part)
          BY <3>1, <3>3 DEF DiskInv, SortedOnDisk
        <5>2. last \in Nat
          BY <3>1, <1>a, GetLastType
        <5> QED BY <5>1, <5>2, <3>1, <2>4, <1>a, GetLastIsGreatest DEF RedoAlreadyWritten
      <4> HIDE DEF last, r, i
      <4>2. parwal[r.part][s][n] \in Header
        BY <3>1, <3>3, <1>b
      <4>3. parwal[r.part][s][n].lsn \in Nat
        BY <4>2 DEF Header
      <4>4. parwal[r.part][s][n].lsn <= last
        BY <4>1, <3>3 DEF AboveDisk
      <4> QED BY <4>1, <4>3, <4>4, <3>1
    <3>4. Provenance' /\ SortedOnDisk'
      BY <3>1, <3>2, <3>3, <2>1, <2>2, <1>a, DiskAppend
    <3>5. WatermarkInv'
      BY <2>1, <2>2 DEF WatermarkInv
    <3> QED BY <3>4, <3>5 DEF DiskInv
  <2> QED BY <2>3, <2>4
<1> QED BY <1>2, <1>3, <1>4, <1>5 DEF ServerStep

LEMMA DiskNext == ControlInv /\ DiskInv /\ [Next]_vars => DiskInv'
<1> SUFFICES ASSUME ControlInv, DiskInv, [Next]_vars PROVE DiskInv'
  OBVIOUS
<1>1. CASE \E b \in Backend : BackendStep(b)
  BY <1>1, DiskBackend
<1>2. CASE DemuxStart \/ DemuxLoop \/ DemuxStop
  BY <1>2, DiskDemux
<1>3. CASE ServerStep
  BY <1>3, DiskServer
<1>4. CASE UNCHANGED vars
  <2>1. wal' = wal /\ flushed' = flushed /\ parwal' = parwal /\ writers' = writers
    BY <1>4 DEF vars
  <2> QED BY <2>1 DEF DiskInv, Provenance, WatermarkInv, AboveDisk, SortedOnDisk, SegOrdered,
                      Ascending
<1> QED BY <1>1, <1>2, <1>3, <1>4 DEF Next

\* For every number of backends, partitions, segments, crashes and restarts:
\* as long as the headers of a partition do not change segments against the
\* order of their LSNs, the files the demux and redo leave are strictly
\* ascending in partition_lsn, without duplicates.
THEOREM SortedFiles == Spec => []SortedOnDisk
<1>1. ControlInv /\ DiskInv /\ [Next]_vars => (ControlInv /\ DiskInv)'
  BY ControlNext, DiskNext
<1>2. Spec => [](ControlInv /\ DiskInv)
  BY <1>1, ControlInit, DiskInit, PTL DEF Spec
<1>3. DiskInv => SortedOnDisk
  BY DEF DiskInv
<1> QED BY <1>2, <1>3, PTL
-----------------------------------------------------------------------------
(* What the demux publishes is routed *)

NoRemoval == Env \cap {"reset", "cleanup"} = {}

\* Files only grow, and no partition gets a writer back that it could not have.
FilesGrow ==
    \A p \in Partition, s \in Segment : Range(parwal[p][s]) \subseteq Range(parwal'[p][s])

ServedBefore == \A p \in Partition : Served(p)' => Served(p)

\* What was routed stays routed.
LEMMA RoutedKept ==
    ASSUME TypeOK, WalKept, FilesGrow, ServedBefore, startLSN' = startLSN,
           RoutedUpTo(endRecPtr), NEW i \in startLSN + 1..endRecPtr, wal'[i].part # NoPart,
           Served(wal[i].part)'
    PROVE  OnDisk(wal[i])' \/ Overtaken(i)'
<1>1. /\ flushed \in Nat /\ endRecPtr \in Nat /\ endRecPtr <= flushed /\ flushed <= Len(wal)
      /\ startLSN \in Nat /\ Len(wal) \in Nat
  BY SizeAssumption DEF TypeOK
<1>2. i \in 1..flushed /\ i \in 1..Len(wal) /\ i \in Nat
  BY <1>1
<1>3. wal'[i] = wal[i] /\ \A j \in 1..i - 1 : wal'[j] = wal[j]
  BY <1>1, <1>2 DEF WalKept
<1>4. wal[i].part \in Partition /\ FileSeg(wal[i].orig) \in Segment
  BY <1>2, <1>3, NextRecordType
<1>5. OnDisk(wal[i]) \/ Overtaken(i)
  BY <1>3, <1>4 DEF RoutedUpTo, ServedBefore
<1>6. CASE OnDisk(wal[i])
  <2>1. wal[i] \in Range(parwal'[wal[i].part][FileSeg(wal[i].orig)])
    BY <1>4, <1>6 DEF OnDisk, FilesGrow
  <2> QED BY <1>3, <2>1 DEF OnDisk
<1>7. CASE Overtaken(i)
  BY <1>3, <1>7 DEF Overtaken, SamePart
<1> QED BY <1>5, <1>6, <1>7

\* A header that has been read is found again.
LEMMA ReadBeforeKept ==
    ASSUME TypeOK, WalKept, ReadBefore, endRecPtr' \in Nat, endRecPtr <= endRecPtr',
           parwal' = parwal, \A p \in Partition : writers'[p].fd # "absent" => writers'[p] = writers[p]
    PROVE  ReadBefore'
<1>1. /\ flushed \in Nat /\ endRecPtr \in Nat /\ endRecPtr <= flushed
  BY SizeAssumption DEF TypeOK
<1>2. \A i \in 1..endRecPtr : i \in 1..endRecPtr' /\ wal'[i] = wal[i]
  BY <1>1 DEF WalKept
<1>3. ASSUME NEW p \in Partition, NEW s \in Segment, NEW n \in 1..Len(parwal[p][s])
      PROVE  \E i \in 1..endRecPtr' : wal'[i] = parwal[p][s][n] /\ wal'[i].part = p
  <2>1. PICK i \in 1..endRecPtr : wal[i] = parwal[p][s][n] /\ wal[i].part = p
    BY DEF ReadBefore
  <2>2. i \in 1..endRecPtr' /\ wal'[i] = wal[i]
    BY <1>2
  <2> QED BY <2>1, <2>2
<1>4. ASSUME NEW p \in Partition, writers'[p].fd # "absent", writers'[p].last # 0
      PROVE  \E i \in 1..endRecPtr' : wal'[i].part = p /\ wal'[i].lsn = writers'[p].last
  <2>1. writers'[p] = writers[p]
    BY <1>4
  <2>2. PICK i \in 1..endRecPtr : wal[i].part = p /\ wal[i].lsn = writers[p].last
    BY <1>4, <2>1 DEF ReadBefore
  <2>3. i \in 1..endRecPtr' /\ wal'[i] = wal[i]
    BY <1>2
  <2> QED BY <2>1, <2>2, <2>3
<1> QED BY <1>3, <1>4 DEF ReadBefore

\* A step that writes no file and does not read.
LEMMA RoutedFrame ==
    ASSUME TypeOK, WalKept, RoutedInv, NothingUnlinked', parwal' = parwal, ServedBefore,
           \A p \in Partition : writers'[p].fd # "absent" => writers'[p] = writers[p],
           demux' = "down" <=> demux = "down", startLSN' = startLSN, endRecPtr' = endRecPtr,
           progress <= endRecPtr => progress' <= endRecPtr
    PROVE  RoutedInv'
<1> SUFFICES ASSUME NoRemoval PROVE RoutedInv'
  BY DEF RoutedInv, NoRemoval
<1>1. endRecPtr \in Nat /\ endRecPtr <= endRecPtr
  BY SizeAssumption DEF TypeOK
<1>2. FilesGrow
  BY DEF FilesGrow
<1>3. ASSUME demux # "down" PROVE progress <= endRecPtr /\ ReadBefore /\ RoutedUpTo(endRecPtr)
  BY <1>3 DEF RoutedInv, NoRemoval
<1>4. ASSUME demux # "down" PROVE ReadBefore' /\ RoutedUpTo(endRecPtr)'
  <2>1. ReadBefore'
    BY <1>1, <1>3, <1>4, ReadBeforeKept
  <2>2. RoutedUpTo(endRecPtr)'
    BY <1>2, <1>3, <1>4, RoutedKept DEF RoutedUpTo
  <2> QED BY <2>1, <2>2
<1>5. demux' = "down" => \A p \in Partition : writers'[p].fd = "absent"
  BY DEF RoutedInv, NoRemoval
<1> QED BY <1>3, <1>4, <1>5 DEF RoutedInv, NoRemoval

\* Without removals no backend begins one.
LEMMA NoRemovalBackend ==
    ASSUME ControlInv, NoRemoval, NothingUnlinked, NEW b \in Backend, BackendStep(b)
    PROVE  bk' \in [Backend -> BackendState] => NothingUnlinked' /\ parwal' = parwal /\ UNCHANGED demuxVars
<1> SUFFICES ASSUME bk' \in [Backend -> BackendState]
             PROVE  NothingUnlinked' /\ parwal' = parwal /\ UNCHANGED demuxVars
  OBVIOUS
<1>1. bk \in [Backend -> BackendState] /\ bk[b].pc \notin {"opendir", "unlink"}
  BY DEF ControlInv, TypeOK, NothingUnlinked
<1>2. parwal' = parwal /\ UNCHANGED demuxVars
  BY <1>1, BackendKeeps DEF UnlinkFile
<1>3. writers' = writers
  BY <1>2 DEF demuxVars
<1> DEFINE Quiet == (\A c \in Backend \ {b} : bk'[c] = bk[c]) /\ bk'[b].pc \notin {"opendir", "unlink"}
<1>4. ASSUME NEW S \in SUBSET Partition, NEW logged \in BOOLEAN, ExecutorFinish(b, S, logged)
      PROVE  Quiet
  BY <1>1, <1>4 DEF ExecutorFinish, BackendState
<1>5. ASSUME NEW p \in Partition, WritePartitionWALRecordSql(b, p) \/ AllocPartitionLSNSql(b, p)
      PROVE  Quiet
  <2>1. CASE WritePartitionWALRecordSql(b, p)
    BY <1>1, <2>1 DEF WritePartitionWALRecordSql, BackendState
  <2>2. CASE AllocPartitionLSNSql(b, p)
    BY <1>1, <2>2 DEF AllocPartitionLSNSql, BackendState
  <2> QED BY <1>5, <2>1, <2>2
<1>6. ASSUME NEW p \in Partition, AllocFind(b, p) PROVE Quiet
  BY <1>1, <1>6 DEF AllocFind, BackendState
<1>7. ASSUME NEW p \in Partition, ResetRemoveEntry(b, p) \/ \E keep \in 1..MaxWal : CleanupOpenDir(b, p, keep)
      PROVE  FALSE
  BY <1>7 DEF ResetRemoveEntry, CleanupOpenDir, NoRemoval
<1>8. ASSUME EndXact(b) PROVE Quiet
  BY <1>1, <1>8 DEF EndXact, Idle, BackendState
<1>9. ASSUME AllocScan(b) PROVE Quiet
  BY <1>1, <1>9 DEF AllocScan, BackendState
<1>10. ASSUME AllocEnter(b) PROVE Quiet
  <2>1. CASE bk[b].op = "alloc"
    BY <1>1, <1>10, <2>1 DEF AllocEnter, IdleBackend
  <2>2. CASE bk[b].op # "alloc"
    BY <1>1, <1>10, <2>2 DEF AllocEnter, BackendState
  <2> QED BY <2>1, <2>2
<1>11. ASSUME AllocFull(b) PROVE Quiet
  BY <1>1, <1>11 DEF AllocFull, IdleBackend
<1>12. ASSUME XLogInsert(b) PROVE Quiet
  BY <1>1, <1>12 DEF XLogInsert, BackendState
<1>13. ASSUME XLogFlush(b) PROVE Quiet
  <2>1. CASE bk[b].rels = {}
    BY <1>1, <1>13, <2>1 DEF XLogFlush, IdleBackend
  <2>2. CASE bk[b].rels # {}
    BY <1>1, <1>13, <2>2 DEF XLogFlush, BackendState
  <2> QED BY <2>1, <2>2
<1>14. ASSUME DemuxFlushCall(b) PROVE Quiet
  BY <1>1, <1>14 DEF DemuxFlushCall, BackendState
<1>15. ASSUME DemuxFlushReturn(b) \/ DemuxFlushTimeout(b) PROVE Quiet
  BY <1>1, <1>15 DEF DemuxFlushReturn, DemuxFlushTimeout, IdleBackend
<1>16. ASSUME ResetOpenDir(b) \/ CloseDir(b) \/ \E s \in Segment : UnlinkFile(b, s) PROVE FALSE
  BY <1>1, <1>16 DEF ResetOpenDir, CloseDir, UnlinkFile
<1> HIDE DEF Quiet
<1>17. Quiet
  BY <1>4, <1>5, <1>6, <1>7, <1>8, <1>9, <1>10, <1>11, <1>12, <1>13, <1>14, <1>15, <1>16
     DEF BackendStep
<1> QED BY <1>2, <1>3, <1>17 DEF Quiet, NothingUnlinked

LEMMA RoutedBackend ==
    ASSUME ControlInv, ControlInv', RoutedInv, NEW b \in Backend, BackendStep(b)
    PROVE  RoutedInv'
<1> SUFFICES ASSUME NoRemoval PROVE RoutedInv'
  BY DEF RoutedInv, NoRemoval
<1>1. NothingUnlinked
  BY DEF RoutedInv, NoRemoval
<1>2. bk' \in [Backend -> BackendState] /\ TypeOK /\ WalKept
  BY BackendKeeps DEF ControlInv, TypeOK
<1>3. NothingUnlinked' /\ parwal' = parwal /\ UNCHANGED demuxVars
  BY <1>1, <1>2, NoRemovalBackend
<1>4. /\ writers' = writers /\ demux' = demux /\ startLSN' = startLSN /\ endRecPtr' = endRecPtr
      /\ progress' = progress
  BY <1>3 DEF demuxVars
<1>5. ServedBefore
  BY <1>4 DEF ServedBefore, Served, CanWrite, NumWriters
<1> QED BY <1>2, <1>3, <1>4, <1>5, RoutedFrame

\* The scan finds the LSN of a header on disk.
LEMMA GetLastOnDisk ==
    ASSUME TypeOK, NEW p \in Partition, GetLastWrittenPartitionLSN(p) # 0
    PROVE  \E s \in Segment : \E n \in 1..Len(parwal[p][s]) :
               parwal[p][s][n].lsn = GetLastWrittenPartitionLSN(p)
<1> DEFINE files == FilesOf(p)
           f == parwal[p][Max(files)]
<1>1. files \in SUBSET Segment
  BY DEF FilesOf
<1>2. files # {}
  BY DEF GetLastWrittenPartitionLSN
<1>3. Max(files) \in files
  BY <1>1, <1>2, SegmentMax
<1>4. f \in Seq(Header) /\ f # <<>> /\ Max(files) \in Segment
  BY <1>1, <1>3 DEF TypeOK, FilesOf
<1>5. Len(f) \in 1..Len(f)
  BY <1>4
<1>6. GetLastWrittenPartitionLSN(p) = f[Len(f)].lsn
  BY <1>2 DEF GetLastWrittenPartitionLSN, Last
<1> QED BY <1>4, <1>5, <1>6

\* The watermark comes from a header that has been read.
LEMMA WatermarkRead ==
    ASSUME ControlInv, ReadBefore, NEW i \in 1..Len(wal), wal[i].part # NoPart,
           AfterResetDetection(WriterFor(wal[i].part), wal[i]).last # 0
    PROVE  \E j \in 1..endRecPtr :
               /\ wal[j].part = wal[i].part
               /\ wal[j].lsn = AfterResetDetection(WriterFor(wal[i].part), wal[i]).last
<1> DEFINE r == wal[i]
           p == r.part
           u == WriterFor(p)
           w == AfterResetDetection(u, r)
<1>1. TypeOK /\ p \in Partition
  BY NextRecordType DEF ControlInv
<1>2. w = u
  BY DEF AfterResetDetection
<1>3. CASE writers[p].fd = "absent"
  <2>1. u.last = GetLastWrittenPartitionLSN(p)
    BY <1>3 DEF WriterFor
  <2>2. PICK s \in Segment : \E n \in 1..Len(parwal[p][s]) :
             parwal[p][s][n].lsn = GetLastWrittenPartitionLSN(p)
    BY <1>1, <1>2, <2>1, GetLastOnDisk
  <2>3. PICK n \in 1..Len(parwal[p][s]) : parwal[p][s][n].lsn = GetLastWrittenPartitionLSN(p)
    BY <2>2
  <2>4. PICK j \in 1..endRecPtr : wal[j] = parwal[p][s][n] /\ wal[j].part = p
    BY <1>1, SMTT(30) DEF ReadBefore
  <2> QED BY <1>2, <2>1, <2>3, <2>4
<1>4. CASE writers[p].fd # "absent"
  <2>1. u = writers[p]
    BY <1>4 DEF WriterFor
  <2> QED BY <1>1, <1>2, <1>4, <2>1 DEF ReadBefore
<1> QED BY <1>3, <1>4

\* Creating a writer for a partition that may have one does not help another.
LEMMA ServedAfterWriter ==
    ASSUME TypeOK, NEW p \in Partition, NEW x, CanWrite(p), x.fd # "absent",
           writers' = [writers EXCEPT ![p] = x], demux # "exited"
    PROVE  ServedBefore
<1> DEFINE W == {q \in Partition : writers[q].fd # "absent"}
           V == {q \in Partition : writers'[q].fd # "absent"}
<1>1. writers \in [Partition -> Writer]
  BY DEF TypeOK
<1>2. \A q \in Partition : writers'[q] = IF q = p THEN x ELSE writers[q]
  BY <1>1
<1>3. W \in SUBSET V /\ V \in SUBSET Partition
  BY <1>2
<1>4. IsFiniteSet(V)
  BY <1>3, FiniteAssumption, FS_Subset DEF FiniteAssumption
<1>5. Cardinality(W) \in Nat /\ Cardinality(V) \in Nat /\ Cardinality(W) <= Cardinality(V)
  BY <1>3, <1>4, FS_Subset, FS_CardinalityType
<1>6. NumWriters = Cardinality(W) /\ NumWriters' = Cardinality(V)
  BY DEF NumWriters
<1> HIDE DEF W, V
<1>7. NumWriters' < MaxWriters => NumWriters < MaxWriters
  BY <1>5, <1>6, SizeAssumption DEF SizeAssumption
<1> SUFFICES ASSUME NEW q \in Partition, Served(q)' PROVE Served(q)
  BY DEF ServedBefore
<1>8. CASE q = p
  BY <1>8 DEF Served
<1>9. CASE q # p
  BY <1>2, <1>7, <1>9 DEF Served, CanWrite
<1> QED BY <1>8, <1>9

\* A partition that finds the writer cache full is not served.
LEMMA FullIsNotServed ==
    ASSUME TypeOK, NEW p \in Partition, writers[p].fd = "absent", NumWriters >= MaxWriters
    PROVE  ~Served(p)
<1> DEFINE W == {q \in Partition : writers[q].fd # "absent"}
<1>1. W \in SUBSET Partition /\ W # Partition
  OBVIOUS
<1>2. IsFiniteSet(Partition) /\ IsFiniteSet(W)
  BY <1>1, FiniteAssumption, FS_Subset DEF FiniteAssumption
<1>3. /\ Cardinality(W) \in Nat /\ Cardinality(Partition) \in Nat
      /\ Cardinality(W) <= Cardinality(Partition) /\ Cardinality(W) # Cardinality(Partition)
  BY <1>1, <1>2, FS_Subset, FS_CardinalityType
<1>4. NumWriters = Cardinality(W)
  BY DEF NumWriters
<1> HIDE DEF W
<1>5. ~(Cardinality(Partition) <= MaxWriters) /\ ~(NumWriters < MaxWriters)
  BY <1>3, <1>4, SizeAssumption DEF SizeAssumption
<1> QED BY <1>5 DEF Served, CanWrite

\* The header at k has been read and is in its file, was overtaken, or is of a
\* partition that is not served.
LEMMA RoutedNext ==
    ASSUME TypeOK, RoutedUpTo(endRecPtr), WalKept, FilesGrow, ServedBefore,
           startLSN' = startLSN, NEW k, k = endRecPtr + 1, endRecPtr' = k,
           wal'[k].part # NoPart /\ Served(wal[k].part)' => OnDisk(wal[k])' \/ Overtaken(k)'
    PROVE  RoutedUpTo(endRecPtr)'
<1>1. endRecPtr \in Nat /\ startLSN \in Nat
  BY SizeAssumption DEF TypeOK
<1> SUFFICES ASSUME NEW i \in startLSN + 1..k, wal'[i].part # NoPart, Served(wal[i].part)'
             PROVE  OnDisk(wal[i])' \/ Overtaken(i)'
  BY DEF RoutedUpTo
<1>2. CASE i = k
  BY <1>2
<1>3. CASE i # k
  <2>1. i \in startLSN + 1..endRecPtr
    BY <1>1, <1>3
  <2> QED BY <2>1, RoutedKept
<1> QED BY <1>2, <1>3

\* A record that is not written: of another resource manager, of a partition
\* without a writer, or below the watermark.
LEMMA RoutedSkip ==
    ASSUME ControlInv, RoutedInv, DemuxOther \/ DemuxNoWriter \/ DemuxDuplicate
    PROVE  RoutedInv'
<1> SUFFICES ASSUME NoRemoval PROVE RoutedInv'
  BY DEF RoutedInv, NoRemoval
<1> DEFINE r == wal[endRecPtr + 1]
           w == AfterResetDetection(WriterFor(r.part), r)
<1>1. TypeOK
  BY DEF ControlInv
<1>2. /\ endRecPtr \in Nat /\ flushed \in Nat /\ flushed <= Len(wal) /\ Len(wal) \in Nat
      /\ writers \in [Partition -> Writer]
  BY <1>1, SizeAssumption DEF TypeOK
<1>3. /\ demux = "read" /\ demux' = "publish" /\ endRecPtr < flushed
      /\ endRecPtr' = endRecPtr + 1 /\ startLSN' = startLSN /\ progress' = progress
      /\ wal' = wal /\ flushed' = flushed /\ parwal' = parwal /\ bk' = bk
  BY DEF DemuxOther, DemuxNoWriter, DemuxDuplicate, ReadNext, walVars
<1>4. NothingUnlinked /\ progress <= endRecPtr /\ ReadBefore /\ RoutedUpTo(endRecPtr)
  BY <1>3 DEF RoutedInv, NoRemoval
<1>5. PICK k \in 1..Len(wal) : k = endRecPtr + 1
  BY <1>2, <1>3
<1>6. WalKept /\ FilesGrow
  BY <1>2, <1>3 DEF WalKept, FilesGrow
<1>7. progress' <= endRecPtr'
  BY <1>1, <1>2, <1>3, <1>4 DEF TypeOK
<1>8. ASSUME ServedBefore, NothingUnlinked', ReadBefore',
             r.part # NoPart /\ Served(wal[k].part)' => Overtaken(k)'
      PROVE  RoutedInv'
  <2>1. wal'[k] = r
    BY <1>3, <1>5
  <2>2. RoutedUpTo(endRecPtr)'
    <3>1. wal'[k].part # NoPart /\ Served(wal[k].part)' => OnDisk(wal[k])' \/ Overtaken(k)'
      BY <1>8, <2>1
    <3>2. endRecPtr' = k
      BY <1>3, <1>5
    <3> QED BY <1>1, <1>3, <1>4, <1>5, <1>6, <1>8, <3>1, <3>2, RoutedNext
  <2> QED BY <1>3, <1>7, <1>8, <2>2 DEF RoutedInv
<1>9. endRecPtr' \in Nat /\ endRecPtr <= endRecPtr'
  BY <1>2, <1>3
<1>10. ASSUME writers' = writers PROVE ServedBefore /\ NothingUnlinked' /\ ReadBefore'
  <2>1. ServedBefore
    BY <1>3, <1>10 DEF ServedBefore, Served, CanWrite, NumWriters
  <2>2. NothingUnlinked'
    BY <1>3, <1>4, <1>10 DEF NothingUnlinked
  <2> QED BY <1>1, <1>3, <1>4, <1>6, <1>9, <1>10, <2>1, <2>2, ReadBeforeKept
<1>11. CASE DemuxOther
  <2>1. writers' = writers /\ r.part = NoPart
    BY <1>11 DEF DemuxOther
  <2> QED BY <1>8, <1>10, <2>1
<1>12. CASE DemuxNoWriter
  <2>1. writers' = writers /\ r.part # NoPart /\ writers[r.part].fd = "absent" /\ NumWriters >= MaxWriters
    BY <1>12 DEF DemuxNoWriter
  <2>2. r.part \in Partition
    BY <1>1, <1>5, <2>1, NextRecordType
  <2>3. ~Served(r.part)
    BY <1>1, <2>1, <2>2, FullIsNotServed
  <2>4. ServedBefore
    BY <1>10, <2>1
  <2>5. ~Served(wal[k].part)'
    BY <1>3, <1>5, <2>2, <2>3, <2>4 DEF ServedBefore
  <2> QED BY <1>8, <1>10, <2>1, <2>5
<1>13. CASE DemuxDuplicate
  <2>1. r.part # NoPart /\ CanWrite(r.part) /\ r.lsn <= w.last /\ writers' = [writers EXCEPT ![r.part] = w]
    BY <1>13 DEF DemuxDuplicate
  <2>2. r.part \in Partition /\ r.lsn \in Nat \ {0}
    BY <1>1, <1>5, <2>1, NextRecordType
  <2>3. w \in Writer /\ w.fd # "absent"
    BY <1>5, <2>1, WriterForType
  <2>4. w.last \in Nat
    BY <2>3 DEF Writer
  <2>5. w.last # 0
    BY <2>1, <2>2, <2>4
  <2>6. PICK j \in 1..endRecPtr : wal[j].part = r.part /\ wal[j].lsn = w.last
    BY <1>4, <1>5, <2>1, <2>5, WatermarkRead
  <2>7. w.fd # "unlinked"
    <3>1. writers[r.part].fd # "unlinked"
      BY <1>4, <2>2 DEF NothingUnlinked
    <3> QED BY <3>1 DEF AfterResetDetection, WriterFor
  <2> HIDE DEF w
  <2>8. \A q \in Partition : writers'[q] = IF q = r.part THEN w ELSE writers[q]
    BY <1>2, <2>1
  <2>9. ServedBefore
    BY <1>1, <1>3, <2>1, <2>2, <2>3, ServedAfterWriter
  <2>10. NothingUnlinked'
    BY <1>3, <1>4, <2>7, <2>8 DEF NothingUnlinked
  <2>11. ReadBefore'
    <3>1. \A i \in 1..endRecPtr : i \in 1..endRecPtr'
      BY <1>2, <1>9
    <3> HIDE DEF r
    <3> QED BY <1>3, <1>4, <2>6, <2>8, <3>1 DEF ReadBefore
  <2>12. Overtaken(k)'
    <3>1. j \in 1..k - 1 /\ k \in Nat
      BY <1>2, <1>5
    <3>2. wal[j].lsn >= wal[k].lsn
      BY <1>5, <2>1, <2>2, <2>4, <2>6
    <3> QED BY <1>3, <1>5, <2>1, <2>6, <3>1, <3>2 DEF Overtaken, SamePart
  <2> QED BY <1>8, <2>9, <2>10, <2>11, <2>12
<1> QED BY <1>11, <1>12, <1>13

\* Without removals the file a writer appends to is in its directory.
LEMMA WriterLinked ==
    ASSUME ControlInv, NothingUnlinked, NEW i \in 1..Len(wal), wal[i].part # NoPart
    PROVE  WriterAt(AfterResetDetection(WriterFor(wal[i].part), wal[i]),
                    FileSeg(wal[i].orig)).fd = "linked"
<1> DEFINE r == wal[i]
           u == WriterFor(r.part)
           w == AfterResetDetection(u, r)
           v == WriterAt(w, FileSeg(r.orig))
<1>1. r.part \in Partition
  BY NextRecordType DEF ControlInv
<1>2. v.fd \in {"linked", "unlinked"} /\ w \in Writer
  BY WriterForType
<1>3. u.fd # "unlinked"
  BY <1>1 DEF WriterFor, NothingUnlinked
<1>4. w.fd # "unlinked"
  <2> HIDE DEF u
  <2> QED BY <1>2, <1>3 DEF AfterResetDetection
<1>5. v.fd # "unlinked"
  <2> HIDE DEF w
  <2> QED BY <1>2, <1>4 DEF WriterAt, OpenWriterSegment, Writer
<1> QED BY <1>2, <1>5

\* A header is written to its file.
LEMMA RoutedWrite ==
    ASSUME ControlInv, RoutedInv, DemuxWrite
    PROVE  RoutedInv'
<1> SUFFICES ASSUME NoRemoval PROVE RoutedInv'
  BY DEF RoutedInv, NoRemoval
<1> DEFINE r == wal[endRecPtr + 1]
           u == WriterFor(r.part)
           w == AfterResetDetection(u, r)
           f == FileSeg(r.orig)
           v == WriterAt(w, f)
           x == [v EXCEPT !.last = r.lsn]
<1>1. TypeOK
  BY DEF ControlInv
<1>2. /\ endRecPtr \in Nat /\ flushed \in Nat /\ flushed <= Len(wal) /\ Len(wal) \in Nat
      /\ writers \in [Partition -> Writer]
      /\ parwal \in [Partition -> [Segment -> Seq(Header)]]
  BY <1>1, SizeAssumption DEF TypeOK
<1>3. /\ demux = "read" /\ demux' = "publish" /\ endRecPtr < flushed
      /\ endRecPtr' = endRecPtr + 1 /\ startLSN' = startLSN /\ progress' = progress
      /\ wal' = wal /\ flushed' = flushed /\ bk' = bk
      /\ r.part # NoPart /\ CanWrite(r.part) /\ writers' = [writers EXCEPT ![r.part] = x]
      /\ parwal' = FlushPartitionWALWriter(v, r)
  BY DEF DemuxWrite, ReadNext, walVars
<1>4. NothingUnlinked /\ progress <= endRecPtr /\ ReadBefore /\ RoutedUpTo(endRecPtr)
  BY <1>3 DEF RoutedInv, NoRemoval
<1>5. PICK k \in 1..Len(wal) : k = endRecPtr + 1
  BY <1>2, <1>3
<1>6. r \in Header /\ r.part \in Partition /\ r.lsn \in Nat \ {0} /\ f \in Segment
  BY <1>1, <1>3, <1>5, NextRecordType
<1>7. v \in Writer /\ v.fd \in {"linked", "unlinked"} /\ v.seg = f
  BY <1>3, <1>5, WriterForType
<1>8. v.fd = "linked"
  BY <1>3, <1>4, <1>5, WriterLinked
<1> HIDE DEF v
<1>9. x.fd = "linked" /\ x.last = r.lsn
  BY <1>7, <1>8 DEF Writer
<1>10. parwal' = [parwal EXCEPT ![r.part][f] = Append(@, r)]
  BY <1>3, <1>7, <1>8 DEF FlushPartitionWALWriter
<1> HIDE DEF x
<1>11. \A q \in Partition : writers'[q] = IF q = r.part THEN x ELSE writers[q]
  BY <1>2, <1>3
<1>12. /\ parwal'[r.part][f] = Append(parwal[r.part][f], r)
       /\ \A q \in Partition, s \in Segment :
             q # r.part \/ s # f => parwal'[q][s] = parwal[q][s]
  BY <1>2, <1>6, <1>10
<1> DEFINE old == parwal[r.part][f]
           new == parwal'[r.part][f]
<1>13. /\ Len(new) = Len(old) + 1 /\ Len(old) \in Nat
       /\ new[Len(old) + 1] = r
       /\ \A i \in 1..Len(old) : new[i] = old[i]
       /\ Range(new) = Range(old) \cup {r}
  <2>1. old \in Seq(Header)
    BY <1>2, <1>6
  <2> DEFINE Appended(a, e, c) ==
            /\ Len(c) = Len(a) + 1 /\ Len(a) \in Nat /\ c[Len(a) + 1] = e
            /\ \A i \in 1..Len(a) : c[i] = a[i]
            /\ Range(c) = Range(a) \cup {e}
  <2>2. ASSUME NEW a \in Seq(Header), NEW e \in Header PROVE Appended(a, e, Append(a, e))
    BY AppendFacts
  <2> HIDE DEF Appended
  <2>3. Appended(old, r, new)
    BY <1>6, <1>12, <2>1, <2>2
  <2> QED BY <2>3 DEF Appended
<1>14. FilesGrow
  BY <1>12, <1>13 DEF FilesGrow
<1>15. WalKept
  BY <1>2, <1>3 DEF WalKept
<1>16. ServedBefore
  BY <1>1, <1>3, <1>6, <1>9, ServedAfterWriter
<1>17. NothingUnlinked'
  BY <1>3, <1>4, <1>9, <1>11 DEF NothingUnlinked
<1>18. progress' <= endRecPtr'
  BY <1>1, <1>2, <1>3, <1>4 DEF TypeOK
<1>19. ReadBefore'
  <2>1. k \in 1..endRecPtr' /\ wal'[k] = r /\ \A i \in 1..endRecPtr : i \in 1..endRecPtr'
    BY <1>2, <1>3, <1>5
  <2>2. ASSUME NEW q \in Partition, NEW s \in Segment, NEW n \in 1..Len(parwal'[q][s])
        PROVE  \E i \in 1..endRecPtr' : wal'[i] = parwal'[q][s][n] /\ wal'[i].part = q
    <3> HIDE DEF r, f
    <3>1. CASE q # r.part \/ s # f
      BY <1>3, <1>4, <1>12, <2>1, <3>1, SMTT(30) DEF ReadBefore
    <3>2. CASE q = r.part /\ s = f /\ n \in 1..Len(old)
      <4>1. parwal'[q][s][n] = parwal[q][s][n] /\ n \in 1..Len(parwal[q][s])
        BY <1>13, <3>2
      <4>2. PICK i \in 1..endRecPtr : wal[i] = parwal[q][s][n] /\ wal[i].part = q
        BY <1>4, <4>1 DEF ReadBefore
      <4> QED BY <1>3, <2>1, <4>1, <4>2
    <3>3. CASE q = r.part /\ s = f /\ n = Len(old) + 1
      BY <1>13, <2>1, <3>3
    <3>4. q = r.part /\ s = f => n \in 1..Len(old) \/ n = Len(old) + 1
      BY <1>13
    <3> QED BY <3>1, <3>2, <3>3, <3>4
  <2>3. ASSUME NEW q \in Partition, writers'[q].fd # "absent", writers'[q].last # 0
        PROVE  \E i \in 1..endRecPtr' : wal'[i].part = q /\ wal'[i].lsn = writers'[q].last
    <3> HIDE DEF r
    <3>1. CASE q = r.part
      BY <1>9, <1>11, <2>1, <3>1
    <3>2. CASE q # r.part
      BY <1>3, <1>4, <1>11, <2>1, <2>3, <3>2 DEF ReadBefore
    <3> QED BY <3>1, <3>2
  <2> QED BY <2>2, <2>3 DEF ReadBefore
<1>20. OnDisk(wal[k])'
  <2>1. r \in Range(parwal'[r.part][f])
    BY <1>13
  <2> QED BY <1>3, <1>5, <2>1 DEF OnDisk
<1>21. RoutedUpTo(endRecPtr)'
  <2>1. endRecPtr' = k
    BY <1>3, <1>5
  <2> QED BY <1>1, <1>3, <1>4, <1>5, <1>14, <1>15, <1>16, <1>20, <2>1, RoutedNext
<1> QED BY <1>3, <1>17, <1>18, <1>19, <1>21 DEF RoutedInv

\* The other steps of the demux.
LEMMA RoutedDemux ==
    ASSUME ControlInv, DiskInv, RoutedInv, DemuxStart \/ DemuxLoop \/ DemuxStop
    PROVE  RoutedInv'
<1> SUFFICES ASSUME NoRemoval PROVE RoutedInv'
  BY DEF RoutedInv, NoRemoval
<1>1. TypeOK
  BY DEF ControlInv
<1>2. /\ endRecPtr \in Nat /\ flushed \in Nat /\ endRecPtr <= flushed /\ progress \in Nat
      /\ progress <= flushed
  BY <1>1, SizeAssumption DEF TypeOK
<1>3. NothingUnlinked
  BY DEF RoutedInv, NoRemoval
<1>4. ASSUME wal' = wal, flushed' = flushed PROVE WalKept
  BY <1>2, <1>4 DEF WalKept
<1>5. ASSUME startLSN' = flushed, endRecPtr' = flushed PROVE RoutedUpTo(endRecPtr)'
  <2>1. flushed + 1..flushed = {}
    BY <1>2
  <2> QED BY <1>5, <2>1 DEF RoutedUpTo
<1>6. CASE DemuxStart
  <2>1. /\ demux = "down" /\ demux' = "read" /\ startLSN' = flushed /\ endRecPtr' = flushed
        /\ wal' = wal /\ flushed' = flushed /\ bk' = bk /\ parwal' = parwal /\ writers' = writers
        /\ progress' = progress
    BY <1>6 DEF DemuxStart, walVars
  <2>2. \A p \in Partition : writers'[p].fd = "absent"
    BY <2>1 DEF RoutedInv, NoRemoval
  <2>3. NothingUnlinked'
    BY <1>3, <2>1 DEF NothingUnlinked
  <2>4. ReadBefore'
    BY <2>1, <2>2 DEF ReadBefore, DiskInv, Provenance
  <2> QED BY <1>2, <1>5, <2>1, <2>3, <2>4 DEF RoutedInv
<1>7. CASE DemuxSegmentGone
  <2>1. /\ demux = "read" /\ demux' = "read" /\ startLSN' = flushed /\ endRecPtr' = flushed
        /\ wal' = wal /\ flushed' = flushed /\ bk' = bk /\ parwal' = parwal /\ writers' = writers
        /\ progress' = progress
    BY <1>7 DEF DemuxSegmentGone, walVars
  <2>2. NothingUnlinked' /\ ReadBefore
    BY <1>3, <2>1 DEF NothingUnlinked, RoutedInv, NoRemoval
  <2>3. ReadBefore'
    BY <1>1, <1>2, <1>4, <2>1, <2>2, ReadBeforeKept
  <2> QED BY <1>2, <1>5, <2>1, <2>2, <2>3 DEF RoutedInv
<1>8. CASE DemuxCaughtUp \/ DemuxPublish
  <2>1. /\ demux \in {"read", "publish"} /\ demux' \in {"read", "publish"}
        /\ startLSN' = startLSN /\ endRecPtr' = endRecPtr
        /\ wal' = wal /\ flushed' = flushed /\ bk' = bk /\ parwal' = parwal /\ writers' = writers
        /\ progress' = progress \/ progress' = SafeLsn
    BY <1>8 DEF DemuxCaughtUp, DemuxPublish, walVars
  <2>2. progress <= endRecPtr => progress' <= endRecPtr
    <3>1. SafeLsn = IF endRecPtr <= flushed THEN endRecPtr ELSE flushed
      BY <1>2, MinOfTwo DEF SafeLsn
    <3> QED BY <1>2, <2>1, <3>1
  <2>3. NothingUnlinked'
    BY <1>3, <2>1 DEF NothingUnlinked
  <2>4. ServedBefore
    BY <2>1 DEF ServedBefore, Served, CanWrite, NumWriters
  <2>5. demux' = "down" <=> demux = "down"
    BY <2>1
  <2> QED BY <1>1, <1>4, <2>1, <2>2, <2>3, <2>4, <2>5, RoutedFrame
<1>9. CASE DemuxStop
  <2>1. /\ demux = "read" /\ demux' = "exited"
        /\ startLSN' = startLSN /\ endRecPtr' = endRecPtr
        /\ wal' = wal /\ flushed' = flushed /\ bk' = bk /\ parwal' = parwal
        /\ writers' = [p \in Partition |-> NoWriter] /\ progress' = SafeLsn
    BY <1>9 DEF DemuxStop, walVars
  <2>2. progress' <= endRecPtr
    <3>1. SafeLsn = IF endRecPtr <= flushed THEN endRecPtr ELSE flushed
      BY <1>2, MinOfTwo DEF SafeLsn
    <3> QED BY <1>2, <2>1, <3>1
  <2>3. \A p \in Partition : writers'[p].fd = "absent"
    BY <2>1 DEF NoWriter
  <2>4. NothingUnlinked'
    BY <1>3, <2>1, <2>3 DEF NothingUnlinked
  <2>5. ServedBefore
    BY <2>1 DEF ServedBefore, Served
  <2>6. demux' = "down" <=> demux = "down"
    BY <2>1
  <2> QED BY <1>1, <1>4, <2>1, <2>2, <2>3, <2>4, <2>5, <2>6, RoutedFrame
<1> QED BY <1>6, <1>7, <1>8, <1>9, RoutedSkip, RoutedWrite DEF DemuxLoop

\* The server: the WAL is flushed, or the demux is down.
LEMMA RoutedServer ==
    ASSUME ControlInv, RoutedInv, ServerStep
    PROVE  RoutedInv'
<1> SUFFICES ASSUME NoRemoval PROVE RoutedInv'
  BY DEF RoutedInv, NoRemoval
<1>1. TypeOK /\ RecoveryInv
  BY DEF ControlInv
<1>2. flushed \in Nat /\ NothingUnlinked
  BY <1>1, SizeAssumption DEF TypeOK, RoutedInv, NoRemoval
<1>3. CASE WalWriterFlush \/ Checkpoint \/ EndRecovery
  <2>1. /\ wal' = wal /\ flushed' \in {flushed, flushed + 1} /\ bk' = bk /\ parwal' = parwal
        /\ UNCHANGED demuxVars
    BY <1>3 DEF WalWriterFlush, Checkpoint, EndRecovery
  <2>2. /\ writers' = writers /\ demux' = demux /\ startLSN' = startLSN
        /\ endRecPtr' = endRecPtr /\ progress' = progress
    BY <2>1 DEF demuxVars
  <2>3. WalKept
    BY <1>2, <2>1 DEF WalKept
  <2>4. NothingUnlinked' /\ ServedBefore
    BY <1>2, <2>1, <2>2 DEF NothingUnlinked, ServedBefore, Served, CanWrite, NumWriters
  <2> QED BY <1>1, <2>1, <2>2, <2>3, <2>4, RoutedFrame
<1>4. CASE CleanRestart \/ \E end \in 1..MaxWal : Crash(end)
  <2>1. LoseMemory
    BY <1>4 DEF CleanRestart, Crash
  <2>2. demux' = "down" /\ \A p \in Partition : writers'[p].fd = "absent"
    BY <2>1 DEF LoseMemory, NoWriter
  <2>3. \A b \in Backend : bk'[b].pc = "idle"
    BY <2>1 DEF LoseMemory, IdleBackend
  <2> QED BY <2>2, <2>3 DEF RoutedInv, NothingUnlinked
<1>5. CASE PartdistRedo
  <2>1. mode = "recover" /\ bk' = bk /\ writers' = writers /\ demux' = demux
    BY <1>5 DEF PartdistRedo, demuxVars
  <2>2. demux = "down" /\ \A p \in Partition : writers[p].fd = "absent"
    BY <1>1, <2>1 DEF RecoveryInv
  <2> QED BY <1>2, <2>1, <2>2 DEF RoutedInv, NothingUnlinked
<1> QED BY <1>3, <1>4, <1>5 DEF ServerStep

LEMMA RoutedNextStep ==
    ASSUME ControlInv, DiskInv, RoutedInv, [Next]_vars
    PROVE  RoutedInv'
<1>1. CASE \E b \in Backend : BackendStep(b)
  <2>1. ControlInv'
    BY ControlNext
  <2> QED BY <1>1, <2>1, RoutedBackend
<1>2. CASE DemuxStart \/ DemuxLoop \/ DemuxStop
  BY <1>2, RoutedDemux
<1>3. CASE ServerStep
  BY <1>3, RoutedServer
<1>4. CASE UNCHANGED vars
  <2> SUFFICES ASSUME NoRemoval PROVE RoutedInv'
    BY DEF RoutedInv, NoRemoval
  <2>1. /\ wal' = wal /\ flushed' = flushed /\ bk' = bk /\ parwal' = parwal /\ writers' = writers
        /\ demux' = demux /\ startLSN' = startLSN /\ endRecPtr' = endRecPtr /\ progress' = progress
    BY <1>4 DEF vars
  <2>2. TypeOK /\ flushed \in Nat /\ NothingUnlinked
    BY SizeAssumption DEF ControlInv, TypeOK, RoutedInv, NoRemoval
  <2>3. WalKept /\ NothingUnlinked' /\ ServedBefore
    BY <2>1, <2>2 DEF WalKept, NothingUnlinked, ServedBefore, Served, CanWrite, NumWriters
  <2> QED BY <2>1, <2>2, <2>3, RoutedFrame
<1> QED BY <1>1, <1>2, <1>3, <1>4 DEF Next

LEMMA RoutedInit == Init => RoutedInv
BY DEF Init, RoutedInv, NothingUnlinked, IdleBackend, NoWriter

\* For every number of backends, partitions, writers and restarts: the position
\* the demux publishes, and the one it saves, never run ahead of the files.  A
\* header read since the worker last positioned itself is on disk, or an earlier
\* header of its partition overtook it, or the writer cache was full.
THEOREM PublishedAlwaysRouted == Spec => []PublishedIsRouted
<1>1. ControlInv /\ DiskInv /\ RoutedInv /\ [Next]_vars => (ControlInv /\ DiskInv /\ RoutedInv)'
  BY ControlNext, DiskNext, RoutedNextStep
<1>2. Spec => [](ControlInv /\ DiskInv /\ RoutedInv)
  BY <1>1, ControlInit, DiskInit, RoutedInit, PTL DEF Spec
<1>3. ControlInv /\ RoutedInv => PublishedIsRouted
  <2> SUFFICES ASSUME ControlInv, RoutedInv, demux # "down", Env \cap {"reset", "cleanup"} = {}
               PROVE  RoutedUpTo(lastProcessed) /\ RoutedUpTo(progress)
    BY DEF PublishedIsRouted
  <2>1. progress <= endRecPtr /\ RoutedUpTo(endRecPtr)
    BY DEF RoutedInv
  <2>2. /\ startLSN \in Nat /\ endRecPtr \in Nat /\ progress \in Nat /\ lastProcessed \in Nat
        /\ lastProcessed <= endRecPtr
    BY SizeAssumption DEF ControlInv, TypeOK
  <2>3. \A i \in startLSN + 1..lastProcessed : i \in startLSN + 1..endRecPtr
    BY <2>2
  <2>4. \A i \in startLSN + 1..progress : i \in startLSN + 1..endRecPtr
    BY <2>1, <2>2
  <2> QED BY <2>1, <2>3, <2>4 DEF RoutedUpTo
<1> QED BY <1>2, <1>3, PTL
=============================================================================

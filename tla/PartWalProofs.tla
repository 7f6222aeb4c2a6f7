--------------------------- MODULE PartWalProofs ---------------------------
(***************************************************************************)
(* Proofs about PartWal, for every set of backends and partitions, every   *)
(* segment size and every bound.                                           *)
(***************************************************************************)
EXTENDS PartWal, BasicLemmas

(***************************************************************************)
(* Positions and segments                                                  *)
(***************************************************************************)

\* A quotient is not greater than the dividend.
LEMMA DivAtMost ==
    ASSUME NEW d \in Nat \ {0}, NEW a \in Nat
    PROVE  a \div d <= a
<1> DEFINE x == a \div d
<1>1. x \in Nat
  BY DivMonotone
<1>2. d * x <= a
  BY SMT
<1> HIDE DEF x
<1>3. x <= d * x
  BY <1>1, SMT
<1>4. d * x \in Int
  BY <1>1, SMT
<1> QED BY <1>1, <1>2, <1>3, <1>4 DEF x

\* Every position of the WAL belongs to a file.
LEMMA FileSegType ==
    /\ FileSeg(MaxWal) \in Nat \ {0}
    /\ \A ptr \in 1..MaxWal : FileSeg(ptr) \in Segment
<1>1. /\ SegSize \in Nat \ {0}
      /\ MaxWal \in Nat
  BY SizeAssumption
<1>2. MaxWal \div SegSize \in Nat
  BY <1>1, DivMonotone
<1>3. FileSeg(MaxWal) \in Nat \ {0}
  BY <1>2 DEF FileSeg
<1>4. ASSUME NEW ptr \in 1..MaxWal PROVE FileSeg(ptr) \in Segment
  <2>1. ptr \div SegSize \in Nat /\ ptr \div SegSize <= MaxWal \div SegSize
    BY <1>1, <1>4, DivMonotone
  <2>2. FileSeg(ptr) >= 1 /\ FileSeg(ptr) <= FileSeg(MaxWal) /\ FileSeg(ptr) \in Nat
    BY <2>1, <1>1, <1>2 DEF FileSeg
  <2> QED BY <2>2, <1>3 DEF Segment
<1> QED BY <1>3, <1>4

\* A non-empty set of segments has a greatest element.
LEMMA SegmentMax ==
    ASSUME NEW S \in SUBSET Segment, S # {}
    PROVE  Max(S) \in S /\ \A s \in S : s <= Max(S)
<1>1. FileSeg(MaxWal) \in Nat
  BY FileSegType
<1>2. S \in SUBSET (0..FileSeg(MaxWal))
  BY <1>1 DEF Segment
<1> QED BY <1>1, <1>2, MaxFacts

\* The greater and the smaller of two positions.
LEMMA MaxOfTwo ==
    ASSUME NEW a \in Int, NEW b \in Int
    PROVE  Max({a, b}) = IF a >= b THEN a ELSE b
BY DEF Max

LEMMA MinOfTwo ==
    ASSUME NEW a \in Int, NEW b \in Int
    PROVE  Min({a, b}) = IF a <= b THEN a ELSE b
BY DEF Min

(***************************************************************************)
(* Reading the files                                                       *)
(***************************************************************************)

\* The scan returns a natural number, and 0 only when there is no record.
LEMMA GetLastType ==
    ASSUME TypeOK, NEW p \in Partition
    PROVE  /\ GetLastWrittenPartitionLSN(p) \in Nat
           /\ GetLastWrittenPartitionLSN(p) = 0 => \A s \in Segment : parwal[p][s] = <<>>
<1> DEFINE files == FilesOf(p)
<1>1. files \in SUBSET Segment
  BY DEF FilesOf
<1>2. CASE files = {}
  BY <1>2 DEF GetLastWrittenPartitionLSN, FilesOf
<1>3. CASE files # {}
  <2> DEFINE f == parwal[p][Max(files)]
  <2>1. Max(files) \in files
    BY <1>1, <1>3, SegmentMax
  <2>2. f \in Seq(Header) /\ f # <<>>
    BY <2>1, <1>1 DEF TypeOK, FilesOf
  <2>3. f[Len(f)] \in Header
    BY <2>2
  <2>4. Last(f).lsn \in Nat \ {0}
    BY <2>3 DEF Last, Header
  <2>5. GetLastWrittenPartitionLSN(p) = Last(f).lsn
    BY <1>3 DEF GetLastWrittenPartitionLSN
  <2> QED BY <2>4, <2>5
<1> QED BY <1>2, <1>3

\* In ascending files it is the greatest LSN of the partition.
LEMMA GetLastIsGreatest ==
    ASSUME TypeOK, NEW p \in Partition, Ascending(p)
    PROVE  AboveDisk(p, GetLastWrittenPartitionLSN(p))
<1> DEFINE files == FilesOf(p)
           f == parwal[p][Max(files)]
<1> SUFFICES ASSUME NEW s \in Segment, NEW n \in 1..Len(parwal[p][s])
             PROVE  parwal[p][s][n].lsn <= GetLastWrittenPartitionLSN(p)
  BY DEF AboveDisk
<1>1. files \in SUBSET Segment
  BY DEF FilesOf
<1>2. parwal[p][s] \in Seq(Header)
  BY DEF TypeOK
<1>3. s \in files
  BY <1>2 DEF FilesOf
<1>4. Max(files) \in files /\ s <= Max(files)
  BY <1>1, <1>3, SegmentMax
<1>5. f \in Seq(Header) /\ f # <<>> /\ Max(files) \in Segment
  BY <1>4, <1>1 DEF TypeOK, FilesOf
<1>6. Len(f) \in 1..Len(f) /\ f[Len(f)] \in Header
  BY <1>5
<1>7. GetLastWrittenPartitionLSN(p) = f[Len(f)].lsn
  BY <1>3 DEF GetLastWrittenPartitionLSN, Last
<1>8. parwal[p][s][n] \in Header
  BY <1>2
<1>9. parwal[p][s][n].lsn \in Nat /\ f[Len(f)].lsn \in Nat
  BY <1>6, <1>8 DEF Header
<1>10. CASE s = Max(files)
  BY <1>10, <1>2, <1>5, <1>6, <1>7, <1>9 DEF Ascending
<1>11. CASE s < Max(files)
  BY <1>11, <1>5, <1>6, <1>7, <1>9, SMTT(30) DEF Ascending
<1>12. s \in Int /\ Max(files) \in Int
  BY <1>5, FileSegType DEF Segment
<1> QED BY <1>4, <1>10, <1>11, <1>12

(***************************************************************************)
(* ControlInv                                                              *)
(***************************************************************************)

LEMMA ControlInit == Init => ControlInv
<1> SUFFICES ASSUME Init PROVE ControlInv
  OBVIOUS
<1>1. wal \in Seq(WalRecord) /\ Len(wal) = SegSize
  BY SizeAssumption DEF Init, WalRecord, Other
<1>2. IdleBackend \in BackendState
  BY SizeAssumption DEF IdleBackend, BackendState
<1>3. NoWriter \in Writer /\ NoFiles \in [Segment -> Seq(Header)]
  BY DEF NoWriter, Writer, NoFiles
<1>4. TypeOK
  BY <1>1, <1>2, <1>3, SizeAssumption DEF Init, TypeOK
<1>5. BackendInv /\ RecoveryInv /\ OpenFileInv
  BY <1>1, SizeAssumption DEF Init, BackendInv, BackendOK, RecoveryInv, OpenFileInv,
                              IdleBackend, NoWriter
<1> QED BY <1>4, <1>5 DEF ControlInv

\* A step of backend b that leaves it in the state r and appends to the WAL at most.
LEMMA BackendFrame ==
    ASSUME ControlInv, NEW b \in Backend, NEW r \in BackendState,
           bk' = [bk EXCEPT ![b] = r], BackendOK(r, Len(wal')),
           Len(wal') \in Nat, Len(wal) <= Len(wal')
    PROVE  bk' \in [Backend -> BackendState] /\ BackendInv'
<1>1. TypeOK /\ BackendInv
  BY DEF ControlInv
<1>2. bk \in [Backend -> BackendState] /\ Len(wal) \in Nat
  BY <1>1, SizeAssumption DEF TypeOK
<1>3. bk' \in [Backend -> BackendState]
  BY <1>2
<1>4. ASSUME NEW c \in Backend PROVE BackendOK(bk'[c], Len(wal'))
  <2>1. CASE c = b
    <3>1. bk'[c] = r
      BY <2>1, <1>2
    <3> QED BY <3>1 DEF BackendOK
  <2>2. CASE c # b
    <3>1. bk'[c] = bk[c] /\ bk[c] \in BackendState /\ BackendOK(bk[c], Len(wal))
      BY <2>2, <1>1, <1>2 DEF BackendInv
    <3>2. bk[c].xlast \in Nat
      BY <3>1, SizeAssumption DEF BackendState
    <3> QED BY <3>1, <3>2, <1>2 DEF BackendOK
  <2> QED BY <2>1, <2>2
<1> QED BY <1>3, <1>4 DEF BackendInv

\* A step of backend b that changes nothing else but the LSN table.
LEMMA BackendOnly ==
    ASSUME ControlInv, NEW b \in Backend, NEW r \in BackendState,
           bk' = [bk EXCEPT ![b] = r], BackendOK(r, Len(wal)), mode = "run",
           UNCHANGED <<walVars, parwal, demuxVars, bootPtr, restarts>>,
           lsnHash' \in [Partition -> Nat]
    PROVE  ControlInv'
<1>1. /\ wal' = wal /\ flushed' = flushed /\ redoPtr' = redoPtr /\ mode' = mode
      /\ replayed' = replayed /\ parwal' = parwal /\ demux' = demux /\ startLSN' = startLSN
      /\ endRecPtr' = endRecPtr /\ readSeg' = readSeg /\ writers' = writers
      /\ lastProcessed' = lastProcessed /\ saveCounter' = saveCounter /\ progress' = progress
      /\ bootPtr' = bootPtr /\ restarts' = restarts
  BY DEF walVars, demuxVars
<1>2. TypeOK /\ OpenFileInv
  BY DEF ControlInv
<1>3. Len(wal') \in Nat /\ Len(wal) <= Len(wal')
  BY <1>1, <1>2, SizeAssumption DEF TypeOK
<1>4. BackendOK(r, Len(wal'))
  BY <1>1
<1>5. bk' \in [Backend -> BackendState] /\ BackendInv'
  BY <1>1, <1>3, <1>4, BackendFrame
<1>6. TypeOK'
  BY <1>1, <1>2, <1>5 DEF TypeOK
<1>7. RecoveryInv' /\ OpenFileInv'
  BY <1>1, <1>2 DEF RecoveryInv, OpenFileInv
<1> QED BY <1>5, <1>6, <1>7 DEF ControlInv

\* A step of backend b that appends to the WAL and changes nothing else.
LEMMA BackendAppends ==
    ASSUME ControlInv, NEW b \in Backend, NEW r \in BackendState,
           bk' = [bk EXCEPT ![b] = r], BackendOK(r, Len(wal')), mode = "run",
           wal' \in Seq(WalRecord),
           Len(wal') \in Nat, Len(wal) <= Len(wal'), Len(wal') <= MaxWal,
           UNCHANGED <<flushed, redoPtr, mode, replayed, lsnHash, parwal, demuxVars, ghostVars>>
    PROVE  ControlInv'
<1>1. /\ flushed' = flushed /\ redoPtr' = redoPtr /\ mode' = mode
      /\ replayed' = replayed /\ parwal' = parwal /\ demux' = demux /\ startLSN' = startLSN
      /\ endRecPtr' = endRecPtr /\ readSeg' = readSeg /\ writers' = writers
      /\ lastProcessed' = lastProcessed /\ saveCounter' = saveCounter /\ progress' = progress
      /\ bootPtr' = bootPtr /\ restarts' = restarts /\ lsnHash' = lsnHash
  BY DEF ghostVars, demuxVars
<1>2. TypeOK /\ OpenFileInv
  BY DEF ControlInv
<1>3. bk' \in [Backend -> BackendState] /\ BackendInv'
  BY BackendFrame
<1>4. /\ Len(wal') \in SegSize..MaxWal /\ flushed \in SegSize..Len(wal')
      /\ replayed \in 0..Len(wal') /\ bootPtr \in SegSize..Len(wal')
  BY <1>2, SizeAssumption DEF TypeOK
<1>5. TypeOK'
  BY <1>1, <1>2, <1>3, <1>4 DEF TypeOK
<1>6. RecoveryInv' /\ OpenFileInv'
  BY <1>1, <1>2 DEF RecoveryInv, OpenFileInv
<1> QED BY <1>3, <1>5, <1>6 DEF ControlInv

LEMMA ControlBackend ==
    ASSUME ControlInv, NEW b \in Backend, BackendStep(b)
    PROVE  ControlInv'
<1>a. TypeOK /\ BackendInv /\ RecoveryInv /\ OpenFileInv
  BY DEF ControlInv
<1>b. /\ bk \in [Backend -> BackendState] /\ bk[b] \in BackendState
      /\ BackendOK(bk[b], Len(wal))
      /\ mode \in {"run", "recover"} /\ lsnHash \in [Partition -> Nat]
  BY <1>a DEF TypeOK, BackendInv
<1>c. mode = "recover" => bk[b].pc = "idle"
  BY <1>a DEF RecoveryInv
<1>d. /\ Len(wal) \in 0..MaxWal /\ Len(wal) >= 1
      /\ flushed \in 0..MaxWal /\ flushed >= 1 /\ flushed <= Len(wal)
  BY <1>a, SizeAssumption DEF TypeOK
<1>e. /\ bk[b].xlast \in 0..MaxWal /\ bk[b].xlast <= Len(wal)
      /\ bk[b].init \in Nat /\ bk[b].part \in Partition \cup {NoPart}
      /\ bk[b].rels \in SUBSET Partition /\ bk[b].todo \in SUBSET Segment
  BY <1>b DEF BackendState, BackendOK
<1> DEFINE done == [IdleBackend EXCEPT !.xlast = bk[b].xlast]
<1>f. /\ IdleBackend \in BackendState /\ done \in BackendState
      /\ BackendOK(IdleBackend, Len(wal)) /\ BackendOK(done, Len(wal))
  BY <1>d, <1>e, SizeAssumption, SMTT(30) DEF IdleBackend, BackendState, BackendOK
<1> HIDE DEF done
<1>1. ASSUME NEW S \in SUBSET Partition, NEW logged \in BOOLEAN, ExecutorFinish(b, S, logged)
      PROVE  ControlInv'
  <2> DEFINE end  == IF logged THEN Len(wal) + 1 ELSE bk[b].xlast
             orig == IF end = 0 THEN Len(wal) ELSE end
             r == [bk[b] EXCEPT !.pc = "stmt", !.op = "write", !.rels = S, !.ptr = orig,
                                !.xlast = end]
  <2>1. /\ mode = "run" /\ bk' = [bk EXCEPT ![b] = r]
        /\ wal' = IF logged THEN Append(wal, Other) ELSE wal
        /\ logged => Len(wal) < MaxWal
        /\ UNCHANGED <<flushed, redoPtr, mode, replayed, lsnHash, parwal, demuxVars, ghostVars>>
    BY <1>1 DEF ExecutorFinish, Idle
  <2>w. wal \in Seq(WalRecord) /\ Other \in WalRecord
    BY <1>a DEF TypeOK, WalRecord
  <2>l. /\ wal' \in Seq(WalRecord)
        /\ Len(wal') = IF logged THEN Len(wal) + 1 ELSE Len(wal)
    BY <2>1, <2>w
  <2>2. /\ Len(wal') \in Nat /\ Len(wal') <= MaxWal /\ Len(wal) <= Len(wal')
        /\ end \in 0..MaxWal /\ end <= Len(wal')
        /\ orig \in 0..MaxWal /\ orig >= 1
    BY <2>1, <2>l, <1>d, <1>e, SizeAssumption, SMTT(30)
  <2> HIDE DEF end, orig
  <2>3. r \in BackendState
    BY <2>2, <1>b DEF BackendState
  <2>4. BackendOK(r, Len(wal'))
    BY <2>2, <1>b DEF BackendState, BackendOK
  <2> QED BY <2>1, <2>l, <2>2, <2>3, <2>4, BackendAppends
<1>2. ASSUME NEW p \in Partition, WritePartitionWALRecordSql(b, p) PROVE ControlInv'
  <2> DEFINE r == [bk[b] EXCEPT !.pc = "stmt", !.op = "write", !.rels = {p}, !.ptr = Len(wal)]
  <2>1. r \in BackendState
    BY <1>b, <1>d DEF BackendState
  <2>2. BackendOK(r, Len(wal))
    BY <1>b, <1>d DEF BackendState, BackendOK
  <2> QED BY <2>1, <2>2, <1>2, <1>b, BackendOnly DEF WritePartitionWALRecordSql, Idle, ghostVars
<1>3. ASSUME NEW p \in Partition, AllocPartitionLSNSql(b, p) PROVE ControlInv'
  <2> DEFINE r == [bk[b] EXCEPT !.pc = "stmt", !.op = "alloc", !.rels = {p}]
  <2>1. r \in BackendState
    BY <1>b DEF BackendState
  <2>2. BackendOK(r, Len(wal))
    BY <1>b DEF BackendState, BackendOK
  <2> QED BY <2>1, <2>2, <1>3, <1>b, BackendOnly DEF AllocPartitionLSNSql, Idle, ghostVars
<1>4. ASSUME NEW p \in Partition, AllocFind(b, p) PROVE ControlInv'
  <2> DEFINE next == IF lsnHash[p] = 0 THEN "scan" ELSE "enter"
             r == [bk[b] EXCEPT !.pc = next, !.rels = bk[b].rels \ {p}, !.part = p, !.init = 1]
  <2>1. next \in {"scan", "enter"} /\ bk[b].pc = "stmt" /\ bk[b].rels \ {p} \in SUBSET Partition
    BY <1>4, <1>e DEF AllocFind
  <2>2. bk' = [bk EXCEPT ![b] = r]
    BY <1>4 DEF AllocFind
  <2> HIDE DEF next
  <2>3. r \in BackendState
    BY <2>1, <1>b DEF BackendState
  <2>4. BackendOK(r, Len(wal))
    BY <2>1, <1>b DEF BackendState, BackendOK
  <2>5. mode = "run"
    BY <2>1, <1>b, <1>c
  <2> QED BY <2>2, <2>3, <2>4, <2>5, <1>4, <1>b, BackendOnly DEF AllocFind, ghostVars
<1>5. CASE EndXact(b)
  <2> DEFINE r == [bk[b] EXCEPT !.xlast = 0]
  <2>0. 0 \in 0..MaxWal
    BY SizeAssumption
  <2>1. r \in BackendState
    BY <2>0, <1>b DEF BackendState
  <2>2. BackendOK(r, Len(wal))
    BY <1>b, <1>d DEF BackendState, BackendOK
  <2> QED BY <2>1, <2>2, <1>5, <1>b, BackendOnly DEF EndXact, Idle, ghostVars
<1>6. CASE AllocScan(b)
  <2> DEFINE last == GetLastWrittenPartitionLSN(bk[b].part)
             init == IF last > 0 THEN last + 1 ELSE 1
             r == [bk[b] EXCEPT !.pc = "enter", !.init = init]
  <2>1. bk[b].pc = "scan" /\ bk' = [bk EXCEPT ![b] = r]
    BY <1>6 DEF AllocScan
  <2>2. bk[b].part \in Partition
    BY <2>1, <1>b DEF BackendOK
  <2>3. init \in Nat /\ init >= 1
    BY <2>2, <1>a, GetLastType
  <2> HIDE DEF init
  <2>4. r \in BackendState
    BY <2>3, <1>b DEF BackendState
  <2>5. BackendOK(r, Len(wal))
    BY <2>1, <2>3, <1>b DEF BackendState, BackendOK
  <2>6. mode = "run"
    BY <2>1, <1>b, <1>c
  <2> QED BY <2>1, <2>4, <2>5, <2>6, <1>6, <1>b, BackendOnly DEF AllocScan, ghostVars
<1>7. CASE AllocEnter(b)
  <2> DEFINE p == bk[b].part
             result == NextLsn(b)
             go == [bk[b] EXCEPT !.pc = "insert", !.lsn = result, !.init = 0]
             r == IF bk[b].op = "alloc" THEN done ELSE go
  <2>1. bk[b].pc = "enter" /\ bk' = [bk EXCEPT ![b] = r] /\ lsnHash' = [lsnHash EXCEPT ![p] = result + 1]
    BY <1>7 DEF AllocEnter, done
  <2>2. p \in Partition /\ bk[b].init >= 1 /\ bk[b].op \in {"write", "alloc"}
    BY <2>1, <1>b DEF BackendOK
  <2>3. lsnHash[p] \in Nat
    BY <2>2, <1>b
  <2>4. result \in Nat /\ result >= 1
    BY <2>2, <2>3, <1>e DEF NextLsn
  <2> HIDE DEF result
  <2>5. go \in BackendState
    BY <2>4, <1>b DEF BackendState
  <2>6. bk[b].op # "alloc" => BackendOK(go, Len(wal))
    BY <2>1, <2>2, <2>4, <1>b DEF BackendState, BackendOK
  <2>7. r \in BackendState /\ BackendOK(r, Len(wal))
    BY <2>5, <2>6, <1>f
  <2> HIDE DEF r
  <2>8. lsnHash' \in [Partition -> Nat]
    <3>1. result + 1 \in Nat
      BY <2>4
    <3> QED BY <3>1, <2>1, <1>b
  <2>9. mode = "run"
    BY <2>1, <1>b, <1>c
  <2> QED BY <2>1, <2>7, <2>8, <2>9, <1>7, BackendOnly DEF AllocEnter, ghostVars
<1>8. CASE AllocFull(b)
  <2>1. bk[b].pc = "enter" /\ bk' = [bk EXCEPT ![b] = IdleBackend]
    BY <1>8 DEF AllocFull
  <2>2. mode = "run"
    BY <2>1, <1>b, <1>c
  <2> QED BY <2>1, <2>2, <1>f, <1>8, <1>b, BackendOnly DEF AllocFull, ghostVars
<1>9. CASE XLogInsert(b)
  <2> DEFINE h == [part |-> bk[b].part, lsn |-> bk[b].lsn, orig |-> bk[b].ptr]
             r == [bk[b] EXCEPT !.pc = "flush", !.lsn = 0, !.xlast = Len(wal) + 1]
  <2>1. /\ bk[b].pc = "insert" /\ bk' = [bk EXCEPT ![b] = r]
        /\ Len(wal) < MaxWal /\ wal' = Append(wal, h)
        /\ UNCHANGED <<flushed, redoPtr, mode, replayed, lsnHash, parwal, demuxVars, ghostVars>>
    BY <1>9 DEF XLogInsert
  <2>2. /\ bk[b].part \in Partition /\ bk[b].lsn \in Nat \ {0}
        /\ bk[b].ptr \in 0..MaxWal /\ bk[b].ptr >= 1
    BY <2>1, <1>b DEF BackendOK, BackendState
  <2>3. h \in Header
    BY <2>2, SizeAssumption DEF Header
  <2>4. wal \in Seq(WalRecord) /\ h \in WalRecord
    BY <2>3, <1>a DEF TypeOK, WalRecord
  <2>5. wal' \in Seq(WalRecord) /\ Len(wal') = Len(wal) + 1
    BY <2>1, <2>4
  <2>6. Len(wal') \in Nat /\ Len(wal) <= Len(wal') /\ Len(wal') <= MaxWal /\ Len(wal) + 1 \in 0..MaxWal
    BY <2>1, <2>5, <1>d, SizeAssumption
  <2>7. r \in BackendState
    BY <2>6, <1>b DEF BackendState
  <2>8. BackendOK(r, Len(wal'))
    BY <2>1, <2>5, <2>6, <1>b DEF BackendState, BackendOK
  <2>9. mode = "run"
    BY <2>1, <1>b, <1>c
  <2> QED BY <2>1, <2>5, <2>6, <2>7, <2>8, <2>9, BackendAppends
<1>10. CASE XLogFlush(b)
  <2> DEFINE more == [bk[b] EXCEPT !.pc = "stmt", !.part = NoPart]
             r == IF bk[b].rels = {} THEN done ELSE more
  <2>1. /\ bk[b].pc = "flush" /\ bk' = [bk EXCEPT ![b] = r]
        /\ flushed' = Max({flushed, bk[b].xlast})
        /\ wal' = wal /\ redoPtr' = redoPtr /\ mode' = mode
        /\ replayed' = replayed /\ parwal' = parwal /\ demux' = demux /\ startLSN' = startLSN
        /\ endRecPtr' = endRecPtr /\ readSeg' = readSeg /\ writers' = writers
        /\ lastProcessed' = lastProcessed /\ saveCounter' = saveCounter /\ progress' = progress
        /\ bootPtr' = bootPtr /\ restarts' = restarts /\ lsnHash' = lsnHash
    BY <1>10 DEF XLogFlush, done, ghostVars, demuxVars
  <2>2. more \in BackendState
    BY <1>b DEF BackendState
  <2>3. BackendOK(more, Len(wal))
    BY <2>1, <1>b DEF BackendState, BackendOK
  <2>4. r \in BackendState /\ BackendOK(r, Len(wal'))
    BY <2>1, <2>2, <2>3, <1>f
  <2> HIDE DEF r
  <2>5. Len(wal') \in Nat /\ Len(wal) <= Len(wal')
    BY <2>1, <1>d
  <2>6. bk' \in [Backend -> BackendState] /\ BackendInv'
    BY <2>1, <2>4, <2>5, BackendFrame
  <2>7. flushed' \in Nat /\ flushed <= flushed' /\ flushed' <= Len(wal)
    BY <2>1, <1>d, <1>e, MaxOfTwo
  <2>8. /\ flushed' \in SegSize..Len(wal) /\ redoPtr \in SegSize..flushed' /\ startLSN \in 0..flushed'
        /\ endRecPtr \in startLSN..flushed' /\ progress \in 0..flushed'
    BY <2>7, <1>a, SizeAssumption DEF TypeOK
  <2>9. TypeOK'
    BY <2>1, <2>6, <2>8, <1>a DEF TypeOK
  <2>10. RecoveryInv' /\ OpenFileInv'
    BY <2>1, <1>a, <1>c DEF RecoveryInv, OpenFileInv
  <2> QED BY <2>6, <2>9, <2>10 DEF ControlInv
<1>11. CASE DemuxFlushCall(b)
  <2> DEFINE r == [bk[b] EXCEPT !.pc = "wait", !.op = "flush", !.ptr = flushed]
  <2>1. r \in BackendState
    BY <1>b, <1>d DEF BackendState
  <2>2. BackendOK(r, Len(wal))
    BY <1>b, <1>d DEF BackendState, BackendOK
  <2> QED BY <2>1, <2>2, <1>11, <1>b, BackendOnly DEF DemuxFlushCall, Idle, ghostVars
<1>12. CASE DemuxFlushReturn(b) \/ DemuxFlushTimeout(b)
  <2>1. /\ bk[b].pc = "wait" /\ bk' = [bk EXCEPT ![b] = done]
        /\ UNCHANGED <<walVars, lsnHash, parwal, demuxVars, ghostVars>>
    BY <1>12 DEF DemuxFlushReturn, DemuxFlushTimeout, done
  <2>2. mode = "run"
    BY <2>1, <1>b, <1>c
  <2> QED BY <2>1, <2>2, <1>f, <1>b, BackendOnly DEF ghostVars
<1>13. ASSUME NEW p \in Partition, ResetRemoveEntry(b, p) PROVE ControlInv'
  <2> DEFINE r == [bk[b] EXCEPT !.pc = "opendir", !.op = "reset", !.part = p]
  <2>2. r \in BackendState
    BY <1>b DEF BackendState
  <2>3. BackendOK(r, Len(wal))
    BY <1>b DEF BackendState, BackendOK
  <2>4. lsnHash' \in [Partition -> Nat]
    BY <1>13, <1>b DEF ResetRemoveEntry
  <2> QED BY <2>2, <2>3, <2>4, <1>13, <1>b, BackendOnly DEF ResetRemoveEntry, Idle, ghostVars
<1>14. ASSUME NEW p \in Partition, NEW keep \in 1..MaxWal, CleanupOpenDir(b, p, keep)
       PROVE  ControlInv'
  <2> DEFINE old == {s \in FilesOf(p) : (s + 1) * SegSize <= keep}
             r == [bk[b] EXCEPT !.pc = "unlink", !.op = "cleanup", !.part = p, !.todo = old]
  <2>1. old \in SUBSET Segment
    BY DEF FilesOf
  <2>2. bk' = [bk EXCEPT ![b] = r]
    BY <1>14 DEF CleanupOpenDir
  <2> HIDE DEF old
  <2>3. r \in BackendState
    BY <2>1, <1>b DEF BackendState
  <2>4. BackendOK(r, Len(wal))
    BY <1>b DEF BackendState, BackendOK
  <2> QED BY <2>2, <2>3, <2>4, <1>14, <1>b, BackendOnly DEF CleanupOpenDir, Idle, ghostVars
<1>15. ASSUME NEW s \in Segment, UnlinkFile(b, s) PROVE ControlInv'
  <2> DEFINE p == bk[b].part
             left == bk[b].todo \ {s}
             r == [bk[b] EXCEPT !.todo = left]
  <2>1. /\ bk[b].pc = "unlink" /\ bk' = [bk EXCEPT ![b] = r]
        /\ parwal' = [parwal EXCEPT ![p][s] = <<>>]
        /\ writers' = IF writers[p].fd = "linked" /\ writers[p].seg = s
                      THEN [writers EXCEPT ![p].fd = "unlinked"] ELSE writers
        /\ wal' = wal /\ flushed' = flushed /\ redoPtr' = redoPtr /\ mode' = mode
        /\ replayed' = replayed /\ demux' = demux /\ startLSN' = startLSN
        /\ endRecPtr' = endRecPtr /\ readSeg' = readSeg
        /\ lastProcessed' = lastProcessed /\ saveCounter' = saveCounter /\ progress' = progress
        /\ bootPtr' = bootPtr /\ restarts' = restarts /\ lsnHash' = lsnHash
    BY <1>15 DEF UnlinkFile, ghostVars, walVars
  <2>2. p \in Partition /\ mode = "run" /\ left \in SUBSET Segment
    BY <2>1, <1>b, <1>c, <1>e DEF BackendOK
  <2> HIDE DEF left
  <2>3. r \in BackendState
    BY <2>2, <1>b DEF BackendState
  <2>4. BackendOK(r, Len(wal'))
    BY <2>1, <1>b DEF BackendState, BackendOK
  <2>5. Len(wal') \in Nat /\ Len(wal) <= Len(wal')
    BY <2>1, <1>d
  <2>6. bk' \in [Backend -> BackendState] /\ BackendInv'
    BY <2>1, <2>3, <2>4, <2>5, BackendFrame
  <2>7. parwal' \in [Partition -> [Segment -> Seq(Header)]]
    BY <2>1, <2>2, <1>a, SMTT(30) DEF TypeOK
  <2>8. writers' \in [Partition -> Writer] /\ OpenFileInv'
    BY <2>1, <2>2, <1>a DEF TypeOK, Writer, OpenFileInv
  <2>9. TypeOK'
    BY <2>1, <2>6, <2>7, <2>8, <1>a DEF TypeOK
  <2>10. RecoveryInv'
    BY <2>1, <2>2 DEF RecoveryInv
  <2> QED BY <2>6, <2>8, <2>9, <2>10 DEF ControlInv
<1>16. CASE CloseDir(b)
  <2>1. bk[b].pc = "unlink" /\ bk' = [bk EXCEPT ![b] = done]
    BY <1>16 DEF CloseDir, done
  <2>2. mode = "run" /\ bk[b].part \in Partition
    BY <2>1, <1>b, <1>c DEF BackendOK
  <2> QED BY <2>1, <2>2, <1>f, <1>16, <1>b, BackendOnly DEF CloseDir, ghostVars
<1>17. CASE ResetOpenDir(b)
  <2> DEFINE files == FilesOf(bk[b].part)
             r == [bk[b] EXCEPT !.pc = "unlink", !.todo = files]
  <2>1. bk[b].pc = "opendir" /\ bk' = [bk EXCEPT ![b] = r]
    BY <1>17 DEF ResetOpenDir
  <2>2. files \in SUBSET Segment
    BY DEF FilesOf
  <2> HIDE DEF files
  <2>3. mode = "run" /\ r \in BackendState
    BY <2>1, <2>2, <1>b, <1>c DEF BackendState
  <2>4. BackendOK(r, Len(wal))
    BY <2>1, <1>b DEF BackendState, BackendOK
  <2> QED BY <2>1, <2>3, <2>4, <1>17, <1>b, BackendOnly DEF ResetOpenDir, ghostVars
<1> QED
  BY <1>1, <1>2, <1>3, <1>4, <1>5, <1>6, <1>7, <1>8, <1>9, <1>10, <1>11, <1>12, <1>13, <1>14,
     <1>15, <1>16, <1>17 DEF BackendStep

\* The record the demux reads next.
LEMMA NextRecordType ==
    ASSUME TypeOK, NEW i \in 1..Len(wal), wal[i].part # NoPart
    PROVE  /\ wal[i] \in Header /\ wal[i].part \in Partition /\ wal[i].lsn \in Nat \ {0}
           /\ wal[i].orig \in 1..MaxWal /\ FileSeg(wal[i].orig) \in Segment
<1>1. wal[i] \in WalRecord
  BY DEF TypeOK
<1>2. wal[i] \in Header
  BY <1>1 DEF WalRecord, Other
<1>3. wal[i].part \in Partition /\ wal[i].lsn \in Nat \ {0} /\ wal[i].orig \in 1..MaxWal
  BY <1>2 DEF Header
<1> QED BY <1>2, <1>3, FileSegType

\* The writer the demux uses for a header, before and after it has chosen the file.
LEMMA WriterForType ==
    ASSUME ControlInv, NEW i \in 1..Len(wal), wal[i].part # NoPart
    PROVE  LET r == wal[i]
               w == AfterResetDetection(WriterFor(r.part), r)
               v == WriterAt(w, FileSeg(r.orig))
           IN  /\ w \in Writer /\ w.fd # "absent" /\ (w.fd # "closed" => w.seg # 0)
               /\ v \in Writer /\ v.fd \in {"linked", "unlinked"} /\ v.seg = FileSeg(r.orig)
<1> DEFINE r == wal[i]
           u == WriterFor(r.part)
           w == AfterResetDetection(u, r)
           v == WriterAt(w, FileSeg(r.orig))
<1>1. TypeOK /\ OpenFileInv
  BY DEF ControlInv
<1>2. r.part \in Partition /\ FileSeg(r.orig) \in Segment
  BY <1>1, NextRecordType
<1>3. writers[r.part] \in Writer /\ GetLastWrittenPartitionLSN(r.part) \in Nat
  BY <1>1, <1>2, GetLastType DEF TypeOK
<1>4. u \in Writer /\ u.fd # "absent" /\ (u.fd # "closed" => u.seg # 0)
  BY <1>1, <1>2, <1>3 DEF WriterFor, Writer, OpenFileInv
<1> HIDE DEF u
<1>5. w \in Writer /\ w.fd # "absent" /\ (w.fd # "closed" => w.seg # 0)
  BY <1>4 DEF AfterResetDetection, Writer
<1> HIDE DEF w
<1>6. FileSeg(r.orig) # 0
  BY <1>2, FileSegType DEF Segment
<1>7. v \in Writer /\ v.fd \in {"linked", "unlinked"} /\ v.seg = FileSeg(r.orig)
  BY <1>2, <1>5, <1>6 DEF WriterAt, OpenWriterSegment, Writer
<1> QED BY <1>5, <1>7 DEF w, u

\* Recovery is not under way and only the demux's variables and the files change.
LEMMA DemuxFrame ==
    ASSUME ControlInv, UNCHANGED <<walVars, bk, lsnHash, ghostVars>>, mode = "run",
           parwal' \in [Partition -> [Segment -> Seq(Header)]],
           demux' \in {"down", "read", "publish", "exited"},
           startLSN' \in 0..flushed, endRecPtr' \in startLSN'..flushed,
           readSeg' \in {-1} \cup 0..MaxWal,
           writers' \in [Partition -> Writer], OpenFileInv',
           lastProcessed' \in 0..endRecPtr', saveCounter' \in 0..SaveEvery,
           progress' \in 0..flushed
    PROVE  ControlInv'
<1>1. /\ wal' = wal /\ flushed' = flushed /\ redoPtr' = redoPtr /\ mode' = mode
      /\ replayed' = replayed /\ bk' = bk /\ lsnHash' = lsnHash
      /\ bootPtr' = bootPtr /\ restarts' = restarts
  BY DEF walVars, ghostVars
<1>2. TypeOK /\ BackendInv
  BY DEF ControlInv
<1>3. TypeOK'
  BY <1>1, <1>2 DEF TypeOK
<1>4. BackendInv' /\ RecoveryInv'
  BY <1>1, <1>2 DEF BackendInv, RecoveryInv
<1> QED BY <1>3, <1>4 DEF ControlInv

LEMMA ControlDemux ==
    ASSUME ControlInv, DemuxStart \/ DemuxLoop \/ DemuxStop
    PROVE  ControlInv'
<1>a. TypeOK /\ BackendInv /\ RecoveryInv /\ OpenFileInv
  BY DEF ControlInv
<1>b. /\ mode \in {"run", "recover"} /\ parwal \in [Partition -> [Segment -> Seq(Header)]]
      /\ demux \in {"down", "read", "publish", "exited"}
      /\ startLSN \in 0..flushed /\ endRecPtr \in startLSN..flushed
      /\ readSeg \in {-1} \cup 0..MaxWal
      /\ writers \in [Partition -> Writer]
      /\ lastProcessed \in 0..endRecPtr
      /\ saveCounter \in 0..SaveEvery /\ progress \in 0..flushed
  BY <1>a DEF TypeOK
<1>c. flushed \in Nat /\ flushed <= Len(wal) /\ Len(wal) \in Nat /\ Len(wal) <= MaxWal
  BY <1>a, SizeAssumption DEF TypeOK
<1>d. startLSN \in Nat /\ endRecPtr \in Nat /\ lastProcessed \in Nat /\ progress \in Nat
      /\ startLSN <= endRecPtr /\ endRecPtr <= flushed /\ lastProcessed <= endRecPtr
  BY <1>b, <1>c
<1>e. demux # "down" => mode = "run"
  BY <1>a, <1>b DEF RecoveryInv
<1>f. MaxWal \in Nat /\ SaveEvery \in Nat \ {0}
  BY SizeAssumption
<1>1. CASE DemuxStart
  <2>1. /\ mode = "run" /\ demux' = "read" /\ startLSN' = flushed /\ endRecPtr' = flushed
        /\ readSeg' = -1 /\ saveCounter' = 0 /\ parwal' = parwal /\ writers' = writers
        /\ lastProcessed' = lastProcessed /\ progress' = progress
        /\ UNCHANGED <<walVars, bk, lsnHash, ghostVars>>
    BY <1>1 DEF DemuxStart
  <2>2. /\ startLSN' \in 0..flushed /\ endRecPtr' \in startLSN'..flushed
        /\ lastProcessed' \in 0..endRecPtr' /\ saveCounter' \in 0..SaveEvery
    BY <2>1, <1>c, <1>d, <1>f
  <2>3. OpenFileInv'
    BY <2>1, <1>a DEF OpenFileInv
  <2> QED BY <2>1, <2>2, <2>3, <1>b, DemuxFrame
<1>2. CASE DemuxCaughtUp
  <2>1. /\ demux = "read" /\ demux' = demux /\ endRecPtr >= flushed /\ lastProcessed' = flushed
        /\ startLSN' = startLSN /\ endRecPtr' = endRecPtr
        /\ readSeg' = readSeg /\ saveCounter' = saveCounter /\ parwal' = parwal
        /\ writers' = writers /\ progress' = progress
        /\ UNCHANGED <<walVars, bk, lsnHash, ghostVars>>
    BY <1>2 DEF DemuxCaughtUp
  <2>2. lastProcessed' \in 0..endRecPtr'
    BY <2>1, <1>c, <1>d
  <2>3. OpenFileInv'
    BY <2>1, <1>a DEF OpenFileInv
  <2> QED BY <2>1, <2>2, <2>3, <1>b, <1>e, DemuxFrame
<1>3. CASE DemuxSegmentGone
  <2>1. /\ demux = "read" /\ demux' = demux /\ startLSN' = flushed /\ endRecPtr' = flushed
        /\ readSeg' = -1 /\ saveCounter' = saveCounter /\ parwal' = parwal
        /\ writers' = writers /\ progress' = progress /\ lastProcessed' = lastProcessed
        /\ UNCHANGED <<walVars, bk, lsnHash, ghostVars>>
    BY <1>3 DEF DemuxSegmentGone
  <2>2. /\ startLSN' \in 0..flushed /\ endRecPtr' \in startLSN'..flushed
        /\ lastProcessed' \in 0..endRecPtr'
    BY <2>1, <1>c, <1>d
  <2>3. OpenFileInv'
    BY <2>1, <1>a DEF OpenFileInv
  <2> QED BY <2>1, <2>2, <2>3, <1>b, <1>e, DemuxFrame
<1>4. ASSUME ReadNext
      PROVE  /\ demux = "read" /\ demux' = "publish" /\ endRecPtr + 1 \in 1..Len(wal)
             /\ endRecPtr' \in startLSN..flushed /\ lastProcessed \in 0..endRecPtr'
             /\ readSeg' \in {-1} \cup 0..MaxWal
  <2>1. /\ demux = "read" /\ endRecPtr < flushed /\ endRecPtr' = endRecPtr + 1
        /\ readSeg' = WalSeg(endRecPtr + 1) /\ demux' = "publish"
    BY <1>4 DEF ReadNext
  <2>2. WalSeg(endRecPtr + 1) = endRecPtr \div SegSize
    BY <1>d DEF WalSeg
  <2>3. endRecPtr \div SegSize \in Nat /\ endRecPtr \div SegSize <= MaxWal
    <3>1. SegSize \in Nat \ {0}
      BY SizeAssumption
    <3>2. endRecPtr \div SegSize \in Nat
      BY <3>1, <1>d, DivMonotone
    <3>3. endRecPtr \div SegSize <= endRecPtr
      BY <3>1, <1>d, DivAtMost
    <3> QED BY <3>2, <3>3, <1>c, <1>d, <1>f
  <2> QED BY <2>1, <2>2, <2>3, <1>c, <1>d, <1>f
<1>5. CASE DemuxOther \/ DemuxNoWriter
  <2>1. /\ ReadNext /\ startLSN' = startLSN /\ saveCounter' = saveCounter /\ parwal' = parwal
        /\ writers' = writers /\ progress' = progress /\ lastProcessed' = lastProcessed
        /\ UNCHANGED <<walVars, bk, lsnHash, ghostVars>>
    BY <1>5 DEF DemuxOther, DemuxNoWriter
  <2>2. OpenFileInv'
    BY <2>1, <1>a DEF OpenFileInv
  <2> QED BY <2>1, <2>2, <1>4, <1>b, <1>e, DemuxFrame
<1> DEFINE r == wal[endRecPtr + 1]
           w == AfterResetDetection(WriterFor(r.part), r)
           v == WriterAt(w, FileSeg(r.orig))
           vv == [v EXCEPT !.last = r.lsn]
<1>6. ASSUME ReadNext, r.part # NoPart
      PROVE  /\ r \in Header /\ r.part \in Partition
             /\ w \in Writer /\ (w.fd # "closed" => w.seg # 0)
             /\ vv \in Writer /\ vv.seg # 0 /\ v.seg \in Segment
  <2>1. endRecPtr + 1 \in 1..Len(wal)
    BY <1>4, <1>6
  <2>2. /\ r \in Header /\ r.part \in Partition /\ r.lsn \in Nat /\ FileSeg(r.orig) \in Segment
    BY <2>1, <1>a, <1>6, NextRecordType
  <2>3. /\ w \in Writer /\ (w.fd # "closed" => w.seg # 0)
        /\ v \in Writer /\ v.seg = FileSeg(r.orig)
    BY <2>1, <1>6, WriterForType
  <2> HIDE DEF v, w
  <2>4. vv \in Writer /\ vv.seg = v.seg
    BY <2>2, <2>3 DEF Writer
  <2>5. FileSeg(r.orig) # 0
    BY <2>2, FileSegType DEF Segment
  <2> QED BY <2>2, <2>3, <2>4, <2>5
<1>7. CASE DemuxDuplicate
  <2>1. /\ ReadNext /\ r.part # NoPart /\ writers' = [writers EXCEPT ![r.part] = w]
        /\ startLSN' = startLSN /\ saveCounter' = saveCounter /\ parwal' = parwal
        /\ progress' = progress /\ lastProcessed' = lastProcessed
        /\ UNCHANGED <<walVars, bk, lsnHash, ghostVars>>
    BY <1>7 DEF DemuxDuplicate
  <2>2. writers' \in [Partition -> Writer] /\ OpenFileInv'
    BY <2>1, <1>6, <1>a, <1>b DEF OpenFileInv
  <2> QED BY <2>1, <2>2, <1>4, <1>b, <1>e, DemuxFrame
<1>8. CASE DemuxWrite
  <2>1. /\ ReadNext /\ r.part # NoPart /\ writers' = [writers EXCEPT ![r.part] = vv]
        /\ parwal' = IF v.fd = "linked"
                     THEN [parwal EXCEPT ![r.part][v.seg] = Append(@, r)] ELSE parwal
        /\ startLSN' = startLSN /\ saveCounter' = saveCounter
        /\ progress' = progress /\ lastProcessed' = lastProcessed
        /\ UNCHANGED <<walVars, bk, lsnHash, ghostVars>>
    BY <1>8 DEF DemuxWrite, FlushPartitionWALWriter
  <2>2. writers' \in [Partition -> Writer] /\ OpenFileInv'
    BY <2>1, <1>6, <1>a, <1>b DEF OpenFileInv
  <2>3. parwal' \in [Partition -> [Segment -> Seq(Header)]]
    <3> HIDE DEF r, v
    <3>1. Append(parwal[r.part][v.seg], r) \in Seq(Header)
      BY <2>1, <1>6, <1>b
    <3> QED BY <3>1, <2>1, <1>6, <1>b
  <2> QED BY <2>1, <2>2, <2>3, <1>4, <1>b, <1>e, DemuxFrame
<1>9. CASE DemuxPublish
  <2>1. /\ demux = "publish" /\ demux' = "read" /\ lastProcessed' = endRecPtr
        /\ saveCounter' = IF saveCounter + 1 >= SaveEvery THEN 0 ELSE saveCounter + 1
        /\ progress' = IF saveCounter + 1 >= SaveEvery THEN Min({endRecPtr, flushed}) ELSE progress
        /\ startLSN' = startLSN /\ endRecPtr' = endRecPtr /\ readSeg' = readSeg
        /\ parwal' = parwal /\ writers' = writers
        /\ UNCHANGED <<walVars, bk, lsnHash, ghostVars>>
    BY <1>9 DEF DemuxPublish, SafeLsn
  <2>2. Min({endRecPtr, flushed}) = endRecPtr
    BY <1>c, <1>d, MinOfTwo
  <2>3. lastProcessed' \in 0..endRecPtr' /\ saveCounter' \in 0..SaveEvery /\ progress' \in 0..flushed
    BY <2>1, <2>2, <1>b, <1>c, <1>d, <1>f
  <2>4. OpenFileInv'
    BY <2>1, <1>a DEF OpenFileInv
  <2> QED BY <2>1, <2>3, <2>4, <1>b, <1>e, DemuxFrame
<1>10. CASE DemuxStop
  <2>1. /\ demux = "read" /\ demux' = "exited" /\ progress' = Min({endRecPtr, flushed})
        /\ readSeg' = -1 /\ writers' = [p \in Partition |-> NoWriter]
        /\ startLSN' = startLSN /\ endRecPtr' = endRecPtr /\ lastProcessed' = lastProcessed
        /\ saveCounter' = saveCounter /\ parwal' = parwal
        /\ UNCHANGED <<walVars, bk, lsnHash, ghostVars>>
    BY <1>10 DEF DemuxStop, SafeLsn
  <2>2. progress' \in 0..flushed
    BY <2>1, <1>c, <1>d, MinOfTwo
  <2>3. writers' \in [Partition -> Writer] /\ OpenFileInv'
    BY <2>1 DEF NoWriter, Writer, OpenFileInv
  <2> QED BY <2>1, <2>2, <2>3, <1>b, <1>e, DemuxFrame
<1> QED BY <1>1, <1>2, <1>3, <1>5, <1>7, <1>8, <1>9, <1>10 DEF DemuxLoop

\* What survives a restart is well typed, and memory starts empty.
LEMMA LoseMemoryControl ==
    ASSUME ControlInv, LoseMemory,
           wal' \in Seq(WalRecord), Len(wal') \in SegSize..MaxWal,
           flushed' = Len(wal'), flushed <= flushed', redoPtr' \in SegSize..flushed',
           mode' \in {"run", "recover"}, replayed' \in 0..Len(wal'), bootPtr' = Len(wal')
    PROVE  ControlInv'
<1>1. TypeOK
  BY DEF ControlInv
<1>2. /\ bk' = [b \in Backend |-> IdleBackend] /\ lsnHash' = [p \in Partition |-> 0]
      /\ demux' = "down" /\ startLSN' = 0 /\ endRecPtr' = 0 /\ readSeg' = -1
      /\ writers' = [p \in Partition |-> NoWriter]
      /\ lastProcessed' = 0 /\ saveCounter' = 0
      /\ restarts < MaxRestart /\ restarts' = restarts + 1
      /\ parwal' = parwal /\ progress' = progress
  BY DEF LoseMemory
<1>3. /\ IdleBackend \in BackendState /\ NoWriter \in Writer
  BY SizeAssumption DEF IdleBackend, BackendState, NoWriter, Writer
<1>4. /\ flushed' \in Nat /\ SegSize \in Nat /\ MaxWal \in Nat /\ Len(wal') \in Nat
      /\ SegSize <= Len(wal') /\ progress \in 0..flushed /\ flushed \in Nat
      /\ restarts \in 0..MaxRestart /\ MaxRestart \in Nat /\ SaveEvery \in Nat
  BY <1>1, SizeAssumption DEF TypeOK
<1>5. /\ flushed' \in SegSize..Len(wal') /\ progress' \in 0..flushed'
      /\ bootPtr' \in SegSize..Len(wal') /\ restarts' \in 0..MaxRestart
      /\ startLSN' \in 0..flushed' /\ endRecPtr' \in startLSN'..flushed'
      /\ lastProcessed' \in 0..endRecPtr' /\ saveCounter' \in 0..SaveEvery
  BY <1>2, <1>4
<1>6. /\ bk' \in [Backend -> BackendState] /\ writers' \in [Partition -> Writer]
      /\ lsnHash' \in [Partition -> Nat]
  BY <1>2, <1>3
<1>7. TypeOK'
  BY <1>1, <1>2, <1>5, <1>6 DEF TypeOK
<1>8. BackendInv'
  <2>1. BackendOK(IdleBackend, Len(wal'))
    BY <1>4 DEF BackendOK, IdleBackend
  <2> QED BY <2>1, <1>2 DEF BackendInv
<1>9. RecoveryInv' /\ OpenFileInv'
  BY <1>2 DEF RecoveryInv, OpenFileInv, IdleBackend, NoWriter
<1> QED BY <1>7, <1>8, <1>9 DEF ControlInv

\* What is left of the WAL after a crash.
LEMMA TruncatedWal ==
    ASSUME TypeOK, NEW end \in flushed..Len(wal)
    PROVE  LET w == SubSeq(wal, 1, end)
           IN  /\ w \in Seq(WalRecord) /\ Len(w) = end
               /\ \A i \in 1..end : w[i] = wal[i]
<1>1. /\ wal \in Seq(WalRecord) /\ Len(wal) \in Nat /\ flushed \in Nat
      /\ flushed >= 1 /\ end \in Nat /\ flushed <= end /\ end <= Len(wal)
  BY SizeAssumption DEF TypeOK
<1> QED BY <1>1

LEMMA ControlServer ==
    ASSUME ControlInv, ServerStep
    PROVE  ControlInv'
<1>a. TypeOK /\ BackendInv /\ RecoveryInv /\ OpenFileInv
  BY DEF ControlInv
<1>b. /\ SegSize \in Nat \ {0} /\ MaxWal \in Nat
      /\ wal \in Seq(WalRecord) /\ Len(wal) \in Nat /\ SegSize <= Len(wal) /\ Len(wal) <= MaxWal
      /\ flushed \in Nat /\ SegSize <= flushed /\ flushed <= Len(wal)
      /\ redoPtr \in Nat /\ SegSize <= redoPtr /\ redoPtr <= flushed
      /\ replayed \in Nat /\ replayed <= Len(wal)
      /\ startLSN \in Nat /\ endRecPtr \in Nat /\ startLSN <= endRecPtr /\ endRecPtr <= flushed
      /\ progress \in Nat /\ progress <= flushed
  BY <1>a, SizeAssumption DEF TypeOK
<1>1. CASE WalWriterFlush
  <2>1. /\ mode = "run" /\ flushed < Len(wal) /\ flushed' = flushed + 1
        /\ wal' = wal /\ redoPtr' = redoPtr /\ mode' = mode /\ replayed' = replayed
        /\ bk' = bk /\ lsnHash' = lsnHash /\ parwal' = parwal /\ demux' = demux
        /\ startLSN' = startLSN /\ endRecPtr' = endRecPtr /\ readSeg' = readSeg
        /\ writers' = writers /\ lastProcessed' = lastProcessed /\ saveCounter' = saveCounter
        /\ progress' = progress /\ bootPtr' = bootPtr /\ restarts' = restarts
    BY <1>1 DEF WalWriterFlush, demuxVars, ghostVars
  <2>2. /\ flushed' \in SegSize..Len(wal) /\ redoPtr \in SegSize..flushed'
        /\ startLSN \in 0..flushed' /\ endRecPtr \in startLSN..flushed' /\ progress \in 0..flushed'
    BY <2>1, <1>b
  <2>3. TypeOK'
    BY <2>1, <2>2, <1>a DEF TypeOK
  <2>4. BackendInv' /\ RecoveryInv' /\ OpenFileInv'
    BY <2>1, <1>a DEF BackendInv, RecoveryInv, OpenFileInv
  <2> QED BY <2>3, <2>4 DEF ControlInv
<1>2. CASE Checkpoint
  <2>1. /\ mode = "run" /\ redoPtr' = flushed /\ flushed' = flushed
        /\ wal' = wal /\ mode' = mode /\ replayed' = replayed
        /\ bk' = bk /\ lsnHash' = lsnHash /\ parwal' = parwal /\ demux' = demux
        /\ startLSN' = startLSN /\ endRecPtr' = endRecPtr /\ readSeg' = readSeg
        /\ writers' = writers /\ lastProcessed' = lastProcessed /\ saveCounter' = saveCounter
        /\ progress' = progress /\ bootPtr' = bootPtr /\ restarts' = restarts
    BY <1>2 DEF Checkpoint, demuxVars, ghostVars
  <2>2. redoPtr' \in SegSize..flushed
    BY <2>1, <1>b
  <2>3. TypeOK'
    BY <2>1, <2>2, <1>a DEF TypeOK
  <2>4. BackendInv' /\ RecoveryInv' /\ OpenFileInv'
    BY <2>1, <1>a DEF BackendInv, RecoveryInv, OpenFileInv
  <2> QED BY <2>3, <2>4 DEF ControlInv
<1>3. CASE CleanRestart
  <2>1. /\ mode = "run" /\ flushed' = Len(wal) /\ redoPtr' = Len(wal) /\ bootPtr' = Len(wal)
        /\ LoseMemory /\ wal' = wal /\ mode' = mode /\ replayed' = replayed
    BY <1>3 DEF CleanRestart
  <2>2. /\ Len(wal') \in SegSize..MaxWal /\ flushed <= flushed' /\ redoPtr' \in SegSize..flushed'
        /\ replayed' \in 0..Len(wal')
    BY <2>1, <1>b
  <2> QED BY <2>1, <2>2, <1>b, LoseMemoryControl
<1>4. ASSUME NEW end \in 1..MaxWal, Crash(end) PROVE ControlInv'
  <2>1. /\ end \in flushed..Len(wal) /\ wal' = SubSeq(wal, 1, end) /\ flushed' = end
        /\ bootPtr' = end /\ mode' = "recover" /\ replayed' = redoPtr /\ LoseMemory
        /\ redoPtr' = redoPtr
    BY <1>4 DEF Crash
  <2>2. wal' \in Seq(WalRecord) /\ Len(wal') = end
    BY <2>1, <1>a, TruncatedWal
  <2>3. /\ Len(wal') \in SegSize..MaxWal /\ flushed <= flushed' /\ redoPtr' \in SegSize..flushed'
        /\ replayed' \in 0..Len(wal')
    BY <2>1, <2>2, <1>b
  <2> QED BY <2>1, <2>2, <2>3, LoseMemoryControl
<1>5. CASE PartdistRedo
  <2> DEFINE r == wal[replayed + 1]
             s == FileSeg(r.orig)
  <2>1. /\ mode = "recover" /\ replayed < Len(wal) /\ replayed' = replayed + 1
        /\ parwal' = IF r.part = NoPart \/ RedoAlreadyWritten(r) THEN parwal
                     ELSE [parwal EXCEPT ![r.part][s] = Append(@, r)]
        /\ wal' = wal /\ flushed' = flushed /\ redoPtr' = redoPtr /\ mode' = mode
        /\ bk' = bk /\ lsnHash' = lsnHash /\ demux' = demux
        /\ startLSN' = startLSN /\ endRecPtr' = endRecPtr /\ readSeg' = readSeg
        /\ writers' = writers /\ lastProcessed' = lastProcessed /\ saveCounter' = saveCounter
        /\ progress' = progress /\ bootPtr' = bootPtr /\ restarts' = restarts
    BY <1>5 DEF PartdistRedo, WriteHeaderToFile, demuxVars, ghostVars
  <2>2. replayed' \in 0..Len(wal) /\ replayed + 1 \in 1..Len(wal)
    BY <2>1, <1>b
  <2>3. r.part # NoPart => r \in Header /\ r.part \in Partition /\ s \in Segment
    BY <2>2, <1>a, NextRecordType
  <2>4. parwal \in [Partition -> [Segment -> Seq(Header)]]
    BY <1>a DEF TypeOK
  <2>5. parwal' \in [Partition -> [Segment -> Seq(Header)]]
    <3> HIDE DEF r, s
    <3>1. CASE r.part # NoPart
      <4>1. Append(parwal[r.part][s], r) \in Seq(Header)
        BY <3>1, <2>3, <2>4
      <4> QED BY <4>1, <3>1, <2>1, <2>3, <2>4
    <3> QED BY <3>1, <2>1, <2>4
  <2>6. TypeOK'
    BY <2>1, <2>2, <2>5, <1>a DEF TypeOK
  <2>7. BackendInv' /\ RecoveryInv' /\ OpenFileInv'
    BY <2>1, <1>a DEF BackendInv, RecoveryInv, OpenFileInv
  <2> QED BY <2>6, <2>7 DEF ControlInv
<1>6. CASE EndRecovery
  <2>1. /\ mode = "recover" /\ mode' = "run" /\ replayed' = 0 /\ redoPtr' = Len(wal)
        /\ wal' = wal /\ flushed' = flushed
        /\ bk' = bk /\ lsnHash' = lsnHash /\ parwal' = parwal /\ demux' = demux
        /\ startLSN' = startLSN /\ endRecPtr' = endRecPtr /\ readSeg' = readSeg
        /\ writers' = writers /\ lastProcessed' = lastProcessed /\ saveCounter' = saveCounter
        /\ progress' = progress /\ bootPtr' = bootPtr /\ restarts' = restarts
    BY <1>6 DEF EndRecovery, demuxVars, ghostVars
  <2>2. flushed = Len(wal)
    BY <2>1, <1>a DEF RecoveryInv
  <2>3. redoPtr' \in SegSize..flushed /\ replayed' \in 0..Len(wal)
    BY <2>1, <2>2, <1>b
  <2>4. TypeOK'
    BY <2>1, <2>3, <1>a DEF TypeOK
  <2>5. BackendInv' /\ RecoveryInv' /\ OpenFileInv'
    BY <2>1, <1>a DEF BackendInv, RecoveryInv, OpenFileInv
  <2> QED BY <2>4, <2>5 DEF ControlInv
<1> QED BY <1>1, <1>2, <1>3, <1>4, <1>5, <1>6 DEF ServerStep

LEMMA ControlNext == ControlInv /\ [Next]_vars => ControlInv'
<1> SUFFICES ASSUME ControlInv, [Next]_vars PROVE ControlInv'
  OBVIOUS
<1>1. CASE \E b \in Backend : BackendStep(b)
  BY <1>1, ControlBackend
<1>2. CASE DemuxStart \/ DemuxLoop \/ DemuxStop
  BY <1>2, ControlDemux
<1>3. CASE ServerStep
  BY <1>3, ControlServer
<1>4. CASE UNCHANGED vars
  <2>1. /\ wal' = wal /\ flushed' = flushed /\ redoPtr' = redoPtr /\ mode' = mode
        /\ replayed' = replayed /\ bk' = bk /\ lsnHash' = lsnHash /\ parwal' = parwal
        /\ demux' = demux /\ startLSN' = startLSN /\ endRecPtr' = endRecPtr
        /\ readSeg' = readSeg /\ writers' = writers /\ lastProcessed' = lastProcessed
        /\ saveCounter' = saveCounter /\ progress' = progress /\ bootPtr' = bootPtr
        /\ restarts' = restarts
    BY <1>4 DEF vars
  <2> QED BY <2>1 DEF ControlInv, TypeOK, BackendInv, RecoveryInv, OpenFileInv
<1> QED BY <1>1, <1>2, <1>3, <1>4 DEF Next

\* Every behaviour keeps the types: positions are ordered (startLSN, endRecPtr,
\* flushed, end of the WAL; redo pointer and progress file below flushed;
\* last_processed_lsn never ahead of the reader), files hold headers only.
THEOREM TypeCorrect == Spec => []TypeOK
<1>1. Spec => []ControlInv
  BY ControlInit, ControlNext, PTL DEF Spec
<1>2. ControlInv => TypeOK
  BY DEF ControlInv
<1> QED BY <1>1, <1>2, PTL
-----------------------------------------------------------------------------
(***************************************************************************)
(* No partition_lsn is handed out twice between two starts of the server.  *)
(***************************************************************************)

LsnInv == CounterInv /\ LsnUnique

\* A step that hands out nothing: the table stays, the WAL gets records of
\* other resource managers at most, no backend comes to the insert.
LEMMA LsnFrame ==
    ASSUME LsnInv, TypeOK, bootPtr' = bootPtr, lsnHash' = lsnHash,
           Len(wal') \in Nat, Len(wal) <= Len(wal'),
           \A i \in 1..Len(wal) : wal'[i] = wal[i],
           \A i \in Len(wal) + 1..Len(wal') : wal'[i].part = NoPart,
           \A b \in Backend : bk'[b].pc = "insert" =>
               bk[b].pc = "insert" /\ bk'[b].part = bk[b].part /\ bk'[b].lsn = bk[b].lsn,
           \A b \in Backend : bk[b].pc = "insert" => bk[b].part \in Partition
    PROVE  LsnInv'
<1>1. CASE "reset" \in Env
  BY <1>1 DEF LsnInv, CounterInv, LsnUnique
<1>2. CASE "reset" \notin Env
  <2>1. Len(wal) \in Nat /\ bootPtr \in Nat
    BY SizeAssumption DEF TypeOK
  <2>2. ASSUME NEW i \in bootPtr + 1..Len(wal'), wal'[i].part # NoPart
        PROVE  i \in bootPtr + 1..Len(wal) /\ wal'[i] = wal[i]
    BY <2>1, <2>2
  <2>3. CounterInv'
    BY <2>2, <1>2 DEF LsnInv, CounterInv
  <2>4. ASSUME NEW i \in bootPtr + 1..Len(wal'), NEW j \in bootPtr + 1..Len(wal'),
               i # j, wal'[i].part # NoPart, wal'[i].part = wal'[j].part
        PROVE  wal'[i].lsn # wal'[j].lsn
    BY <2>2, <2>4, <1>2 DEF LsnInv, LsnUnique, SamePart
  <2>5. ASSUME NEW b \in Backend, bk'[b].pc = "insert",
               NEW i \in bootPtr + 1..Len(wal'), wal'[i].part = bk'[b].part
        PROVE  wal'[i].lsn # bk'[b].lsn
    <3>1. wal'[i].part # NoPart
      BY <2>5, NameAssumption
    <3> QED BY <3>1, <2>2, <2>5, <1>2 DEF LsnInv, LsnUnique
  <2>6. ASSUME NEW b \in Backend, bk'[b].pc = "insert", NEW c \in Backend \ {b},
               bk'[c].pc = "insert", bk'[c].part = bk'[b].part
        PROVE  bk'[c].lsn # bk'[b].lsn
    BY <2>6, <1>2 DEF LsnInv, LsnUnique
  <2>7. LsnUnique'
    BY <2>4, <2>5, <2>6 DEF LsnUnique, SamePart
  <2> QED BY <2>3, <2>7 DEF LsnInv
<1> QED BY <1>1, <1>2

\* A restart begins a new session: nothing handed out yet.
LEMMA LsnNewSession ==
    ASSUME bootPtr' = Len(wal'), Len(wal') \in Nat, \A b \in Backend : bk'[b].pc = "idle"
    PROVE  LsnInv'
BY DEF LsnInv, CounterInv, LsnUnique

LEMMA LsnInit == Init => LsnInv
<1> SUFFICES ASSUME Init PROVE LsnInv
  OBVIOUS
<1>1. bootPtr = Len(wal) /\ Len(wal) \in Nat
  BY SizeAssumption DEF Init
<1>2. \A b \in Backend : bk[b].pc = "idle"
  BY DEF Init, IdleBackend
<1> QED BY <1>1, <1>2 DEF LsnInv, CounterInv, LsnUnique

\* The allocation under the exclusive lock.
LEMMA LsnAllocEnter ==
    ASSUME ControlInv, LsnInv, NEW b \in Backend, AllocEnter(b)
    PROVE  LsnInv'
<1> DEFINE p == bk[b].part
           result == NextLsn(b)
<1>a. TypeOK /\ BackendInv
  BY DEF ControlInv
<1>b. /\ bk \in [Backend -> BackendState] /\ lsnHash \in [Partition -> Nat]
      /\ bk[b].pc = "enter" /\ wal' = wal /\ bootPtr' = bootPtr
      /\ lsnHash' = [lsnHash EXCEPT ![p] = result + 1]
  BY <1>a DEF AllocEnter, TypeOK, walVars, ghostVars
<1>c. /\ p \in Partition /\ bk[b].init \in Nat /\ bk[b].init >= 1
  BY <1>a, <1>b DEF BackendInv, BackendOK, BackendState
<1>d. result \in Nat /\ (lsnHash[p] # 0 => result = lsnHash[p])
  BY <1>b, <1>c DEF NextLsn
<1>e. \A c \in Backend \ {b} : bk'[c] = bk[c]
  BY <1>b DEF AllocEnter
<1>f. bk'[b].pc = "insert" => bk'[b].part = p /\ bk'[b].lsn = result
  <2>1. CASE bk[b].op = "alloc"
    BY <2>1, <1>b DEF AllocEnter, IdleBackend
  <2>2. CASE bk[b].op # "alloc"
    <3>1. bk'[b] = [bk[b] EXCEPT !.pc = "insert", !.lsn = result, !.init = 0]
      BY <2>2, <1>b DEF AllocEnter
    <3> QED BY <3>1, <1>b DEF BackendState
  <2> QED BY <2>1, <2>2
<1> HIDE DEF result
<1>1. CASE "reset" \in Env
  BY <1>1 DEF LsnInv, CounterInv, LsnUnique
<1>2. CASE "reset" \notin Env
  <2>1. ASSUME NEW i \in bootPtr + 1..Len(wal), wal[i].part # NoPart
        PROVE  /\ wal[i].part \in Partition /\ wal[i].lsn \in Nat
               /\ wal[i].lsn < lsnHash[wal[i].part]
               /\ wal[i].part = p => wal[i].lsn < result
    <3>1. i \in 1..Len(wal)
      BY <1>a, SizeAssumption DEF TypeOK
    <3>2. wal[i].part \in Partition /\ wal[i].lsn \in Nat
      BY <3>1, <2>1, <1>a, NextRecordType
    <3>3. wal[i].lsn < lsnHash[wal[i].part]
      BY <2>1, <1>2 DEF LsnInv, CounterInv
    <3> QED BY <3>2, <3>3, <1>b, <1>d
  <2>2. ASSUME NEW c \in Backend, bk[c].pc = "insert"
        PROVE  /\ bk[c].part \in Partition /\ bk[c].lsn \in Nat
               /\ bk[c].lsn < lsnHash[bk[c].part]
               /\ bk[c].part = p => bk[c].lsn < result
    <3>1. bk[c].part \in Partition /\ bk[c].lsn \in Nat
      BY <2>2, <1>a, <1>b DEF BackendInv, BackendOK, BackendState
    <3>2. bk[c].lsn < lsnHash[bk[c].part]
      BY <2>2, <1>2 DEF LsnInv, CounterInv
    <3> QED BY <3>1, <3>2, <1>b, <1>d
  <2>3. CounterInv'
    <3>1. ASSUME NEW i \in bootPtr + 1..Len(wal), wal[i].part # NoPart
          PROVE  wal[i].lsn < lsnHash'[wal[i].part]
      <4>1. CASE wal[i].part = p
        BY <4>1, <3>1, <2>1, <1>b, <1>c, <1>d
      <4>2. CASE wal[i].part # p
        BY <4>2, <3>1, <2>1, <1>b
      <4> QED BY <4>1, <4>2
    <3>2. ASSUME NEW c \in Backend, bk'[c].pc = "insert"
          PROVE  bk'[c].lsn < lsnHash'[bk'[c].part]
      <4>1. CASE c = b
        BY <4>1, <3>2, <1>b, <1>c, <1>d, <1>f
      <4>2. CASE c # b
        <5>1. bk'[c] = bk[c]
          BY <4>2, <1>e
        <5>2. CASE bk[c].part = p
          BY <5>1, <5>2, <3>2, <2>2, <1>b, <1>c, <1>d
        <5>3. CASE bk[c].part # p
          BY <5>1, <5>3, <3>2, <2>2, <1>b
        <5> QED BY <5>2, <5>3
      <4> QED BY <4>1, <4>2
    <3> QED BY <3>1, <3>2, <1>b DEF CounterInv
  <2>4. ASSUME NEW c \in Backend, bk'[c].pc = "insert",
               NEW i \in bootPtr + 1..Len(wal), wal[i].part = bk'[c].part
        PROVE  wal[i].lsn # bk'[c].lsn
    <3>1. CASE c = b
      <4>1. wal[i].part = p /\ bk'[c].lsn = result
        BY <3>1, <2>4, <1>f
      <4>2. wal[i].part # NoPart
        BY <4>1, <1>c, NameAssumption
      <4> QED BY <4>1, <4>2, <2>1, <1>d
    <3>2. CASE c # b
      BY <3>2, <2>4, <1>e, <1>2 DEF LsnInv, LsnUnique
    <3> QED BY <3>1, <3>2
  <2>5. ASSUME NEW c \in Backend, bk'[c].pc = "insert", NEW d \in Backend \ {c},
               bk'[d].pc = "insert", bk'[d].part = bk'[c].part
        PROVE  bk'[d].lsn # bk'[c].lsn
    <3>1. CASE c = b
      <4>1. bk'[d] = bk[d]
        BY <3>1, <1>e
      <4> QED BY <4>1, <3>1, <2>2, <2>5, <1>d, <1>f
    <3>2. CASE d = b
      <4>1. bk'[c] = bk[c]
        BY <3>2, <1>e
      <4> QED BY <4>1, <3>2, <2>2, <2>5, <1>d, <1>f
    <3>3. CASE c # b /\ d # b
      <4>1. bk'[c] = bk[c] /\ bk'[d] = bk[d]
        BY <3>3, <1>e
      <4> QED BY <4>1, <2>5, <1>2 DEF LsnInv, LsnUnique
    <3> QED BY <3>1, <3>2, <3>3
  <2>6. LsnUnique'
    <3>1. \A i, j \in bootPtr + 1..Len(wal) :
             i # j /\ SamePart(i, j) => wal[i].lsn # wal[j].lsn
      BY <1>2 DEF LsnInv, LsnUnique
    <3> QED BY <3>1, <2>4, <2>5, <1>b DEF LsnUnique, SamePart
  <2> QED BY <2>3, <2>6 DEF LsnInv
<1> QED BY <1>1, <1>2

\* The allocated number goes from the backend into the WAL.
LEMMA LsnXLogInsert ==
    ASSUME ControlInv, LsnInv, NEW b \in Backend, XLogInsert(b)
    PROVE  LsnInv'
<1> DEFINE h == [part |-> bk[b].part, lsn |-> bk[b].lsn, orig |-> bk[b].ptr]
<1>a. TypeOK /\ BackendInv
  BY DEF ControlInv
<1>b. /\ bk \in [Backend -> BackendState] /\ bk[b].pc = "insert"
      /\ wal' = Append(wal, h) /\ bootPtr' = bootPtr /\ lsnHash' = lsnHash
  BY <1>a DEF XLogInsert, TypeOK, ghostVars
<1>g. Len(wal) \in Nat /\ bootPtr \in Nat /\ bootPtr <= Len(wal) /\ wal \in Seq(WalRecord)
  BY <1>a, SizeAssumption DEF TypeOK
<1>c. Len(wal') = Len(wal) + 1 /\ wal'[Len(wal) + 1] = h
      /\ \A i \in 1..Len(wal) : wal'[i] = wal[i]
  BY <1>b, <1>g
<1>d. bk'[b].pc # "insert" /\ \A c \in Backend \ {b} : bk'[c] = bk[c]
  <2>1. bk'[b] = [bk[b] EXCEPT !.pc = "flush", !.lsn = 0, !.xlast = Len(wal) + 1]
    BY <1>b DEF XLogInsert
  <2> QED BY <2>1, <1>b DEF XLogInsert, BackendState
<1>1. CASE "reset" \in Env
  BY <1>1 DEF LsnInv, CounterInv, LsnUnique
<1>2. CASE "reset" \notin Env
  <2>1. ASSUME NEW i \in bootPtr + 1..Len(wal')
        PROVE  \/ i \in bootPtr + 1..Len(wal) /\ wal'[i] = wal[i]
               \/ i = Len(wal) + 1 /\ wal'[i].part = bk[b].part /\ wal'[i].lsn = bk[b].lsn
    BY <1>b, <1>c, <1>g
  <2>2. CounterInv'
    BY <2>1, <1>b, <1>d, <1>2, ZenonT(60) DEF LsnInv, CounterInv
  <2>3. ASSUME NEW i \in bootPtr + 1..Len(wal'), NEW j \in bootPtr + 1..Len(wal'),
               i # j, wal'[i].part # NoPart, wal'[i].part = wal'[j].part
        PROVE  wal'[i].lsn # wal'[j].lsn
    <3>1. CASE i \in bootPtr + 1..Len(wal) /\ j \in bootPtr + 1..Len(wal)
      <4>1. wal'[i] = wal[i] /\ wal'[j] = wal[j]
        BY <3>1, <1>c, <1>g
      <4> QED BY <4>1, <3>1, <2>3, <1>2 DEF LsnInv, LsnUnique, SamePart
    <3>2. \A k \in bootPtr + 1..Len(wal) : wal[k].part = bk[b].part => wal[k].lsn # bk[b].lsn
      BY <1>b, <1>2 DEF LsnInv, LsnUnique
    <3>3. CASE i = Len(wal) + 1 \/ j = Len(wal) + 1
      BY <3>2, <3>3, <2>1, <2>3, <1>g
    <3> QED BY <3>1, <3>3, <2>1
  <2>4. ASSUME NEW c \in Backend, bk'[c].pc = "insert",
               NEW i \in bootPtr + 1..Len(wal'), wal'[i].part = bk'[c].part
        PROVE  wal'[i].lsn # bk'[c].lsn
    <3>1. c # b /\ bk'[c] = bk[c]
      BY <2>4, <1>d
    <3>2. CASE i \in bootPtr + 1..Len(wal) /\ wal'[i] = wal[i]
      BY <3>1, <3>2, <2>4, <1>2 DEF LsnInv, LsnUnique
    <3>3. CASE wal'[i].part = bk[b].part /\ wal'[i].lsn = bk[b].lsn
      BY <3>1, <3>3, <2>4, <1>b, <1>2 DEF LsnInv, LsnUnique
    <3> QED BY <3>2, <3>3, <2>1
  <2>5. ASSUME NEW c \in Backend, bk'[c].pc = "insert", NEW d \in Backend \ {c},
               bk'[d].pc = "insert", bk'[d].part = bk'[c].part
        PROVE  bk'[d].lsn # bk'[c].lsn
    BY <2>5, <1>d, <1>2 DEF LsnInv, LsnUnique
  <2>6. LsnUnique'
    <3>1. bootPtr' = bootPtr
      BY <1>b
    <3> QED BY <3>1, <2>3, <2>4, <2>5 DEF LsnUnique, SamePart
  <2> QED BY <2>2, <2>6 DEF LsnInv
<1> QED BY <1>1, <1>2

\* A step of backend b that does not bring it to the insert.
LEMMA LsnOtherBackendStep ==
    ASSUME ControlInv, LsnInv, bootPtr' = bootPtr, lsnHash' = lsnHash,
           wal' = wal \/ wal' = Append(wal, Other),
           NEW b \in Backend, NEW r, r.pc # "insert", bk' = [bk EXCEPT ![b] = r]
    PROVE  LsnInv'
<1>1. TypeOK /\ BackendInv
  BY DEF ControlInv
<1>2. wal \in Seq(WalRecord) /\ Len(wal) \in Nat /\ bk \in [Backend -> BackendState]
  BY <1>1, SizeAssumption DEF TypeOK
<1>3. /\ Len(wal') \in Nat /\ Len(wal) <= Len(wal')
      /\ \A i \in 1..Len(wal) : wal'[i] = wal[i]
      /\ \A i \in Len(wal) + 1..Len(wal') : wal'[i].part = NoPart
  <2>1. CASE wal' = wal
    BY <2>1, <1>2
  <2>2. CASE wal' = Append(wal, Other)
    <3>1. Other \in WalRecord /\ Other.part = NoPart
      BY DEF WalRecord, Other
    <3>2. Len(wal') = Len(wal) + 1 /\ wal'[Len(wal) + 1] = Other
          /\ \A i \in 1..Len(wal) : wal'[i] = wal[i]
      BY <2>2, <3>1, <1>2
    <3> QED BY <3>1, <3>2, <1>2
  <2> QED BY <2>1, <2>2
<1>4. \A c \in Backend : bk'[c].pc = "insert" => bk'[c] = bk[c]
  BY <1>2
<1>5. \A c \in Backend : bk[c].pc = "insert" => bk[c].part \in Partition
  BY <1>1 DEF BackendInv, BackendOK
<1> QED BY <1>1, <1>3, <1>4, <1>5, LsnFrame

LEMMA LsnBackend ==
    ASSUME ControlInv, LsnInv, NEW b \in Backend, BackendStep(b)
    PROVE  LsnInv'
<1> USE DEF walVars, demuxVars, ghostVars
<1>a. bk[b] \in BackendState
  BY DEF ControlInv, TypeOK
<1> DEFINE done == [IdleBackend EXCEPT !.xlast = bk[b].xlast]
<1>b. done.pc # "insert" /\ IdleBackend.pc # "insert"
  BY DEF IdleBackend
<1>1. ASSUME NEW S \in SUBSET Partition, NEW logged \in BOOLEAN, ExecutorFinish(b, S, logged)
      PROVE  LsnInv'
  <2> DEFINE end  == IF logged THEN Len(wal) + 1 ELSE bk[b].xlast
             orig == IF end = 0 THEN Len(wal) ELSE end
             r == [bk[b] EXCEPT !.pc = "stmt", !.op = "write", !.rels = S, !.ptr = orig,
                                !.xlast = end]
  <2>1. r.pc # "insert"
    BY <1>a DEF BackendState
  <2>2. /\ bk' = [bk EXCEPT ![b] = r] /\ bootPtr' = bootPtr /\ lsnHash' = lsnHash
        /\ wal' = wal \/ wal' = Append(wal, Other)
    BY <1>1 DEF ExecutorFinish
  <2> HIDE DEF r
  <2> QED BY <2>1, <2>2, LsnOtherBackendStep
<1>2. ASSUME NEW p \in Partition, WritePartitionWALRecordSql(b, p) PROVE LsnInv'
  <2> DEFINE r == [bk[b] EXCEPT !.pc = "stmt", !.op = "write", !.rels = {p}, !.ptr = Len(wal)]
  <2>1. r.pc # "insert"
    BY <1>a DEF BackendState
  <2> QED BY <2>1, <1>2, LsnOtherBackendStep DEF WritePartitionWALRecordSql
<1>3. ASSUME NEW p \in Partition, AllocPartitionLSNSql(b, p) PROVE LsnInv'
  <2> DEFINE r == [bk[b] EXCEPT !.pc = "stmt", !.op = "alloc", !.rels = {p}]
  <2>1. r.pc # "insert"
    BY <1>a DEF BackendState
  <2> QED BY <2>1, <1>3, LsnOtherBackendStep DEF AllocPartitionLSNSql
<1>4. ASSUME NEW p \in Partition, AllocFind(b, p) PROVE LsnInv'
  <2> DEFINE r == [bk[b] EXCEPT !.pc = IF lsnHash[p] = 0 THEN "scan" ELSE "enter",
                                !.rels = bk[b].rels \ {p}, !.part = p, !.init = 1]
  <2>1. r.pc # "insert"
    BY <1>a DEF BackendState
  <2> QED BY <2>1, <1>4, LsnOtherBackendStep DEF AllocFind
<1>5. ASSUME NEW p \in Partition, ResetRemoveEntry(b, p) PROVE LsnInv'
  BY <1>5 DEF ResetRemoveEntry, LsnInv, CounterInv, LsnUnique
<1>6. ASSUME NEW p \in Partition, NEW keep \in 1..MaxWal, CleanupOpenDir(b, p, keep) PROVE LsnInv'
  <2> DEFINE r == [bk[b] EXCEPT !.pc = "unlink", !.op = "cleanup", !.part = p,
                     !.todo = {s \in FilesOf(p) : (s + 1) * SegSize <= keep}]
  <2>1. r.pc # "insert"
    BY <1>a DEF BackendState
  <2> QED BY <2>1, <1>6, LsnOtherBackendStep DEF CleanupOpenDir
<1>7. CASE EndXact(b)
  <2> DEFINE r == [bk[b] EXCEPT !.xlast = 0]
  <2>1. r.pc # "insert"
    BY <1>7, <1>a DEF BackendState, EndXact, Idle
  <2> QED BY <2>1, <1>7, LsnOtherBackendStep DEF EndXact
<1>8. CASE AllocScan(b)
  <2> DEFINE last == GetLastWrittenPartitionLSN(bk[b].part)
             r == [bk[b] EXCEPT !.pc = "enter", !.init = IF last > 0 THEN last + 1 ELSE 1]
  <2>1. r.pc # "insert"
    BY <1>a DEF BackendState
  <2> QED BY <2>1, <1>8, LsnOtherBackendStep DEF AllocScan
<1>9. CASE AllocEnter(b)
  BY <1>9, LsnAllocEnter
<1>10. CASE AllocFull(b)
  BY <1>10, <1>b, LsnOtherBackendStep DEF AllocFull
<1>11. CASE XLogInsert(b)
  BY <1>11, LsnXLogInsert
<1>12. CASE XLogFlush(b)
  <2> DEFINE more == [bk[b] EXCEPT !.pc = "stmt", !.part = NoPart]
             r == IF bk[b].rels = {} THEN done ELSE more
  <2>1. r.pc # "insert"
    BY <1>a, <1>b DEF BackendState
  <2>2. bk' = [bk EXCEPT ![b] = r] /\ bootPtr' = bootPtr /\ lsnHash' = lsnHash /\ wal' = wal
    BY <1>12 DEF XLogFlush
  <2> QED BY <2>1, <2>2, LsnOtherBackendStep
<1>13. CASE DemuxFlushCall(b)
  <2> DEFINE r == [bk[b] EXCEPT !.pc = "wait", !.op = "flush", !.ptr = flushed]
  <2>1. r.pc # "insert"
    BY <1>a DEF BackendState
  <2> QED BY <2>1, <1>13, LsnOtherBackendStep DEF DemuxFlushCall
<1>14. CASE DemuxFlushReturn(b) \/ DemuxFlushTimeout(b)
  BY <1>14, <1>b, LsnOtherBackendStep DEF DemuxFlushReturn, DemuxFlushTimeout
<1>15. ASSUME NEW s \in Segment, UnlinkFile(b, s) PROVE LsnInv'
  <2> DEFINE r == [bk[b] EXCEPT !.todo = bk[b].todo \ {s}]
  <2>1. r.pc # "insert" /\ bk' = [bk EXCEPT ![b] = r]
    BY <1>15, <1>a DEF BackendState, UnlinkFile
  <2> QED BY <2>1, <1>15, LsnOtherBackendStep DEF UnlinkFile
<1>16. CASE CloseDir(b)
  BY <1>16, <1>b, LsnOtherBackendStep DEF CloseDir
<1>17. CASE ResetOpenDir(b)
  <2> DEFINE r == [bk[b] EXCEPT !.pc = "unlink", !.todo = FilesOf(bk[b].part)]
  <2>1. r.pc # "insert"
    BY <1>a DEF BackendState
  <2> QED BY <2>1, <1>17, LsnOtherBackendStep DEF ResetOpenDir
<1> QED
  BY <1>1, <1>2, <1>3, <1>4, <1>5, <1>6, <1>7, <1>8, <1>9, <1>10, <1>11, <1>12, <1>13, <1>14,
     <1>15, <1>16, <1>17 DEF BackendStep

LEMMA LsnNext == ControlInv /\ LsnInv /\ [Next]_vars => LsnInv'
<1> SUFFICES ASSUME ControlInv, LsnInv, [Next]_vars PROVE LsnInv'
  OBVIOUS
<1>a. TypeOK
  BY DEF ControlInv
<1>b. Len(wal) \in Nat /\ flushed \in Nat
  BY <1>a, SizeAssumption DEF TypeOK
<1>1. CASE \E b \in Backend : BackendStep(b)
  BY <1>1, LsnBackend
<1>2. ASSUME UNCHANGED <<wal, bk, lsnHash, bootPtr>> PROVE LsnInv'
  <2>1. wal' = wal /\ bk' = bk /\ lsnHash' = lsnHash /\ bootPtr' = bootPtr
    BY <1>2
  <2> QED BY <2>1 DEF LsnInv, CounterInv, LsnUnique, SamePart
<1>3. CASE DemuxStart \/ DemuxLoop \/ DemuxStop
  <2>1. UNCHANGED <<wal, bk, lsnHash, bootPtr>>
    BY <1>3 DEF DemuxLoop, DemuxStart, DemuxStop, DemuxCaughtUp, DemuxSegmentGone, DemuxOther,
                DemuxNoWriter, DemuxDuplicate, DemuxWrite, DemuxPublish, walVars, ghostVars
  <2> QED BY <2>1, <1>2
<1>4. CASE WalWriterFlush \/ Checkpoint \/ PartdistRedo \/ EndRecovery
  <2>1. UNCHANGED <<wal, bk, lsnHash, bootPtr>>
    BY <1>4 DEF WalWriterFlush, Checkpoint, PartdistRedo, EndRecovery, ghostVars
  <2> QED BY <2>1, <1>2
<1>5. CASE CleanRestart
  <2>1. bootPtr' = Len(wal') /\ Len(wal') \in Nat /\ \A b \in Backend : bk'[b].pc = "idle"
    BY <1>5, <1>b DEF CleanRestart, LoseMemory, IdleBackend
  <2> QED BY <2>1, LsnNewSession
<1>6. ASSUME NEW end \in 1..MaxWal, Crash(end) PROVE LsnInv'
  <2>1. end \in flushed..Len(wal) /\ wal' = SubSeq(wal, 1, end) /\ bootPtr' = end
    BY <1>6 DEF Crash
  <2>2. Len(wal') = end /\ end \in Nat
    BY <2>1, <1>a, <1>b, TruncatedWal
  <2>3. \A b \in Backend : bk'[b].pc = "idle"
    BY <1>6 DEF Crash, LoseMemory, IdleBackend
  <2> QED BY <2>1, <2>2, <2>3, LsnNewSession
<1>7. CASE UNCHANGED vars
  BY <1>7, <1>2 DEF vars
<1> QED BY <1>1, <1>3, <1>4, <1>5, <1>6, <1>7 DEF Next, ServerStep

\* Between two starts of the server AllocPartitionLSN never hands out a number
\* twice, for any number of backends and partitions.
THEOREM LsnUniqueness == Spec => []LsnUnique
<1>1. Init => ControlInv /\ LsnInv
  BY ControlInit, LsnInit
<1>2. ControlInv /\ LsnInv /\ [Next]_vars => (ControlInv /\ LsnInv)'
  BY ControlNext, LsnNext
<1>3. ControlInv /\ LsnInv => LsnUnique
  BY DEF LsnInv
<1> QED BY <1>1, <1>2, <1>3, PTL DEF Spec
=============================================================================

----------------------- MODULE PartWalRecoveryProofs -----------------------
(***************************************************************************)
(* What recovery restores, and what one client sees of it.                 *)
(*                                                                         *)
(* Redo looks at the last LSN on disk only, so it finds what is missing as *)
(* long as no header is on disk before an earlier one (EarlierFirst).  The *)
(* demux keeps this: it reads the WAL in order from the redo pointer on,   *)
(* below which everything is on disk (RestartControl, RestoreInv), and has *)
(* routed what it has read (RoutedInv).  A header on disk is identified    *)
(* with its record in the WAL because no two headers are equal             *)
(* (HeadersDiffer), which orig_node_lsn ensures where LSNs may repeat.     *)
(*                                                                         *)
(* With one client the LSNs in the WAL ascend (SerialInv): the counter is  *)
(* above them, and after a crash the scan of the files finds the highest.  *)
(* Nothing is overtaken then, so that recovery and demux_flush() miss      *)
(* nothing.  Without alloc_partition_lsn() the LSNs have no gaps either    *)
(* (DenseInv), and the files read one after the other are 1, 2, 3, ...     *)
(* The whole is then a refinement of PartitionLog.                         *)
(***************************************************************************)
EXTENDS PartWalDiskProofs

(***************************************************************************)
(* What a step of a backend does to the WAL and to its own record          *)
(***************************************************************************)

\* b is the only backend that moves, the WAL gets at most one record, and
\* orig_node_lsn is chosen when a statement starts.
Moved(b) ==
    /\ bk' \in [Backend -> BackendState] /\ \A c \in Backend \ {b} : bk'[c] = bk[c]
    /\ mode' = mode /\ redoPtr' = redoPtr /\ replayed' = replayed /\ bootPtr' = bootPtr
    /\ \/ wal' = wal /\ bk'[b].xlast \in {0, bk[b].xlast}
       \/ wal' = Append(wal, Other) /\ bk[b].pc = "idle" /\ ServerReady /\ bk'[b].xlast = Len(wal) + 1
       \/ XLogInsert(b)
    /\ bk'[b].op = "write" =>
          \/ bk[b].op = "write" /\ bk'[b].ptr = bk[b].ptr
          \/ /\ bk[b].pc = "idle" /\ ServerReady
             /\ \/ wal' = wal /\ bk'[b].ptr = Len(wal)
                \/ wal' = wal /\ bk'[b].ptr = bk[b].xlast /\ bk[b].xlast # 0
                \/ wal' = Append(wal, Other) /\ bk'[b].ptr = Len(wal) + 1
    /\ lsnHash' = lsnHash \/ AllocEnter(b) \/ "reset" \in Env
    /\ bk'[b].op = "alloc" => bk[b].op = "alloc" \/ "alloc" \in Env
    /\ bk'[b].pc = "insert" => AllocEnter(b)
    /\ bk'[b].pc = "enter" => (\E p \in Partition : AllocFind(b, p)) \/ AllocScan(b)

LEMMA BackendMoved ==
    ASSUME ControlInv, ControlInv', NEW b \in Backend, BackendStep(b)
    PROVE  Moved(b)
<1> USE DEF walVars, demuxVars, ghostVars
<1>a. /\ bk' \in [Backend -> BackendState] /\ bk \in [Backend -> BackendState]
      /\ bk[b] \in BackendState /\ Len(wal) \in Nat
  <2>0. TypeOK
    BY DEF ControlInv
  <2>1. bk \in [Backend -> BackendState] /\ Len(wal) \in Nat
    BY <2>0, SizeAssumption DEF TypeOK
  <2>2. bk' \in [Backend -> BackendState]
    BY DEF ControlInv, TypeOK
  <2> QED BY <2>1, <2>2
<1> DEFINE done == [IdleBackend EXCEPT !.xlast = bk[b].xlast]
<1>b. /\ done.pc = "idle" /\ done.op = "none" /\ done.xlast = bk[b].xlast
      /\ IdleBackend.pc = "idle" /\ IdleBackend.op = "none" /\ IdleBackend.xlast = 0
  BY DEF IdleBackend
<1> HIDE DEF done
<1>1. ASSUME NEW S \in SUBSET Partition, NEW logged \in BOOLEAN, ExecutorFinish(b, S, logged)
      PROVE  Moved(b)
  <2> DEFINE end  == IF logged THEN Len(wal) + 1 ELSE bk[b].xlast
             orig == IF end = 0 THEN Len(wal) ELSE end
             r == [bk[b] EXCEPT !.pc = "stmt", !.op = "write", !.rels = S, !.ptr = orig,
                                !.xlast = end]
  <2>1. r.pc = "stmt" /\ r.op = "write" /\ r.ptr = orig /\ r.xlast = end
    BY <1>a DEF BackendState
  <2>2. /\ bk' = [bk EXCEPT ![b] = r] /\ bootPtr' = bootPtr /\ lsnHash' = lsnHash
        /\ wal' = IF logged THEN Append(wal, Other) ELSE wal
        /\ mode' = mode /\ redoPtr' = redoPtr /\ replayed' = replayed
        /\ bk[b].pc = "idle" /\ ServerReady
    BY <1>1 DEF ExecutorFinish, Idle
  <2> HIDE DEF r
  <2>3. bk'[b] = r /\ \A c \in Backend \ {b} : bk'[c] = bk[c]
    BY <2>2, <1>a
  <2>4. CASE logged
    <3>1. end = Len(wal) + 1 /\ orig = Len(wal) + 1 /\ wal' = Append(wal, Other)
      BY <2>2, <2>4, <1>a
    <3> HIDE DEF end, orig
    <3> QED BY <1>a, <2>1, <2>2, <2>3, <3>1 DEF Moved
  <2>5. CASE ~logged
    <3>1. /\ end = bk[b].xlast /\ wal' = wal
          /\ orig = Len(wal) \/ (orig = bk[b].xlast /\ bk[b].xlast # 0)
      BY <2>2, <2>5
    <3> HIDE DEF end, orig
    <3> QED BY <1>a, <2>1, <2>2, <2>3, <3>1 DEF Moved
  <2> QED BY <2>4, <2>5
<1>2. ASSUME NEW p \in Partition, WritePartitionWALRecordSql(b, p) PROVE Moved(b)
  <2> DEFINE r == [bk[b] EXCEPT !.pc = "stmt", !.op = "write", !.rels = {p}, !.ptr = Len(wal)]
  <2>1. r.pc = "stmt" /\ r.op = "write" /\ r.ptr = Len(wal) /\ r.xlast = bk[b].xlast
    BY <1>a DEF BackendState
  <2> HIDE DEF r
  <2>2. bk' = [bk EXCEPT ![b] = r]
    BY <1>2 DEF WritePartitionWALRecordSql, r
  <2>3. bk'[b] = r /\ \A c \in Backend \ {b} : bk'[c] = bk[c]
    BY <2>2, <1>a
  <2> QED BY <1>2, <1>a, <2>1, <2>3 DEF Moved, WritePartitionWALRecordSql, Idle
<1>3. ASSUME NEW p \in Partition, AllocPartitionLSNSql(b, p) PROVE Moved(b)
  <2> DEFINE r == [bk[b] EXCEPT !.pc = "stmt", !.op = "alloc", !.rels = {p}]
  <2>1. r.pc = "stmt" /\ r.op = "alloc" /\ r.xlast = bk[b].xlast
    BY <1>a DEF BackendState
  <2> HIDE DEF r
  <2>2. bk' = [bk EXCEPT ![b] = r]
    BY <1>3 DEF AllocPartitionLSNSql, r
  <2>3. bk'[b] = r /\ \A c \in Backend \ {b} : bk'[c] = bk[c]
    BY <2>2, <1>a
  <2> QED BY <1>3, <1>a, <2>1, <2>3 DEF Moved, AllocPartitionLSNSql
<1>4. ASSUME NEW p \in Partition, AllocFind(b, p) PROVE Moved(b)
  <2> DEFINE r == [bk[b] EXCEPT !.pc = IF lsnHash[p] = 0 THEN "scan" ELSE "enter",
                                !.rels = bk[b].rels \ {p}, !.part = p, !.init = 1]
  <2>1. r.pc # "insert" /\ r.op = bk[b].op /\ r.ptr = bk[b].ptr /\ r.xlast = bk[b].xlast
    BY <1>a DEF BackendState
  <2> HIDE DEF r
  <2>2. bk' = [bk EXCEPT ![b] = r]
    BY <1>4 DEF AllocFind, r
  <2>3. bk'[b] = r /\ \A c \in Backend \ {b} : bk'[c] = bk[c]
    BY <2>2, <1>a
  <2>4. lsnHash' = lsnHash /\ wal' = wal /\ mode' = mode /\ redoPtr' = redoPtr
        /\ replayed' = replayed /\ bootPtr' = bootPtr
    BY <1>4 DEF AllocFind
  <2> QED BY <1>4, <1>a, <2>1, <2>3, <2>4 DEF Moved
<1>5. ASSUME NEW p \in Partition, ResetRemoveEntry(b, p) PROVE Moved(b)
  <2> DEFINE r == [bk[b] EXCEPT !.pc = "opendir", !.op = "reset", !.part = p]
  <2>1. r.pc = "opendir" /\ r.op = "reset" /\ r.xlast = bk[b].xlast
    BY <1>a DEF BackendState
  <2> HIDE DEF r
  <2>2. bk' = [bk EXCEPT ![b] = r]
    BY <1>5 DEF ResetRemoveEntry, r
  <2>3. bk'[b] = r /\ \A c \in Backend \ {b} : bk'[c] = bk[c]
    BY <2>2, <1>a
  <2> QED BY <1>5, <1>a, <2>1, <2>3 DEF Moved, ResetRemoveEntry
<1>6. ASSUME NEW p \in Partition, NEW keep \in 1..MaxWal, CleanupOpenDir(b, p, keep) PROVE Moved(b)
  <2> DEFINE r == [bk[b] EXCEPT !.pc = "unlink", !.op = "cleanup", !.part = p,
                     !.todo = {s \in FilesOf(p) : (s + 1) * SegSize <= keep}]
  <2>1. r.pc = "unlink" /\ r.op = "cleanup" /\ r.xlast = bk[b].xlast
    BY <1>a DEF BackendState
  <2> HIDE DEF r
  <2>2. bk' = [bk EXCEPT ![b] = r]
    BY <1>6 DEF CleanupOpenDir, r
  <2>3. bk'[b] = r /\ \A c \in Backend \ {b} : bk'[c] = bk[c]
    BY <2>2, <1>a
  <2>4. lsnHash' = lsnHash /\ wal' = wal /\ mode' = mode /\ redoPtr' = redoPtr
        /\ replayed' = replayed /\ bootPtr' = bootPtr
    BY <1>6 DEF CleanupOpenDir
  <2> QED BY <1>a, <2>1, <2>3, <2>4 DEF Moved
<1>7. CASE EndXact(b)
  <2> DEFINE r == [bk[b] EXCEPT !.xlast = 0]
  <2>1. r.pc = "idle" /\ r.op = bk[b].op /\ r.ptr = bk[b].ptr /\ r.xlast = 0
    BY <1>7, <1>a DEF BackendState, EndXact, Idle
  <2> HIDE DEF r
  <2>2. bk' = [bk EXCEPT ![b] = r]
    BY <1>7 DEF EndXact, r
  <2>3. bk'[b] = r /\ \A c \in Backend \ {b} : bk'[c] = bk[c]
    BY <2>2, <1>a
  <2> QED BY <1>7, <1>a, <2>1, <2>3 DEF Moved, EndXact
<1>8. CASE AllocScan(b)
  <2> DEFINE last == GetLastWrittenPartitionLSN(bk[b].part)
             r == [bk[b] EXCEPT !.pc = "enter", !.init = IF last > 0 THEN last + 1 ELSE 1]
  <2>1. r.pc = "enter" /\ r.op = bk[b].op /\ r.ptr = bk[b].ptr /\ r.xlast = bk[b].xlast
    BY <1>a DEF BackendState
  <2> HIDE DEF r
  <2>2. bk' = [bk EXCEPT ![b] = r]
    BY <1>8 DEF AllocScan, r
  <2>3. bk'[b] = r /\ \A c \in Backend \ {b} : bk'[c] = bk[c]
    BY <2>2, <1>a
  <2>4. lsnHash' = lsnHash /\ wal' = wal /\ mode' = mode /\ redoPtr' = redoPtr
        /\ replayed' = replayed /\ bootPtr' = bootPtr
    BY <1>8 DEF AllocScan
  <2> QED BY <1>8, <1>a, <2>1, <2>3, <2>4 DEF Moved
<1>9. CASE AllocEnter(b)
  <2> DEFINE more == [bk[b] EXCEPT !.pc = "insert", !.lsn = NextLsn(b), !.init = 0]
             r == IF bk[b].op = "alloc" THEN done ELSE more
  <2>1. r.pc # "enter" /\ r.op \in {"none", bk[b].op} /\ r.xlast = bk[b].xlast
        /\ (r.op = bk[b].op => r.ptr = bk[b].ptr \/ bk[b].op # "write")
    BY <1>a, <1>b DEF BackendState
  <2> HIDE DEF r
  <2>2. bk' = [bk EXCEPT ![b] = r]
    BY <1>9 DEF AllocEnter, r, done
  <2>3. bk'[b] = r /\ \A c \in Backend \ {b} : bk'[c] = bk[c]
    BY <2>2, <1>a
  <2>4. wal' = wal /\ mode' = mode /\ redoPtr' = redoPtr
        /\ replayed' = replayed /\ bootPtr' = bootPtr
    BY <1>9 DEF AllocEnter
  <2> QED BY <1>9, <1>a, <2>1, <2>3, <2>4 DEF Moved
<1>10. CASE AllocFull(b)
  <2>1. bk'[b] = IdleBackend /\ \A c \in Backend \ {b} : bk'[c] = bk[c]
    BY <1>10, <1>a DEF AllocFull
  <2> QED BY <1>10, <1>a, <1>b, <2>1 DEF Moved, AllocFull
<1>11. CASE XLogInsert(b)
  <2> DEFINE r == [bk[b] EXCEPT !.pc = "flush", !.lsn = 0, !.xlast = Len(wal) + 1]
  <2>1. r.pc = "flush" /\ r.op = bk[b].op /\ r.ptr = bk[b].ptr
    BY <1>a DEF BackendState
  <2> HIDE DEF r
  <2>2. bk' = [bk EXCEPT ![b] = r]
    BY <1>11 DEF XLogInsert, r
  <2>3. bk'[b] = r /\ \A c \in Backend \ {b} : bk'[c] = bk[c]
    BY <2>2, <1>a
  <2>4. lsnHash' = lsnHash /\ mode' = mode /\ redoPtr' = redoPtr
        /\ replayed' = replayed /\ bootPtr' = bootPtr
    BY <1>11 DEF XLogInsert
  <2> QED BY <1>11, <1>a, <2>1, <2>3, <2>4 DEF Moved
<1>12. CASE XLogFlush(b)
  <2> DEFINE more == [bk[b] EXCEPT !.pc = "stmt", !.part = NoPart]
             r == IF bk[b].rels = {} THEN done ELSE more
  <2>1. /\ r.pc \in {"idle", "stmt"} /\ r.op \in {"none", bk[b].op} /\ r.xlast = bk[b].xlast
        /\ (r.op = bk[b].op => r.ptr = bk[b].ptr \/ bk[b].op # "write")
    BY <1>a, <1>b DEF BackendState
  <2> HIDE DEF r
  <2>2. bk' = [bk EXCEPT ![b] = r]
    BY <1>12 DEF XLogFlush, r, done
  <2>3. bk'[b] = r /\ \A c \in Backend \ {b} : bk'[c] = bk[c]
    BY <2>2, <1>a
  <2>4. lsnHash' = lsnHash /\ wal' = wal /\ mode' = mode /\ redoPtr' = redoPtr
        /\ replayed' = replayed /\ bootPtr' = bootPtr
    BY <1>12 DEF XLogFlush
  <2> QED BY <1>a, <2>1, <2>3, <2>4 DEF Moved
<1>13. CASE DemuxFlushCall(b)
  <2> DEFINE r == [bk[b] EXCEPT !.pc = "wait", !.op = "flush", !.ptr = flushed]
  <2>1. r.pc = "wait" /\ r.op = "flush" /\ r.xlast = bk[b].xlast
    BY <1>a DEF BackendState
  <2> HIDE DEF r
  <2>2. bk' = [bk EXCEPT ![b] = r]
    BY <1>13 DEF DemuxFlushCall, r
  <2>3. bk'[b] = r /\ \A c \in Backend \ {b} : bk'[c] = bk[c]
    BY <2>2, <1>a
  <2> QED BY <1>13, <1>a, <2>1, <2>3 DEF Moved, DemuxFlushCall
<1>14. CASE DemuxFlushReturn(b) \/ DemuxFlushTimeout(b) \/ CloseDir(b)
  <2>1. bk'[b] = done /\ \A c \in Backend \ {b} : bk'[c] = bk[c]
    BY <1>14, <1>a DEF DemuxFlushReturn, DemuxFlushTimeout, CloseDir, done
  <2>2. lsnHash' = lsnHash /\ wal' = wal /\ mode' = mode /\ redoPtr' = redoPtr
        /\ replayed' = replayed /\ bootPtr' = bootPtr
    BY <1>14 DEF DemuxFlushReturn, DemuxFlushTimeout, CloseDir
  <2> QED BY <1>a, <1>b, <2>1, <2>2 DEF Moved
<1>15. ASSUME NEW s \in Segment, UnlinkFile(b, s) PROVE Moved(b)
  <2> DEFINE r == [bk[b] EXCEPT !.todo = bk[b].todo \ {s}]
  <2>1. r.pc = "unlink" /\ r.op = bk[b].op /\ r.ptr = bk[b].ptr /\ r.xlast = bk[b].xlast
    BY <1>15, <1>a DEF BackendState, UnlinkFile
  <2> HIDE DEF r
  <2>2. bk' = [bk EXCEPT ![b] = r]
    BY <1>15, <1>a DEF UnlinkFile, r
  <2>3. bk'[b] = r /\ \A c \in Backend \ {b} : bk'[c] = bk[c]
    BY <2>2, <1>a
  <2>4. lsnHash' = lsnHash /\ wal' = wal /\ mode' = mode /\ redoPtr' = redoPtr
        /\ replayed' = replayed /\ bootPtr' = bootPtr
    BY <1>15 DEF UnlinkFile
  <2> QED BY <1>a, <2>1, <2>3, <2>4 DEF Moved
<1>16. CASE ResetOpenDir(b)
  <2> DEFINE r == [bk[b] EXCEPT !.pc = "unlink", !.todo = FilesOf(bk[b].part)]
  <2>1. r.pc = "unlink" /\ r.op = bk[b].op /\ r.ptr = bk[b].ptr /\ r.xlast = bk[b].xlast
    BY <1>a DEF BackendState
  <2> HIDE DEF r
  <2>2. bk' = [bk EXCEPT ![b] = r]
    BY <1>16 DEF ResetOpenDir, r
  <2>3. bk'[b] = r /\ \A c \in Backend \ {b} : bk'[c] = bk[c]
    BY <2>2, <1>a
  <2>4. lsnHash' = lsnHash /\ wal' = wal /\ mode' = mode /\ redoPtr' = redoPtr
        /\ replayed' = replayed /\ bootPtr' = bootPtr
    BY <1>16 DEF ResetOpenDir
  <2> QED BY <1>a, <2>1, <2>3, <2>4 DEF Moved
<1> QED
  BY <1>1, <1>2, <1>3, <1>4, <1>5, <1>6, <1>7, <1>8, <1>9, <1>10, <1>11, <1>12, <1>13, <1>14,
     <1>15, <1>16 DEF BackendStep

-----------------------------------------------------------------------------
(* No two headers are equal *)

\* What a step of a backend appends to the WAL.
LEMMA WalAfterMove ==
    ASSUME ControlInv, NEW b \in Backend, Moved(b)
    PROVE  /\ Len(wal) \in Nat /\ Len(wal') \in Nat /\ Len(wal) <= Len(wal')
           /\ \A i \in 1..Len(wal) : wal'[i] = wal[i]
           /\ \A i \in Len(wal) + 1..Len(wal') :
                 i = Len(wal) + 1 /\ (wal'[i] = Other \/
                     (XLogInsert(b) /\ wal'[i] = [part |-> bk[b].part, lsn |-> bk[b].lsn, orig |-> bk[b].ptr]))
           /\ Len(wal') # Len(wal) => bk'[b].xlast = Len(wal')
<1>1. wal \in Seq(WalRecord) /\ Len(wal) \in Nat /\ bk \in [Backend -> BackendState]
  BY SizeAssumption DEF ControlInv, TypeOK
<1>2. ASSUME NEW r PROVE /\ Len(Append(wal, r)) = Len(wal) + 1 /\ Append(wal, r)[Len(wal) + 1] = r
                         /\ \A i \in 1..Len(wal) : Append(wal, r)[i] = wal[i]
  BY <1>1
<1>3. CASE wal' = wal
  BY <1>1, <1>3
<1>4. CASE wal' = Append(wal, Other) /\ bk'[b].xlast = Len(wal) + 1
  BY <1>1, <1>2, <1>4
<1>5. CASE XLogInsert(b)
  <2>1. wal' = Append(wal, [part |-> bk[b].part, lsn |-> bk[b].lsn, orig |-> bk[b].ptr])
    BY <1>5 DEF XLogInsert
  <2>2. bk'[b] = [bk[b] EXCEPT !.pc = "flush", !.lsn = 0, !.xlast = Len(wal) + 1]
    BY <1>1, <1>5 DEF XLogInsert
  <2>3. bk'[b].xlast = Len(wal) + 1
    BY <1>1, <2>2 DEF BackendState
  <2> QED BY <1>1, <1>2, <1>5, <2>1, <2>3
<1> QED BY <1>3, <1>4, <1>5 DEF Moved

\* A header precedes the end of the WAL, and so does its orig_node_lsn.
LEMMA OriginBackend ==
    ASSUME ControlInv, ControlInv', OriginInv, NEW b \in Backend, BackendStep(b)
    PROVE  OriginInv'
<1>1. Moved(b)
  BY BackendMoved
<1>2. /\ Len(wal) \in Nat /\ Len(wal') \in Nat /\ Len(wal) <= Len(wal')
      /\ \A i \in 1..Len(wal) : wal'[i] = wal[i]
      /\ \A i \in Len(wal) + 1..Len(wal') :
            i = Len(wal) + 1 /\ (wal'[i] = Other \/
                (XLogInsert(b) /\ wal'[i] = [part |-> bk[b].part, lsn |-> bk[b].lsn, orig |-> bk[b].ptr]))
      /\ Len(wal') # Len(wal) => bk'[b].xlast = Len(wal')
  BY <1>1, WalAfterMove
<1>3. /\ bootPtr \in Nat /\ bootPtr <= Len(wal) /\ bk \in [Backend -> BackendState]
      /\ bk' \in [Backend -> BackendState] /\ bootPtr' = bootPtr
  <2>1. TypeOK
    BY DEF ControlInv
  <2>2. bootPtr \in Nat /\ bootPtr <= Len(wal) /\ bk \in [Backend -> BackendState]
    BY <2>1, SizeAssumption DEF TypeOK
  <2>3. bk' \in [Backend -> BackendState] /\ bootPtr' = bootPtr
    BY <1>1 DEF Moved
  <2> QED BY <2>2, <2>3
<1>4. XLogInsert(b) => bk[b].op = "write"
  BY DEF XLogInsert, ControlInv, BackendInv, BackendOK
<1>5. ASSUME NEW i \in 1..Len(wal'), wal'[i].part # NoPart PROVE wal'[i].orig < i
  <2>1. CASE i \in 1..Len(wal)
    BY <1>2, <1>5, <2>1 DEF OriginInv
  <2>2. CASE i \in Len(wal) + 1..Len(wal')
    <3>1. /\ i = Len(wal) + 1 /\ XLogInsert(b)
          /\ wal'[i] = [part |-> bk[b].part, lsn |-> bk[b].lsn, orig |-> bk[b].ptr]
      BY <1>2, <1>5, <2>2 DEF Other
    <3>2. bk[b].ptr \in bootPtr..Len(wal)
      BY <1>4, <3>1 DEF OriginInv
    <3> QED BY <1>2, <1>3, <3>1, <3>2
  <2> QED BY <1>2, <2>1, <2>2
<1>6. ASSUME NEW c \in Backend PROVE bk'[c].xlast = 0 \/ bootPtr <= bk'[c].xlast
  <2>1. CASE c # b
    BY <1>1, <2>1 DEF Moved, OriginInv
  <2>2. CASE c = b
    <3>1. CASE Len(wal') # Len(wal)
      BY <1>2, <1>3, <2>2, <3>1
    <3>2. CASE Len(wal') = Len(wal)
      <4>1. bk'[b].xlast \in {0, bk[b].xlast}
        <5>1. Len(Append(wal, Other)) = Len(wal) + 1
          BY <1>2 DEF ControlInv, TypeOK
        <5>2. XLogInsert(b) => Len(wal') = Len(wal) + 1
          BY <1>2 DEF ControlInv, TypeOK, XLogInsert
        <5> QED BY <1>1, <1>2, <3>2, <5>1, <5>2 DEF Moved
      <4> QED BY <2>2, <4>1 DEF OriginInv
    <3> QED BY <3>1, <3>2
  <2> QED BY <2>1, <2>2
<1>7. ASSUME NEW c \in Backend, bk'[c].op = "write" PROVE bk'[c].ptr \in bootPtr..Len(wal')
  <2>1. CASE c # b
    BY <1>1, <1>2, <1>3, <1>7, <2>1 DEF Moved, OriginInv
  <2>2. CASE c = b
    <3>1. CASE bk[b].op = "write" /\ bk'[b].ptr = bk[b].ptr
      BY <1>2, <1>3, <2>2, <3>1 DEF OriginInv
    <3>2. CASE bk'[b].ptr = Len(wal)
      BY <1>2, <1>3, <2>2, <3>2
    <3>3. CASE bk'[b].ptr = bk[b].xlast /\ bk[b].xlast # 0
      <4>1. bk[b].xlast <= Len(wal) /\ bk[b].xlast \in Nat /\ bootPtr <= bk[b].xlast
        <5>1. bk[b].xlast \in Nat
          BY <1>3 DEF BackendState
        <5> QED BY <3>3, <5>1 DEF ControlInv, BackendInv, BackendOK, OriginInv
      <4> QED BY <1>2, <1>3, <2>2, <3>3, <4>1
    <3>4. CASE wal' = Append(wal, Other) /\ bk'[b].ptr = Len(wal) + 1
      <4>1. Len(wal') = Len(wal) + 1
        BY <1>2, <3>4 DEF ControlInv, TypeOK
      <4> QED BY <1>2, <1>3, <2>2, <3>4, <4>1
    <3> QED BY <1>1, <1>7, <2>2, <3>1, <3>2, <3>3, <3>4 DEF Moved
  <2> QED BY <2>1, <2>2
<1> QED BY <1>3, <1>5, <1>6, <1>7 DEF OriginInv

\* The other steps keep the WAL, or a prefix of it and no process.
LEMMA OthersKeepWal ==
    ASSUME ControlInv, DemuxStart \/ DemuxLoop \/ DemuxStop \/ ServerStep \/ UNCHANGED vars
    PROVE  /\ Len(wal') \in Nat /\ Len(wal') <= Len(wal)
           /\ \A i \in 1..Len(wal') : wal'[i] = wal[i]
           /\ \/ wal' = wal /\ bk' = bk /\ bootPtr' = bootPtr /\ lsnHash' = lsnHash
              \/ /\ bk' = [b \in Backend |-> IdleBackend] /\ lsnHash' = [p \in Partition |-> 0]
                 /\ (mode = "run" /\ demux = "exited") \/ \E end \in 1..MaxWal : Crash(end)
<1>1. TypeOK
  BY DEF ControlInv
<1>2. Len(wal) \in Nat /\ flushed \in Nat
  BY <1>1, SizeAssumption DEF TypeOK
<1>3. CASE DemuxStart \/ DemuxLoop \/ DemuxStop
  <2>1. wal' = wal /\ bk' = bk /\ bootPtr' = bootPtr /\ lsnHash' = lsnHash
    BY <1>3 DEF DemuxStart, DemuxLoop, DemuxStop, DemuxCaughtUp, DemuxSegmentGone, DemuxOther,
                DemuxNoWriter, DemuxDuplicate, DemuxWrite, DemuxPublish, walVars, ghostVars
  <2> QED BY <1>2, <2>1
<1>4. CASE WalWriterFlush \/ Checkpoint \/ PartdistRedo \/ EndRecovery \/ UNCHANGED vars
  <2>1. wal' = wal /\ bk' = bk /\ bootPtr' = bootPtr /\ lsnHash' = lsnHash
    BY <1>4 DEF WalWriterFlush, Checkpoint, PartdistRedo, EndRecovery, ghostVars, vars
  <2> QED BY <1>2, <2>1
<1>5. CASE CleanRestart
  BY <1>2, <1>5 DEF CleanRestart, LoseMemory
<1>6. ASSUME NEW end \in 1..MaxWal, Crash(end)
      PROVE  /\ Len(wal') \in Nat /\ Len(wal') <= Len(wal)
             /\ \A i \in 1..Len(wal') : wal'[i] = wal[i]
             /\ bk' = [b \in Backend |-> IdleBackend] /\ lsnHash' = [p \in Partition |-> 0]
  <2>1. /\ end \in flushed..Len(wal) /\ wal' = SubSeq(wal, 1, end)
        /\ bk' = [b \in Backend |-> IdleBackend] /\ lsnHash' = [p \in Partition |-> 0]
    BY <1>6 DEF Crash, LoseMemory
  <2>2. Len(wal') = end /\ \A i \in 1..end : wal'[i] = wal[i]
    BY <1>1, <2>1, TruncatedWal
  <2> QED BY <1>2, <2>1, <2>2
<1> QED BY <1>3, <1>4, <1>5, <1>6 DEF ServerStep

LEMMA OriginOthers ==
    ASSUME ControlInv, OriginInv,
           DemuxStart \/ DemuxLoop \/ DemuxStop \/ ServerStep \/ UNCHANGED vars
    PROVE  OriginInv'
<1>1. /\ Len(wal') \in Nat /\ Len(wal') <= Len(wal) /\ Len(wal) \in Nat
      /\ \A i \in 1..Len(wal') : wal'[i] = wal[i]
      /\ \/ wal' = wal /\ bk' = bk /\ bootPtr' = bootPtr
         \/ bk' = [b \in Backend |-> IdleBackend]
  <2>1. Len(wal) \in Nat
    BY SizeAssumption DEF ControlInv, TypeOK
  <2> QED BY <2>1, OthersKeepWal
<1>2. \A i \in 1..Len(wal') : wal'[i].part # NoPart => wal'[i].orig < i
  BY <1>1 DEF OriginInv
<1>3. ASSUME NEW b \in Backend
      PROVE  /\ bk'[b].xlast = 0 \/ bootPtr' <= bk'[b].xlast
             /\ bk'[b].op = "write" => bk'[b].ptr \in bootPtr'..Len(wal')
  <2>1. CASE bk' = [c \in Backend |-> IdleBackend]
    BY <2>1 DEF IdleBackend
  <2>2. CASE wal' = wal /\ bk' = bk /\ bootPtr' = bootPtr
    BY <2>2 DEF OriginInv
  <2> QED BY <1>1, <2>1, <2>2
<1> QED BY <1>2, <1>3 DEF OriginInv

LEMMA OriginInit == Init => OriginInv
<1> SUFFICES ASSUME Init PROVE OriginInv
  OBVIOUS
<1>1. Len(wal) = SegSize /\ \A i \in 1..Len(wal) : wal[i].part = NoPart
  BY SizeAssumption DEF Init, Other
<1>2. \A b \in Backend : bk[b].xlast = 0 /\ bk[b].op = "none"
  BY DEF Init, IdleBackend
<1> QED BY <1>1, <1>2 DEF OriginInv

\* An inserted header differs from those of earlier runs in orig_node_lsn and
\* from those of this run in partition_lsn.
LEMMA HeadersBackend ==
    ASSUME ControlInv, ControlInv', LsnInv, OriginInv, HeadersDiffer,
           NEW b \in Backend, BackendStep(b)
    PROVE  HeadersDiffer'
<1> SUFFICES ASSUME "reset" \notin Env, NEW i \in 1..Len(wal'), NEW j \in 1..Len(wal'),
                    i < j, wal'[i].part # NoPart
             PROVE  wal'[i] # wal'[j]
  BY DEF HeadersDiffer
<1>1. Moved(b)
  BY BackendMoved
<1>2. /\ Len(wal) \in Nat /\ Len(wal') \in Nat /\ Len(wal) <= Len(wal')
      /\ \A k \in 1..Len(wal) : wal'[k] = wal[k]
      /\ \A k \in Len(wal) + 1..Len(wal') :
            k = Len(wal) + 1 /\ (wal'[k] = Other \/
                (XLogInsert(b) /\ wal'[k] = [part |-> bk[b].part, lsn |-> bk[b].lsn, orig |-> bk[b].ptr]))
  BY <1>1, WalAfterMove
<1>3. CASE j \in 1..Len(wal)
  <2>1. i \in 1..Len(wal)
    BY <1>2, <1>3
  <2> QED BY <1>2, <1>3, <2>1 DEF HeadersDiffer
<1>4. CASE j = Len(wal) + 1
  <2>1. i \in 1..Len(wal) /\ wal'[i] = wal[i]
    BY <1>2, <1>4
  <2>2. CASE wal'[j] = Other
    BY <2>2 DEF Other
  <2>3. CASE XLogInsert(b) /\ wal'[j] = [part |-> bk[b].part, lsn |-> bk[b].lsn, orig |-> bk[b].ptr]
    <3>1. bootPtr \in Nat
      BY SizeAssumption DEF ControlInv, TypeOK
    <3>2. bk[b].pc = "insert" /\ bk[b].op = "write"
      BY <2>3 DEF XLogInsert, ControlInv, BackendInv, BackendOK
    <3>3. CASE i <= bootPtr
      <4>1. bk[b].ptr \in bootPtr..Len(wal)
        BY <3>2 DEF OriginInv
      <4>2. wal[i].orig < i
        BY <2>1 DEF OriginInv
      <4>3. wal[i].orig \in Int
        <5>1. wal[i].orig \in 1..MaxWal
          BY <2>1, NextRecordType DEF ControlInv
        <5> QED BY <5>1, SizeAssumption
      <4>4. wal[i].orig # bk[b].ptr
        BY <1>2, <2>1, <3>1, <3>3, <4>1, <4>2, <4>3
      <4> QED BY <2>1, <2>3, <4>4
    <3>4. CASE i > bootPtr
      <4>1. i \in bootPtr + 1..Len(wal)
        BY <1>2, <2>1, <3>1, <3>4
      <4>2. wal[i].part = bk[b].part => wal[i].lsn # bk[b].lsn
        BY <3>2, <4>1 DEF LsnInv, LsnUnique
      <4> QED BY <2>1, <2>3, <4>2
    <3> QED BY <1>2, <3>1, <3>3, <3>4
  <2>4. j \in Len(wal) + 1..Len(wal')
    BY <1>2, <1>4
  <2> QED BY <1>2, <2>2, <2>3, <2>4
<1> QED BY <1>2, <1>3, <1>4

LEMMA HeadersOthers ==
    ASSUME ControlInv, HeadersDiffer,
           DemuxStart \/ DemuxLoop \/ DemuxStop \/ ServerStep \/ UNCHANGED vars
    PROVE  HeadersDiffer'
<1>1. /\ Len(wal') \in Nat /\ Len(wal') <= Len(wal) /\ Len(wal) \in Nat
      /\ \A i \in 1..Len(wal') : wal'[i] = wal[i]
  <2>1. Len(wal) \in Nat
    BY SizeAssumption DEF ControlInv, TypeOK
  <2> QED BY <2>1, OthersKeepWal
<1>2. \A i \in 1..Len(wal') : i \in 1..Len(wal) /\ wal'[i] = wal[i]
  BY <1>1
<1> QED BY <1>2 DEF HeadersDiffer

LEMMA HeadersInit == Init => HeadersDiffer
<1> SUFFICES ASSUME Init PROVE HeadersDiffer
  OBVIOUS
<1>1. Len(wal) = SegSize /\ \A i \in 1..Len(wal) : wal[i].part = NoPart
  BY SizeAssumption DEF Init, Other
<1> QED BY <1>1 DEF HeadersDiffer

\* The invariants so far, which need no assumption on the environment.
HistoryInv == ControlInv /\ DiskInv /\ LsnInv /\ RoutedInv /\ OriginInv /\ HeadersDiffer

LEMMA HistoryInit == Init => HistoryInv
BY ControlInit, DiskInit, LsnInit, RoutedInit, OriginInit, HeadersInit DEF HistoryInv

LEMMA HistoryNext == HistoryInv /\ [Next]_vars => HistoryInv'
<1> SUFFICES ASSUME HistoryInv, [Next]_vars PROVE HistoryInv'
  OBVIOUS
<1>1. ControlInv /\ DiskInv /\ LsnInv /\ RoutedInv /\ OriginInv /\ HeadersDiffer
  BY DEF HistoryInv
<1>2. ControlInv' /\ DiskInv' /\ LsnInv' /\ RoutedInv'
  BY <1>1, ControlNext, DiskNext, LsnNext, RoutedNextStep
<1>3. CASE \E b \in Backend : BackendStep(b)
  BY <1>1, <1>2, <1>3, OriginBackend, HeadersBackend DEF HistoryInv
<1>4. CASE DemuxStart \/ DemuxLoop \/ DemuxStop \/ ServerStep \/ UNCHANGED vars
  BY <1>1, <1>2, <1>4, OriginOthers, HeadersOthers DEF HistoryInv
<1> QED BY <1>3, <1>4 DEF Next

-----------------------------------------------------------------------------
(* What recovery restores *)

\* A header on disk stays there, and an overtaken one stays overtaken.
LEMMA StaysOnDisk ==
    ASSUME TypeOK, WalKept, FilesGrow, NEW i \in 1..flushed
    PROVE  /\ wal'[i] = wal[i]
           /\ wal[i].part # NoPart /\ OnDisk(wal[i]) => OnDisk(wal[i])'
           /\ Overtaken(i)' <=> Overtaken(i)
<1>1. flushed \in Nat /\ flushed <= Len(wal) /\ Len(wal) \in Nat
  BY SizeAssumption DEF TypeOK
<1>2. i \in 1..Len(wal) /\ wal'[i] = wal[i] /\ \A j \in 1..i - 1 : wal'[j] = wal[j]
  BY <1>1 DEF WalKept
<1>3. ASSUME wal[i].part # NoPart, OnDisk(wal[i]) PROVE OnDisk(wal[i])'
  <2>1. wal[i].part \in Partition /\ FileSeg(wal[i].orig) \in Segment
    BY <1>2, <1>3, NextRecordType
  <2>2. wal[i] \in Range(parwal'[wal[i].part][FileSeg(wal[i].orig)])
    BY <1>3, <2>1 DEF OnDisk, FilesGrow
  <2> QED BY <1>2, <2>2 DEF OnDisk
<1>4. Overtaken(i)' <=> Overtaken(i)
  BY <1>2 DEF Overtaken, SamePart
<1> QED BY <1>2, <1>3, <1>4

\* What was restored stays restored.
LEMMA StaysRestored ==
    ASSUME TypeOK, WalKept, FilesGrow, NEW n \in Nat, n <= flushed, RestoredUpTo(n)
    PROVE  \A i \in 1..n : wal'[i].part # NoPart => OnDisk(wal[i])' \/ Overtaken(i)'
<1> SUFFICES ASSUME NEW i \in 1..n, wal'[i].part # NoPart PROVE OnDisk(wal[i])' \/ Overtaken(i)'
  OBVIOUS
<1>1. i \in 1..flushed
  <2>1. flushed \in Nat
    BY SizeAssumption DEF TypeOK
  <2> QED BY <2>1
<1>2. wal'[i] = wal[i]
  BY <1>1, StaysOnDisk
<1> QED BY <1>1, <1>2, StaysOnDisk DEF RestoredUpTo

\* A header on disk is one of the flushed records.
LEMMA OnDiskIsFlushed ==
    ASSUME TypeOK, Provenance, NEW h \in Header, OnDisk(h)
    PROVE  \E i \in 1..flushed : wal[i] = h
<1>1. h.part \in Partition /\ FileSeg(h.orig) \in Segment
  BY FileSegType DEF Header
<1>2. parwal[h.part][FileSeg(h.orig)] \in Seq(Header)
  BY <1>1 DEF TypeOK
<1>3. PICK n \in 1..Len(parwal[h.part][FileSeg(h.orig)]) : parwal[h.part][FileSeg(h.orig)][n] = h
  BY <1>2, RangeFacts DEF OnDisk
<1> QED BY <1>1, <1>3 DEF Provenance

\* As long as no file changes, a flushed header is not found on disk.
LEMMA EarlierKept ==
    ASSUME TypeOK, TypeOK', Provenance, HeadersDiffer', "reset" \notin Env, WalKept,
           parwal' = parwal, EarlierFirst
    PROVE  EarlierFirst'
<1>1. /\ flushed \in Nat /\ flushed <= Len(wal) /\ Len(wal) \in Nat
      /\ flushed' \in Nat /\ flushed' <= Len(wal') /\ Len(wal') \in Nat
  <2>1. flushed \in Nat /\ flushed <= Len(wal) /\ Len(wal) \in Nat
    <3>1. Len(wal) \in SegSize..MaxWal /\ flushed \in SegSize..Len(wal)
      BY DEF TypeOK
    <3> QED BY <3>1, SizeAssumption
  <2>2. flushed' \in Nat /\ flushed' <= Len(wal') /\ Len(wal') \in Nat
    <3>1. Len(wal') \in SegSize..MaxWal /\ flushed' \in SegSize..Len(wal')
      BY DEF TypeOK
    <3> QED BY <3>1, SizeAssumption
  <2> QED BY <2>1, <2>2
<1> SUFFICES ASSUME NEW i \in 1..flushed', NEW j \in 1..flushed', i < j,
                    SamePart(i, j)', ~Overtaken(i)', OnDisk(wal[j])'
             PROVE  OnDisk(wal[i])'
  BY DEF EarlierFirst
<1>2. FilesGrow
  BY DEF FilesGrow
<1>3. wal'[j].part # NoPart /\ wal'[i].part = wal'[j].part /\ wal'[i].part # NoPart
  BY DEF SamePart
<1>4. wal'[j] \in Header
  <2>1. j \in 1..Len(wal') /\ wal' \in Seq(WalRecord)
    BY <1>1 DEF TypeOK
  <2>2. wal'[j] \in WalRecord
    BY <2>1
  <2> QED BY <1>3, <2>2 DEF WalRecord, Other
<1>5. j \in 1..flushed
  <2> DEFINE h == wal'[j]
  <2>1. OnDisk(h)
    BY DEF OnDisk
  <2> HIDE DEF h
  <2>2. PICK l \in 1..flushed : wal[l] = h
    BY <1>4, <2>1, OnDiskIsFlushed DEF h
  <2>3. wal'[l] = wal[l] /\ l \in 1..Len(wal')
    BY <1>1 DEF WalKept
  <2>4. ~(l < j)
    <3>1. wal'[l].part # NoPart
      BY <1>3, <2>2, <2>3 DEF h
    <3> QED BY <1>1, <2>2, <2>3, <3>1 DEF HeadersDiffer, h
  <2> QED BY <1>1, <2>4
<1>6. i \in 1..flushed
  BY <1>1, <1>5
<1>7. wal'[i] = wal[i] /\ wal'[j] = wal[j] /\ ~Overtaken(i)
  BY <1>2, <1>5, <1>6, StaysOnDisk
<1>8. SamePart(i, j) /\ OnDisk(wal[j])
  BY <1>7 DEF SamePart, OnDisk
<1>9. OnDisk(wal[i])
  BY <1>5, <1>6, <1>7, <1>8 DEF EarlierFirst
<1> QED BY <1>2, <1>3, <1>6, <1>7, <1>9, StaysOnDisk

\* Record k of the WAL is appended to its file.
Written(k) == parwal' = [parwal EXCEPT ![wal[k].part][FileSeg(wal[k].orig)] = Append(@, wal[k])]

LEMMA WrittenFacts ==
    ASSUME TypeOK, NEW k \in 1..Len(wal), wal[k].part # NoPart, Written(k)
    PROVE  /\ FilesGrow
           /\ \A h \in Header : h \in Range(parwal'[h.part][FileSeg(h.orig)]) <=> OnDisk(h) \/ h = wal[k]
<1> DEFINE r == wal[k]
           f == FileSeg(r.orig)
           old == parwal[r.part][f]
<1>1. r \in Header /\ r.part \in Partition /\ f \in Segment
  BY NextRecordType
<1>2. parwal \in [Partition -> [Segment -> Seq(Header)]]
  BY DEF TypeOK
<1>3. parwal' = [parwal EXCEPT ![r.part][f] = Append(@, r)]
  BY DEF Written
<1>4. old \in Seq(Header)
  BY <1>1, <1>2
<1>5. Range(Append(old, r)) = Range(old) \cup {r}
  BY <1>1, <1>4, AppendFacts
<1>6. /\ parwal'[r.part][f] = Append(old, r)
      /\ \A q \in Partition, s \in Segment :
            q # r.part \/ s # f => parwal'[q][s] = parwal[q][s]
  BY <1>1, <1>2, <1>3
<1> HIDE DEF r, f
<1>7. FilesGrow
  BY <1>5, <1>6 DEF FilesGrow
<1>8. ASSUME NEW h \in Header
      PROVE  h \in Range(parwal'[h.part][FileSeg(h.orig)]) <=> OnDisk(h) \/ h = r
  <2>1. h.part \in Partition /\ FileSeg(h.orig) \in Segment
    BY FileSegType DEF Header
  <2>2. CASE h.part = r.part /\ FileSeg(h.orig) = f
    BY <1>5, <1>6, <2>2 DEF OnDisk
  <2>3. CASE ~(h.part = r.part /\ FileSeg(h.orig) = f)
    <3>1. h # r
      BY <2>3 DEF f
    <3>2. parwal'[h.part][FileSeg(h.orig)] = parwal[h.part][FileSeg(h.orig)]
      BY <1>6, <2>1, <2>3
    <3> QED BY <3>1, <3>2 DEF OnDisk
  <2> QED BY <2>2, <2>3
<1> QED BY <1>7, <1>8 DEF r

\* A header is written when the earlier ones are on disk.
LEMMA EarlierAppended ==
    ASSUME TypeOK, HeadersDiffer, "reset" \notin Env, EarlierFirst,
           wal' = wal, flushed' = flushed, NEW k \in 1..flushed, wal[k].part # NoPart, Written(k),
           \A i \in 1..k - 1 : SamePart(i, k) /\ ~Overtaken(i) => OnDisk(wal[i])
    PROVE  EarlierFirst' /\ OnDisk(wal[k])' /\ FilesGrow /\ WalKept
<1>1. flushed \in Nat /\ flushed <= Len(wal) /\ Len(wal) \in Nat
  BY SizeAssumption DEF TypeOK
<1>2. WalKept
  BY <1>1 DEF WalKept
<1>3. k \in 1..Len(wal)
  BY <1>1
<1>4. /\ FilesGrow
      /\ \A h \in Header : h \in Range(parwal'[h.part][FileSeg(h.orig)]) <=> OnDisk(h) \/ h = wal[k]
  BY <1>3, WrittenFacts
<1>5. ASSUME NEW i \in 1..flushed, wal[i].part # NoPart
      PROVE  /\ i \in 1..Len(wal) /\ wal[i] \in Header
             /\ OnDisk(wal[i])' <=> OnDisk(wal[i]) \/ wal[i] = wal[k]
  <2>1. i \in 1..Len(wal)
    BY <1>1
  <2>2. wal[i] \in Header
    BY <1>5, <2>1, NextRecordType
  <2> QED BY <1>4, <2>1, <2>2 DEF OnDisk
<1>6. OnDisk(wal[k])'
  BY <1>5
<1>7. ASSUME NEW i \in 1..flushed, NEW j \in 1..flushed, i < j, SamePart(i, j),
             ~Overtaken(i), OnDisk(wal[j])'
      PROVE  OnDisk(wal[i])'
  <2>1. wal[i].part # NoPart /\ wal[j].part # NoPart
    BY <1>7 DEF SamePart
  <2>2. CASE OnDisk(wal[j])
    BY <1>5, <1>7, <2>1, <2>2 DEF EarlierFirst
  <2>3. CASE wal[j] = wal[k]
    <3>1. j = k
      <4>1. ~(j < k) /\ ~(k < j)
        BY <1>3, <1>5, <2>1, <2>3 DEF HeadersDiffer
      <4> QED BY <1>1, <4>1
    <3>2. i \in 1..k - 1
      BY <1>1, <1>7, <3>1
    <3>3. OnDisk(wal[i])
      BY <1>7, <3>1, <3>2
    <3> QED BY <1>5, <2>1, <3>3
  <2> QED BY <1>5, <1>7, <2>1, <2>2, <2>3
<1>8. EarlierFirst'
  BY <1>7 DEF EarlierFirst, SamePart, Overtaken
<1> QED BY <1>2, <1>4, <1>6, <1>8

\* The parts of RestoreInv that a step of the demux or of a backend keeps.
LEMMA RestoreKept ==
    ASSUME ControlInv, ControlInv', Provenance, HeadersDiffer', NothingSkipped, RestoreInv,
           WalKept, parwal' = parwal, RestartControl', redoPtr' = redoPtr,
           mode' = "recover" => replayed' = redoPtr \/ (mode = "recover" /\ replayed' = replayed)
    PROVE  RestoreInv'
<1>1. TypeOK /\ TypeOK' /\ (mode = "recover" => flushed = Len(wal))
  BY DEF ControlInv, RecoveryInv
<1>2. "reset" \notin Env
  BY DEF NothingSkipped
<1>3. RestoredUpTo(redoPtr) /\ EarlierFirst /\ (mode = "recover" => RestoredUpTo(replayed))
  BY DEF RestoreInv
<1>4. EarlierFirst'
  BY <1>1, <1>2, <1>3, EarlierKept
<1>5. redoPtr \in Nat /\ redoPtr <= flushed /\ replayed \in Nat /\ replayed <= Len(wal)
  BY <1>1, SizeAssumption DEF TypeOK
<1>6. FilesGrow
  BY DEF FilesGrow
<1>7. \A i \in 1..redoPtr : wal'[i].part # NoPart => OnDisk(wal[i])' \/ Overtaken(i)'
  BY <1>1, <1>3, <1>5, <1>6, StaysRestored
<1>8. mode = "recover" =>
         \A i \in 1..replayed : wal'[i].part # NoPart => OnDisk(wal[i])' \/ Overtaken(i)'
  BY <1>1, <1>3, <1>5, <1>6, StaysRestored
<1>9. RestoredUpTo(redoPtr)'
  BY <1>7 DEF RestoredUpTo
<1>10. mode' = "recover" => RestoredUpTo(replayed)'
  BY <1>7, <1>8 DEF RestoredUpTo
<1> QED BY <1>4, <1>9, <1>10 DEF RestoreInv

LEMMA RestoreBackend ==
    ASSUME ControlInv, ControlInv', Provenance, HeadersDiffer', RoutedInv, NothingSkipped,
           RestoreInv, NEW b \in Backend, BackendStep(b)
    PROVE  RestoreInv'
<1>1. NoRemoval /\ "early" \notin Env /\ "reset" \notin Env
  BY DEF NothingSkipped, NoRemoval
<1>2. NothingUnlinked
  BY <1>1 DEF RoutedInv, NoRemoval
<1>3. Moved(b) /\ WalKept
  BY BackendMoved, BackendKeeps
<1>4. parwal' = parwal /\ UNCHANGED demuxVars
  <2>1. bk' \in [Backend -> BackendState]
    BY <1>3 DEF Moved
  <2> QED BY <1>1, <1>2, <2>1, NoRemovalBackend
<1>5. /\ demux' = demux /\ startLSN' = startLSN /\ endRecPtr' = endRecPtr
      /\ mode' = mode /\ redoPtr' = redoPtr /\ replayed' = replayed /\ bootPtr' = bootPtr
  BY <1>3, <1>4 DEF demuxVars, Moved
<1>6. RestartControl
  BY DEF RestoreInv
<1>7. ASSUME demux = "down" PROVE wal' = wal /\ \A c \in Backend : bk'[c].op # "write"
  <2>1. ~ServerReady
    BY <1>1, <1>7 DEF ServerReady
  <2>2. \A c \in Backend : bk[c].op # "write"
    BY <1>6, <1>7 DEF RestartControl
  <2>3. ~XLogInsert(b)
    BY <2>2 DEF XLogInsert, ControlInv, BackendInv, BackendOK
  <2>4. wal' = wal
    BY <1>3, <2>1, <2>3 DEF Moved
  <2>5. bk'[b].op # "write"
    BY <1>3, <2>1, <2>2 DEF Moved
  <2>6. \A c \in Backend \ {b} : bk'[c].op # "write"
    BY <1>3, <2>2 DEF Moved
  <2> QED BY <2>4, <2>5, <2>6
<1>8. mode = "recover" => demux = "down"
  BY DEF ControlInv, RecoveryInv
<1>9. RestartControl'
  BY <1>5, <1>6, <1>7, <1>8 DEF RestartControl
<1> QED BY <1>3, <1>4, <1>5, <1>9, RestoreKept

\* The demux never finds its segment gone.
LEMMA NeverGone ==
    ASSUME ControlInv, RestartControl PROVE ~DemuxSegmentGone
<1> SUFFICES ASSUME DemuxSegmentGone PROVE FALSE
  OBVIOUS
<1>1. TypeOK
  BY DEF ControlInv
<1>2. SegSize \in Nat \ {0} /\ redoPtr \in Nat /\ endRecPtr \in Nat /\ startLSN <= endRecPtr
  BY <1>1, SizeAssumption DEF TypeOK
<1>3. demux = "read" /\ WalSeg(endRecPtr + 1) < redoPtr \div SegSize
  BY DEF DemuxSegmentGone
<1>4. WalSeg(endRecPtr + 1) = endRecPtr \div SegSize
  <2>1. (endRecPtr + 1) - 1 = endRecPtr
    BY <1>2
  <2>2. WalSeg(endRecPtr + 1) = ((endRecPtr + 1) - 1) \div SegSize
    BY DEF WalSeg
  <2> QED BY <2>1, <2>2, Zenon
<1>5. redoPtr <= endRecPtr
  BY <1>2, <1>3 DEF RestartControl
<1>6. redoPtr \div SegSize \in Nat /\ redoPtr \div SegSize <= endRecPtr \div SegSize
  BY <1>2, <1>5, DivMonotone
<1>7. endRecPtr \div SegSize \in Nat
  BY <1>2, DivMonotone
<1> QED BY <1>3, <1>4, <1>6, <1>7

\* What the demux writes is a flushed header, appended to its own file.
LEMMA DemuxWrites ==
    ASSUME ControlInv, RoutedInv, NothingSkipped, DemuxWrite
    PROVE  LET k == endRecPtr + 1
           IN  k \in 1..flushed /\ k \in 1..Len(wal) /\ wal[k].part # NoPart /\ Written(k)
<1> DEFINE k == endRecPtr + 1
           r == wal[k]
           v == WriterAt(AfterResetDetection(WriterFor(r.part), r), FileSeg(r.orig))
<1>1. endRecPtr \in Nat /\ flushed \in Nat /\ flushed <= Len(wal) /\ Len(wal) \in Nat
  BY SizeAssumption DEF ControlInv, TypeOK
<1>2. /\ demux = "read" /\ endRecPtr < flushed /\ r.part # NoPart
      /\ parwal' = FlushPartitionWALWriter(v, r)
  BY DEF DemuxWrite, ReadNext
<1>3. k \in 1..flushed /\ k \in 1..Len(wal)
  BY <1>1, <1>2
<1>4. NothingUnlinked
  BY DEF RoutedInv, NothingSkipped
<1>5. v.fd = "linked"
  BY <1>2, <1>3, <1>4, WriterLinked
<1>6. v.seg = FileSeg(r.orig)
  BY <1>2, <1>3, WriterForType
<1> HIDE DEF v
<1>7. Written(k)
  BY <1>2, <1>5, <1>6 DEF FlushPartitionWALWriter, Written
<1> QED BY <1>2, <1>3, <1>7

LEMMA RestoreWrite ==
    ASSUME ControlInv, ControlInv', HeadersDiffer, RoutedInv, NothingSkipped, RestoreInv,
           DemuxWrite
    PROVE  RestoreInv'
<1> DEFINE k == endRecPtr + 1
           r == wal[k]
<1>1. TypeOK /\ NoRemoval /\ "reset" \notin Env
  BY DEF ControlInv, NothingSkipped, NoRemoval
<1>2. /\ endRecPtr \in Nat /\ flushed \in Nat /\ flushed <= Len(wal) /\ Len(wal) \in Nat
      /\ redoPtr \in Nat /\ redoPtr <= flushed /\ startLSN \in Nat
  BY <1>1, SizeAssumption DEF TypeOK
<1>3. /\ demux = "read" /\ demux' = "publish" /\ endRecPtr < flushed
      /\ r.part # NoPart /\ CanWrite(r.part)
      /\ startLSN' = startLSN /\ wal' = wal /\ flushed' = flushed /\ redoPtr' = redoPtr
      /\ mode' = mode /\ replayed' = replayed /\ bootPtr' = bootPtr /\ bk' = bk
  BY DEF DemuxWrite, ReadNext, walVars, ghostVars
<1>4. k \in 1..Len(wal) /\ k \in 1..flushed
  BY <1>2, <1>3
<1>5. NothingUnlinked /\ RoutedUpTo(endRecPtr)
  BY <1>1, <1>3 DEF RoutedInv, NoRemoval
<1>6. RestartControl /\ EarlierFirst /\ RestoredUpTo(redoPtr) /\ mode = "run"
  BY <1>3 DEF RestoreInv, RestartControl
<1>7. Written(k)
  BY <1>1, DemuxWrites
<1> HIDE DEF k
<1>8. ASSUME NEW i \in 1..k - 1, SamePart(i, k), ~Overtaken(i) PROVE OnDisk(wal[i])
  <2>1. CASE i <= redoPtr
    <3>1. i \in 1..redoPtr
      BY <1>2, <2>1
    <3> QED BY <1>6, <1>8, <3>1 DEF RestoredUpTo, SamePart
  <2>2. CASE i > redoPtr
    <3>1. startLSN = redoPtr
      BY <1>3, <1>6 DEF RestartControl
    <3>2. i \in startLSN + 1..endRecPtr
      BY <1>2, <2>2, <3>1 DEF k
    <3>3. Served(wal[i].part)
      BY <1>3, <1>8 DEF Served, SamePart
    <3> QED BY <1>5, <1>8, <3>2, <3>3 DEF RoutedUpTo, SamePart
  <2>3. i \in Nat
    BY <1>2 DEF k
  <2> QED BY <1>2, <2>1, <2>2, <2>3
<1>9. EarlierFirst' /\ FilesGrow /\ WalKept
  BY <1>1, <1>3, <1>4, <1>6, <1>7, <1>8, EarlierAppended
<1>10. \A i \in 1..redoPtr : wal'[i].part # NoPart => OnDisk(wal[i])' \/ Overtaken(i)'
  BY <1>1, <1>2, <1>6, <1>9, StaysRestored
<1>11. RestoredUpTo(redoPtr)'
  BY <1>3, <1>10 DEF RestoredUpTo
<1>12. RestartControl'
  BY <1>3, <1>6 DEF RestartControl
<1> QED BY <1>3, <1>6, <1>9, <1>11, <1>12 DEF RestoreInv

LEMMA RestoreDemux ==
    ASSUME ControlInv, ControlInv', Provenance, HeadersDiffer, HeadersDiffer', RoutedInv,
           NothingSkipped, RestoreInv, DemuxStart \/ DemuxLoop \/ DemuxStop
    PROVE  RestoreInv'
<1>1. TypeOK
  BY DEF ControlInv
<1>2. /\ Len(wal) \in Nat /\ flushed \in Nat /\ flushed <= Len(wal)
      /\ redoPtr \in Nat /\ redoPtr <= flushed
  BY <1>1, SizeAssumption DEF TypeOK
<1>3. RestartControl
  BY DEF RestoreInv
<1>4. CASE DemuxWrite
  BY <1>4, RestoreWrite
<1>5. CASE DemuxStart
  <2>1. /\ mode = "run" /\ demux = "down" /\ demux' = "read" /\ startLSN' = flushed
        /\ wal' = wal /\ flushed' = flushed /\ redoPtr' = redoPtr /\ mode' = mode
        /\ replayed' = replayed /\ bootPtr' = bootPtr /\ parwal' = parwal /\ bk' = bk
    BY <1>5 DEF DemuxStart, walVars, ghostVars
  <2>2. WalKept
    BY <1>2, <2>1 DEF WalKept
  <2>3. flushed = redoPtr
    BY <1>2, <1>3, <2>1 DEF RestartControl
  <2>4. RestartControl'
    BY <1>3, <2>1, <2>3 DEF RestartControl
  <2> QED BY <2>1, <2>2, <2>4, RestoreKept
<1>6. CASE DemuxCaughtUp \/ DemuxOther \/ DemuxNoWriter \/ DemuxDuplicate \/ DemuxPublish
  <2>1. /\ demux # "down" /\ demux # "exited" /\ demux' \in {"read", "publish"}
        /\ startLSN' = startLSN
        /\ wal' = wal /\ flushed' = flushed /\ redoPtr' = redoPtr /\ mode' = mode
        /\ replayed' = replayed /\ bootPtr' = bootPtr /\ parwal' = parwal /\ bk' = bk
    BY <1>6 DEF DemuxCaughtUp, DemuxOther, DemuxNoWriter, DemuxDuplicate, DemuxPublish, ReadNext,
                walVars, ghostVars
  <2>2. WalKept
    BY <1>2, <2>1 DEF WalKept
  <2>3. RestartControl'
    BY <1>3, <2>1 DEF RestartControl
  <2> QED BY <2>1, <2>2, <2>3, RestoreKept
<1>7. ~DemuxSegmentGone
  BY <1>3, NeverGone
<1>8. ~DemuxStop
  BY DEF DemuxStop, NothingSkipped
<1> QED BY <1>4, <1>5, <1>6, <1>7, <1>8 DEF DemuxLoop

\* A header that redo skips is on disk, or was overtaken.
LEMMA RedoSkips ==
    ASSUME TypeOK, Provenance, EarlierFirst, NEW k \in 1..flushed, wal[k].part # NoPart,
           RedoAlreadyWritten(wal[k])
    PROVE  OnDisk(wal[k]) \/ Overtaken(k)
<1> DEFINE r == wal[k]
           p == r.part
           last == GetLastWrittenPartitionLSN(p)
<1>1. flushed \in Nat /\ flushed <= Len(wal) /\ Len(wal) \in Nat
  BY SizeAssumption DEF TypeOK
<1>2. k \in 1..Len(wal)
  BY <1>1
<1>3. p \in Partition /\ r.lsn \in Nat \ {0}
  BY <1>2, NextRecordType
<1>4. r.lsn <= last /\ last \in Nat
  BY <1>3, GetLastType DEF RedoAlreadyWritten
<1>5. last # 0
  BY <1>3, <1>4
<1>6. PICK s \in Segment : \E n \in 1..Len(parwal[p][s]) : parwal[p][s][n].lsn = last
  BY <1>3, <1>5, GetLastOnDisk
<1>7. PICK n \in 1..Len(parwal[p][s]) : parwal[p][s][n].lsn = last
  BY <1>6
<1>8. PICK j \in 1..flushed : wal[j] = parwal[p][s][n] /\ wal[j].part = p /\ FileSeg(wal[j].orig) = s
  BY <1>3, <1>7 DEF Provenance
<1>9. OnDisk(wal[j])
  <2>1. parwal[p][s] \in Seq(Header)
    BY <1>3 DEF TypeOK
  <2>2. parwal[p][s][n] \in Range(parwal[p][s])
    BY <1>7, <2>1, RangeFacts
  <2> QED BY <1>8, <2>2 DEF OnDisk
<1>10. wal[j].lsn >= r.lsn
  BY <1>3, <1>4, <1>7, <1>8
<1>11. CASE j < k
  <2>1. j \in 1..k - 1
    BY <1>1, <1>11
  <2> QED BY <1>8, <1>10, <2>1 DEF Overtaken, SamePart
<1>12. CASE j = k
  BY <1>9, <1>12
<1>13. CASE k < j
  BY <1>8, <1>9, <1>13 DEF EarlierFirst, SamePart
<1>14. j \in Int /\ k \in Int
  BY <1>1
<1> QED BY <1>11, <1>12, <1>13, <1>14

LEMMA RestoreRedo ==
    ASSUME ControlInv, ControlInv', Provenance, HeadersDiffer, HeadersDiffer', NothingSkipped,
           RestoreInv, PartdistRedo
    PROVE  RestoreInv'
<1> DEFINE r == wal[replayed + 1]
<1>1. TypeOK /\ "reset" \notin Env
  BY DEF ControlInv, NothingSkipped
<1>2. /\ mode = "recover" /\ replayed < Len(wal) /\ replayed' = replayed + 1
      /\ parwal' = IF r.part = NoPart \/ RedoAlreadyWritten(r) THEN parwal ELSE WriteHeaderToFile(r)
      /\ wal' = wal /\ flushed' = flushed /\ redoPtr' = redoPtr /\ mode' = mode /\ bk' = bk
      /\ demux' = demux /\ startLSN' = startLSN /\ endRecPtr' = endRecPtr /\ bootPtr' = bootPtr
  BY DEF PartdistRedo, demuxVars, ghostVars
<1>3. /\ Len(wal) \in Nat /\ replayed \in Nat /\ redoPtr \in Nat /\ redoPtr <= flushed
      /\ flushed \in Nat
  BY <1>1, SizeAssumption DEF TypeOK
<1>4. flushed = Len(wal)
  BY <1>2 DEF ControlInv, RecoveryInv
<1>5. PICK k \in 1..flushed : k = replayed + 1 /\ k \in 1..Len(wal) /\ replayed <= flushed
  BY <1>2, <1>3, <1>4
<1>6. RestartControl /\ EarlierFirst /\ RestoredUpTo(redoPtr) /\ RestoredUpTo(replayed)
  BY <1>2 DEF RestoreInv
<1>7. WalKept
  BY <1>2, <1>3 DEF WalKept
<1>8. RestartControl'
  BY <1>2, <1>6 DEF RestartControl
<1>9. EarlierFirst' /\ FilesGrow /\ (r.part # NoPart => OnDisk(wal[k])' \/ Overtaken(k)')
  <2>1. CASE r.part = NoPart \/ RedoAlreadyWritten(r)
    <3>1. parwal' = parwal
      BY <1>2, <2>1
    <3>2. FilesGrow
      BY <3>1 DEF FilesGrow
    <3>3. TypeOK'
      BY DEF ControlInv
    <3>4. EarlierFirst'
      BY <1>1, <1>6, <1>7, <3>1, <3>3, EarlierKept
    <3>5. r.part # NoPart => OnDisk(wal[k]) \/ Overtaken(k)
      BY <1>1, <1>5, <1>6, <2>1, RedoSkips
    <3>6. r.part # NoPart => OnDisk(wal[k])' \/ Overtaken(k)'
      BY <1>1, <1>5, <1>7, <3>2, <3>5, StaysOnDisk
    <3> QED BY <3>2, <3>4, <3>6
  <2>2. CASE ~(r.part = NoPart \/ RedoAlreadyWritten(r))
    <3>1. Written(k) /\ r.part # NoPart
      BY <1>2, <1>5, <2>2 DEF Written, WriteHeaderToFile
    <3>2. ASSUME NEW i \in 1..k - 1, SamePart(i, k), ~Overtaken(i) PROVE OnDisk(wal[i])
      <4>1. i \in 1..replayed
        BY <1>3, <1>5
      <4> QED BY <1>6, <3>2, <4>1 DEF RestoredUpTo, SamePart
    <3>3. EarlierFirst' /\ OnDisk(wal[k])' /\ FilesGrow
      BY <1>1, <1>2, <1>5, <1>6, <3>1, <3>2, EarlierAppended
    <3> QED BY <3>3
  <2> QED BY <2>1, <2>2
<1>10. \A i \in 1..redoPtr : wal'[i].part # NoPart => OnDisk(wal[i])' \/ Overtaken(i)'
  BY <1>1, <1>3, <1>6, <1>7, <1>9, StaysRestored
<1>11. \A i \in 1..replayed : wal'[i].part # NoPart => OnDisk(wal[i])' \/ Overtaken(i)'
  BY <1>1, <1>3, <1>5, <1>6, <1>7, <1>9, StaysRestored
<1>12. \A i \in 1..k : i \in 1..replayed \/ i = k
  BY <1>3, <1>5
<1>13. \A i \in 1..k : wal'[i].part # NoPart => OnDisk(wal[i])' \/ Overtaken(i)'
  BY <1>2, <1>5, <1>9, <1>11, <1>12
<1>14. RestoredUpTo(redoPtr)' /\ RestoredUpTo(replayed)'
  BY <1>2, <1>5, <1>10, <1>13 DEF RestoredUpTo
<1> QED BY <1>8, <1>9, <1>14 DEF RestoreInv

LEMMA RestoreServer ==
    ASSUME ControlInv, ControlInv', Provenance, HeadersDiffer, HeadersDiffer', NothingSkipped,
           RestoreInv, ServerStep
    PROVE  RestoreInv'
<1>1. TypeOK
  BY DEF ControlInv
<1>2. /\ Len(wal) \in Nat /\ flushed \in Nat /\ flushed <= Len(wal)
      /\ redoPtr \in Nat /\ redoPtr <= flushed
  BY <1>1, SizeAssumption DEF TypeOK
<1>3. RestartControl
  BY DEF RestoreInv
<1>4. CASE PartdistRedo
  BY <1>4, RestoreRedo
<1>5. CASE WalWriterFlush
  <2>1. /\ mode = "run" /\ flushed' = flushed + 1 /\ parwal' = parwal /\ bk' = bk
        /\ wal' = wal /\ redoPtr' = redoPtr /\ mode' = mode /\ replayed' = replayed
        /\ demux' = demux /\ startLSN' = startLSN /\ endRecPtr' = endRecPtr /\ bootPtr' = bootPtr
    BY <1>5 DEF WalWriterFlush, demuxVars, ghostVars
  <2>2. WalKept
    BY <1>2, <2>1 DEF WalKept
  <2>3. RestartControl'
    BY <1>3, <2>1 DEF RestartControl
  <2> QED BY <2>1, <2>2, <2>3, RestoreKept
<1>6. ~Checkpoint /\ ~CleanRestart
  BY <1>3 DEF Checkpoint, CleanRestart, NothingSkipped, RestartControl
<1>7. ASSUME NEW end \in 1..MaxWal, Crash(end) PROVE RestoreInv'
  <2>1. /\ end \in flushed..Len(wal) /\ wal' = SubSeq(wal, 1, end) /\ flushed' = end
        /\ bootPtr' = end /\ mode' = "recover" /\ replayed' = redoPtr /\ redoPtr' = redoPtr
        /\ parwal' = parwal /\ demux' = "down" /\ endRecPtr' = 0
        /\ bk' = [b \in Backend |-> IdleBackend]
    BY <1>7 DEF Crash, LoseMemory
  <2>2. Len(wal') = end /\ \A i \in 1..end : wal'[i] = wal[i]
    BY <1>1, <2>1, TruncatedWal
  <2>3. WalKept
    BY <1>2, <2>1, <2>2 DEF WalKept
  <2>4. RestartControl'
    BY <2>1, <2>2 DEF RestartControl, IdleBackend
  <2> QED BY <2>1, <2>3, <2>4, RestoreKept
<1>8. CASE EndRecovery
  <2>1. /\ mode = "recover" /\ replayed = Len(wal) /\ mode' = "run" /\ redoPtr' = Len(wal)
        /\ wal' = wal /\ flushed' = flushed /\ bk' = bk /\ parwal' = parwal
        /\ demux' = demux /\ endRecPtr' = endRecPtr /\ bootPtr' = bootPtr
    BY <1>8 DEF EndRecovery, demuxVars, ghostVars
  <2>2. flushed = Len(wal) /\ demux = "down"
    BY <2>1 DEF ControlInv, RecoveryInv
  <2>3. RestartControl'
    BY <1>3, <2>1, <2>2 DEF RestartControl
  <2>4. EarlierFirst' /\ RestoredUpTo(redoPtr)'
    <3>1. EarlierFirst /\ RestoredUpTo(replayed)
      BY <2>1 DEF RestoreInv
    <3> QED BY <2>1, <3>1 DEF EarlierFirst, RestoredUpTo, SamePart, Overtaken, OnDisk
  <2> QED BY <2>1, <2>3, <2>4 DEF RestoreInv
<1> QED BY <1>4, <1>5, <1>6, <1>7, <1>8 DEF ServerStep

LEMMA RestoreInit == Init => RestoreInv
<1> SUFFICES ASSUME Init PROVE RestoreInv
  OBVIOUS
<1>1. /\ Len(wal) = SegSize /\ redoPtr = SegSize /\ flushed = SegSize
      /\ \A i \in 1..SegSize : wal[i].part = NoPart
  BY SizeAssumption DEF Init, Other
<1>2. RestartControl
  BY <1>1 DEF Init, RestartControl, IdleBackend
<1>3. EarlierFirst /\ RestoredUpTo(redoPtr)
  BY <1>1 DEF EarlierFirst, RestoredUpTo, SamePart
<1> QED BY <1>2, <1>3 DEF RestoreInv, Init

LEMMA RestoreNext == HistoryInv /\ RestoreInv /\ [Next]_vars => RestoreInv'
<1> SUFFICES ASSUME HistoryInv, RestoreInv, [Next]_vars, NothingSkipped PROVE RestoreInv'
  BY DEF RestoreInv
<1>1. HistoryInv'
  BY HistoryNext
<1>2. /\ ControlInv /\ ControlInv' /\ Provenance /\ HeadersDiffer /\ HeadersDiffer'
      /\ RoutedInv
  BY <1>1 DEF HistoryInv, DiskInv
<1>3. CASE \E b \in Backend : BackendStep(b)
  BY <1>2, <1>3, RestoreBackend
<1>4. CASE DemuxStart \/ DemuxLoop \/ DemuxStop
  BY <1>2, <1>4, RestoreDemux
<1>5. CASE ServerStep
  BY <1>2, <1>5, RestoreServer
<1>6. CASE UNCHANGED vars
  <2>1. /\ wal' = wal /\ flushed' = flushed /\ bk' = bk /\ parwal' = parwal /\ mode' = mode
        /\ demux' = demux /\ endRecPtr' = endRecPtr /\ startLSN' = startLSN /\ bootPtr' = bootPtr
        /\ redoPtr' = redoPtr /\ replayed' = replayed
    BY <1>6 DEF vars
  <2> QED BY <2>1 DEF RestoreInv, RestartControl, EarlierFirst, RestoredUpTo, SamePart, Overtaken,
                      OnDisk
<1> QED BY <1>3, <1>4, <1>5, <1>6 DEF Next

\* For every number of clients, partitions, writers and crashes: when recovery
\* has replayed the whole WAL, every header is in its file or was overtaken by
\* one that comes before it.
THEOREM RecoveryMissesOnlyOvertaken == Spec => []RebuiltUnlessOvertaken
<1>1. HistoryInv /\ RestoreInv /\ [Next]_vars => (HistoryInv /\ RestoreInv)'
  BY HistoryNext, RestoreNext
<1>2. Spec => [](HistoryInv /\ RestoreInv)
  BY <1>1, HistoryInit, RestoreInit, PTL DEF Spec
<1>3. RestoreInv => RebuiltUnlessOvertaken
  BY DEF RestoreInv, RebuiltUnlessOvertaken
<1> QED BY <1>2, <1>3, PTL

-----------------------------------------------------------------------------
(* One client *)

\* A later position lies in the same file or in a later one.
LEMMA FileSegMonotone ==
    ASSUME NEW a \in 1..MaxWal, NEW b \in 1..MaxWal, a <= b
    PROVE  FileSeg(a) \in Nat /\ FileSeg(b) \in Nat /\ FileSeg(a) <= FileSeg(b)
<1>1. SegSize \in Nat \ {0} /\ a \in Nat /\ b \in Nat
  BY SizeAssumption
<1>2. a \div SegSize \in Nat /\ b \div SegSize \in Nat /\ a \div SegSize <= b \div SegSize
  BY <1>1, DivMonotone
<1> QED BY <1>1, <1>2 DEF FileSeg

\* The headers of a partition are in the order of their LSNs and of their files.
InOrder ==
    \A i, j \in 1..Len(wal) :
        i < j /\ SamePart(i, j) => wal[i].lsn < wal[j].lsn /\ wal[i].orig <= wal[j].orig

\* Then no header is overtaken, and the files are ascending.
LEMMA OrderFacts ==
    ASSUME TypeOK, InOrder
    PROVE  /\ \A i \in 1..Len(wal) : ~Overtaken(i)
           /\ \A p \in Partition : SegOrdered(p)
<1>1. flushed \in Nat /\ flushed <= Len(wal) /\ Len(wal) \in Nat
  BY SizeAssumption DEF TypeOK
<1>2. ASSUME NEW i \in 1..Len(wal), Overtaken(i) PROVE FALSE
  <2>1. PICK j \in 1..i - 1 : SamePart(i, j) /\ wal[j].lsn >= wal[i].lsn
    BY <1>2 DEF Overtaken
  <2>2. j \in 1..Len(wal) /\ j < i
    BY <1>1
  <2>3. wal[j].part # NoPart /\ wal[i].part # NoPart /\ SamePart(j, i)
    BY <2>1 DEF SamePart
  <2>4. wal[i].lsn \in Nat /\ wal[j].lsn \in Nat
    BY <2>2, <2>3, NextRecordType
  <2>5. wal[j].lsn < wal[i].lsn
    BY <2>2, <2>3 DEF InOrder
  <2> QED BY <2>1, <2>4, <2>5
<1>3. ASSUME NEW p \in Partition, NEW i \in 1..flushed, NEW j \in 1..flushed,
             wal[i].part = p, wal[j].part = p, FileSeg(wal[i].orig) < FileSeg(wal[j].orig)
      PROVE  wal[i].lsn < wal[j].lsn
  <2>1. i \in 1..Len(wal) /\ j \in 1..Len(wal) /\ i \in Nat /\ j \in Nat
    BY <1>1
  <2>2. SamePart(i, j) /\ SamePart(j, i) /\ wal[i].part # NoPart /\ wal[j].part # NoPart
    BY <1>3, NameAssumption DEF SamePart
  <2>3. wal[i].orig \in 1..MaxWal /\ wal[j].orig \in 1..MaxWal
    BY <2>1, <2>2, NextRecordType
  <2>4. CASE j < i
    <3>1. wal[j].orig <= wal[i].orig
      BY <2>1, <2>2, <2>4 DEF InOrder
    <3>2. /\ FileSeg(wal[j].orig) \in Nat /\ FileSeg(wal[i].orig) \in Nat
          /\ FileSeg(wal[j].orig) <= FileSeg(wal[i].orig)
      BY <2>3, <3>1, FileSegMonotone
    <3> QED BY <1>3, <3>2
  <2>5. CASE i = j
    <3>1. FileSeg(wal[j].orig) \in Nat
      BY <2>3, FileSegMonotone
    <3> QED BY <1>3, <2>5, <3>1
  <2>6. CASE i < j
    BY <2>1, <2>2, <2>6 DEF InOrder
  <2> QED BY <2>1, <2>4, <2>5, <2>6
<1> QED BY <1>2, <1>3 DEF SegOrdered

\* The first allocation after a start: the files have the last LSN of the WAL.
LEMMA ScanAbove ==
    ASSUME HistoryInv, NothingSkipped, RestoreInv, InOrder, mode = "run",
           NEW p \in Partition, lsnHash[p] = 0, NEW i \in 1..Len(wal), wal[i].part = p
    PROVE  /\ wal[i].lsn <= GetLastWrittenPartitionLSN(p) /\ wal[i].lsn \in Nat \ {0}
           /\ GetLastWrittenPartitionLSN(p) \in Nat
<1>1. ControlInv /\ TypeOK /\ DiskInv /\ CounterInv /\ "reset" \notin Env
  BY DEF HistoryInv, ControlInv, LsnInv, NothingSkipped
<1>2. /\ Len(wal) \in Nat /\ bootPtr \in Nat /\ redoPtr \in Nat
  BY <1>1, SizeAssumption DEF TypeOK
<1>3. wal[i].part # NoPart
  BY NameAssumption
<1>4. wal[i].lsn \in Nat \ {0} /\ FileSeg(wal[i].orig) \in Segment
  BY <1>1, <1>3, NextRecordType
<1>5. i <= bootPtr
  <2> SUFFICES ASSUME i > bootPtr PROVE FALSE
    BY <1>2
  <2>1. i \in bootPtr + 1..Len(wal)
    BY <1>2
  <2>2. wal[i].lsn < lsnHash[p]
    BY <1>1, <1>3, <2>1 DEF CounterInv
  <2> QED BY <1>4, <2>2
<1>6. i \in 1..redoPtr
  BY <1>2, <1>5 DEF RestoreInv, RestartControl
<1>7. OnDisk(wal[i])
  <2>1. ~Overtaken(i)
    BY <1>1, OrderFacts
  <2> QED BY <1>3, <1>6, <2>1 DEF RestoreInv, RestoredUpTo
<1>8. AboveDisk(p, GetLastWrittenPartitionLSN(p))
  <2>1. SegOrdered(p)
    BY <1>1, OrderFacts
  <2>2. Ascending(p)
    BY <1>1, <2>1 DEF DiskInv, SortedOnDisk
  <2> QED BY <1>1, <2>2, GetLastIsGreatest
<1>9. PICK n \in 1..Len(parwal[p][FileSeg(wal[i].orig)]) : parwal[p][FileSeg(wal[i].orig)][n] = wal[i]
  <2>1. parwal[p][FileSeg(wal[i].orig)] \in Seq(Header)
    BY <1>1, <1>4 DEF TypeOK
  <2> QED BY <1>7, <2>1, RangeFacts DEF OnDisk
<1>10. wal[i].lsn <= GetLastWrittenPartitionLSN(p)
  BY <1>4, <1>8, <1>9 DEF AboveDisk
<1> QED BY <1>1, <1>4, <1>10, GetLastType

LEMMA SerialBackend ==
    ASSUME HistoryInv, ControlInv', OneClient, NothingSkipped, RestoreInv, SerialInv,
           NEW b \in Backend, BackendStep(b)
    PROVE  SerialInv'
<1>1. ControlInv /\ TypeOK /\ CounterInv /\ OriginInv /\ "reset" \notin Env
  BY DEF HistoryInv, ControlInv, LsnInv, NothingSkipped
<1>2. Moved(b) /\ \A c \in Backend : c = b
  BY <1>1, BackendMoved DEF OneClient
<1> DEFINE h == [part |-> bk[b].part, lsn |-> bk[b].lsn, orig |-> bk[b].ptr]
           end == Len(wal)
<1>3. /\ end \in Nat /\ Len(wal') \in Nat /\ end <= Len(wal')
      /\ \A i \in 1..end : wal'[i] = wal[i]
      /\ \A i \in end + 1..Len(wal') : i = end + 1 /\ (wal'[i] = Other \/ (XLogInsert(b) /\ wal'[i] = h))
      /\ Len(wal') # end => bk'[b].xlast = Len(wal')
  BY <1>1, <1>2, WalAfterMove
<1>4. /\ bk \in [Backend -> BackendState] /\ bk[b] \in BackendState
      /\ lsnHash \in [Partition -> Nat]
  BY <1>1 DEF TypeOK
<1>5. /\ InOrder /\ bk[b].xlast \in {0, end}
      /\ bk[b].op = "write" =>
            \A i \in 1..end : wal[i].part # NoPart => wal[i].orig <= bk[b].ptr
      /\ bk[b].pc = "insert" =>
            \A i \in 1..end : wal[i].part = bk[b].part => wal[i].lsn < bk[b].lsn
      /\ bk[b].pc = "enter" /\ lsnHash[bk[b].part] = 0 =>
            \A i \in 1..end : wal[i].part = bk[b].part => wal[i].lsn < bk[b].init
      /\ \A p \in Partition : lsnHash[p] # 0 =>
            \A i \in 1..end : wal[i].part = p => wal[i].lsn < lsnHash[p]
  BY DEF SerialInv, InOrder
<1>6. XLogInsert(b) => /\ bk[b].pc = "insert" /\ bk[b].op = "write" /\ bk[b].part \in Partition
                       /\ h.part = bk[b].part /\ h.lsn = bk[b].lsn /\ h.orig = bk[b].ptr
  BY <1>1 DEF XLogInsert, ControlInv, BackendInv, BackendOK
<1> HIDE DEF h
<1>7. ASSUME NEW i \in 1..Len(wal')
      PROVE  \/ i \in 1..end /\ wal'[i] = wal[i]
             \/ i = end + 1 /\ wal'[i].part = NoPart
             \/ i = end + 1 /\ wal'[i] = h /\ XLogInsert(b)
  <2>1. CASE i \in 1..end
    BY <1>3, <2>1
  <2>2. CASE i \in end + 1..Len(wal')
    BY <1>3, <2>2 DEF Other
  <2> QED BY <1>3, <2>1, <2>2
<1> HIDE DEF end
<1>8. InOrder'
  <2> SUFFICES ASSUME NEW i \in 1..Len(wal'), NEW j \in 1..Len(wal'), i < j,
                      wal'[i].part # NoPart, wal'[i].part = wal'[j].part
               PROVE  wal'[i].lsn < wal'[j].lsn /\ wal'[i].orig <= wal'[j].orig
    BY DEF InOrder, SamePart
  <2>1. i \in 1..end /\ wal'[i] = wal[i]
    <3>1. i # end + 1
      BY <1>3, <1>7
    <3> QED BY <1>7, <3>1
  <2>2. CASE j \in 1..end /\ wal'[j] = wal[j]
    BY <1>5, <2>1, <2>2 DEF InOrder, SamePart, end
  <2>3. CASE wal'[j] = h /\ XLogInsert(b)
    <3>1. wal[i].part = bk[b].part /\ wal[i].part # NoPart
      BY <1>6, <2>1, <2>3
    <3>2. wal[i].lsn < bk[b].lsn /\ wal[i].orig <= bk[b].ptr
      BY <1>5, <1>6, <2>1, <2>3, <3>1
    <3> QED BY <1>6, <2>1, <2>3, <3>2
  <2> QED BY <1>7, <2>2, <2>3
<1>9. bk'[b].xlast \in {0, Len(wal')}
  <2>1. CASE Len(wal') # end
    BY <1>3, <2>1
  <2>2. CASE Len(wal') = end
    <3>1. ASSUME NEW r PROVE Len(Append(wal, r)) = end + 1
      BY <1>1 DEF TypeOK, end
    <3>2. wal' # Append(wal, Other) /\ ~XLogInsert(b)
      BY <1>3, <2>2, <3>1 DEF XLogInsert
    <3>3. bk'[b].xlast \in {0, bk[b].xlast}
      BY <1>2, <3>2 DEF Moved
    <3> QED BY <1>5, <2>2, <3>3
  <2> QED BY <2>1, <2>2
<1>10. ASSUME bk'[b].op = "write", NEW i \in 1..Len(wal'), wal'[i].part # NoPart
       PROVE  wal'[i].orig <= bk'[b].ptr
  <2>1. bk[b].ptr \in Nat
    BY <1>4, SizeAssumption DEF BackendState
  <2>2. CASE bk[b].op = "write" /\ bk'[b].ptr = bk[b].ptr
    <3>1. CASE i \in 1..end /\ wal'[i] = wal[i]
      BY <1>5, <1>10, <2>2, <3>1
    <3>2. CASE wal'[i] = h /\ XLogInsert(b)
      BY <1>6, <2>1, <2>2, <3>2
    <3> QED BY <1>7, <1>10, <3>1, <3>2
  <2>3. CASE (wal' = wal \/ wal' = Append(wal, Other)) /\ bk'[b].ptr >= end /\ bk'[b].ptr \in Nat
    <3>1. i \in 1..end /\ wal'[i] = wal[i]
      <4>1. i = end + 1 => wal' # wal
        BY <1>3 DEF end
      <4>2. Append(wal, Other)[end + 1].part = NoPart
        BY <1>1 DEF TypeOK, end, Other
      <4> QED BY <1>7, <1>10, <2>3, <4>1, <4>2
    <3>2. wal[i].orig < i /\ wal[i].orig \in 1..MaxWal
      BY <1>1, <1>10, <3>1, NextRecordType DEF OriginInv, end
    <3> QED BY <1>3, <2>3, <3>1, <3>2, SizeAssumption
  <2> QED
    <3>1. bk[b].xlast # 0 => bk[b].xlast = end
      BY <1>5
    <3> QED BY <1>2, <1>3, <1>10, <2>2, <2>3, <3>1 DEF Moved, end
<1>11. ASSUME AllocEnter(b)
       PROVE  /\ wal' = wal /\ lsnHash' = [lsnHash EXCEPT ![bk[b].part] = NextLsn(b) + 1]
              /\ bk[b].part \in Partition /\ NextLsn(b) \in Nat /\ NextLsn(b) # 0
              /\ \A i \in 1..end : wal[i].part = bk[b].part => wal[i].lsn < NextLsn(b)
              /\ bk'[b].pc = "insert" => bk'[b].part = bk[b].part /\ bk'[b].lsn = NextLsn(b)
  <2>1. /\ bk[b].pc = "enter" /\ wal' = wal
        /\ lsnHash' = [lsnHash EXCEPT ![bk[b].part] = NextLsn(b) + 1]
        /\ bk' = [bk EXCEPT ![b] = IF bk[b].op = "alloc"
                                   THEN [IdleBackend EXCEPT !.xlast = bk[b].xlast]
                                   ELSE [bk[b] EXCEPT !.pc = "insert", !.lsn = NextLsn(b), !.init = 0]]
    BY <1>11 DEF AllocEnter, walVars
  <2>2. bk[b].part \in Partition /\ bk[b].init >= 1 /\ bk[b].init \in Nat
    BY <1>1, <1>4, <2>1 DEF ControlInv, BackendInv, BackendOK, BackendState
  <2>3. NextLsn(b) \in Nat /\ NextLsn(b) # 0
    BY <1>4, <2>2 DEF NextLsn
  <2>4. \A i \in 1..end : wal[i].part = bk[b].part => wal[i].lsn < NextLsn(b)
    BY <1>5, <2>1, <2>2 DEF NextLsn
  <2> DEFINE nl == NextLsn(b)
  <2> HIDE DEF nl
  <2>5. bk'[b].pc = "insert" => bk'[b].part = bk[b].part /\ bk'[b].lsn = nl
    <3>1. bk'[b] = IF bk[b].op = "alloc"
                   THEN [IdleBackend EXCEPT !.xlast = bk[b].xlast]
                   ELSE [bk[b] EXCEPT !.pc = "insert", !.lsn = nl, !.init = 0]
      BY <1>4, <2>1 DEF nl
    <3>2. [IdleBackend EXCEPT !.xlast = bk[b].xlast].pc = "idle"
      BY DEF IdleBackend
    <3> QED BY <1>4, <3>1, <3>2 DEF BackendState
  <2> QED BY <2>1, <2>2, <2>3, <2>4, <2>5 DEF nl
<1>12. ASSUME bk'[b].pc = "insert", NEW i \in 1..Len(wal'), wal'[i].part = bk'[b].part
       PROVE  wal'[i].lsn < bk'[b].lsn
  <2>1. AllocEnter(b)
    BY <1>2, <1>12 DEF Moved
  <2> QED BY <1>11, <1>12, <2>1 DEF end
<1>13. ASSUME bk'[b].pc = "enter", lsnHash'[bk'[b].part] = 0,
              NEW i \in 1..Len(wal'), wal'[i].part = bk'[b].part
       PROVE  wal'[i].lsn < bk'[b].init
  <2>1. ASSUME NEW p \in Partition, AllocFind(b, p) PROVE FALSE
    <3>1. /\ lsnHash' = lsnHash
          /\ bk'[b] = [bk[b] EXCEPT !.pc = IF lsnHash[p] = 0 THEN "scan" ELSE "enter",
                                    !.rels = bk[b].rels \ {p}, !.part = p, !.init = 1]
      BY <1>4, <2>1 DEF AllocFind
    <3>2. bk'[b].part = p /\ bk'[b].pc = IF lsnHash[p] = 0 THEN "scan" ELSE "enter"
      BY <1>4, <3>1 DEF BackendState
    <3> QED BY <1>13, <3>1, <3>2
  <2>2. CASE AllocScan(b)
    <3> DEFINE last == GetLastWrittenPartitionLSN(bk[b].part)
    <3>1. /\ bk[b].pc = "scan" /\ wal' = wal /\ lsnHash' = lsnHash
          /\ bk' = [bk EXCEPT ![b] = [bk[b] EXCEPT !.pc = "enter",
                                          !.init = IF last > 0 THEN last + 1 ELSE 1]]
      BY <2>2 DEF AllocScan, walVars
    <3> HIDE DEF last
    <3>2. bk'[b].part = bk[b].part /\ bk'[b].init = IF last > 0 THEN last + 1 ELSE 1
      BY <1>4, <3>1 DEF BackendState
    <3>3. bk[b].part \in Partition
      BY <1>1, <3>1 DEF ControlInv, BackendInv, BackendOK
    <3>4. mode = "run"
      BY <1>1, <3>1 DEF ControlInv, RecoveryInv, TypeOK
    <3>5. i \in 1..Len(wal) /\ wal[i].part = bk[b].part /\ lsnHash[bk[b].part] = 0
      BY <1>13, <3>1, <3>2
    <3>6. wal[i].lsn <= last /\ wal[i].lsn \in Nat \ {0} /\ last \in Nat
      BY <1>5, <3>3, <3>4, <3>5, ScanAbove DEF last
    <3> QED BY <3>1, <3>2, <3>6
  <2> QED BY <1>2, <1>13, <2>1, <2>2 DEF Moved
<1>14. ASSUME NEW p \in Partition, lsnHash'[p] # 0, NEW i \in 1..Len(wal'), wal'[i].part = p
       PROVE  wal'[i].lsn < lsnHash'[p]
  <2>0. wal'[i].part # NoPart
    BY <1>14, NameAssumption
  <2>1. CASE lsnHash' = lsnHash
    <3>1. CASE i \in 1..end /\ wal'[i] = wal[i]
      BY <1>5, <1>14, <2>1, <3>1
    <3>2. CASE wal'[i] = h /\ XLogInsert(b)
      <4>1. bk[b].lsn < lsnHash[bk[b].part]
        BY <1>1, <1>6, <3>2 DEF CounterInv
      <4> QED BY <1>6, <1>14, <2>1, <3>2, <4>1
    <3> QED BY <1>7, <2>0, <3>1, <3>2
  <2>2. CASE AllocEnter(b)
    <3>1. i \in 1..end /\ wal'[i] = wal[i]
      BY <1>11, <2>2 DEF end
    <3>2. CASE p = bk[b].part
      <4>1. lsnHash'[p] = NextLsn(b) + 1 /\ NextLsn(b) \in Nat /\ wal[i].lsn < NextLsn(b)
        BY <1>4, <1>11, <1>14, <2>2, <3>1, <3>2
      <4>2. wal[i].lsn \in Nat
        BY <1>1, <2>0, <3>1, NextRecordType DEF end
      <4> QED BY <3>1, <4>1, <4>2
    <3>3. CASE p # bk[b].part
      <4>1. lsnHash'[p] = lsnHash[p]
        BY <1>4, <1>11, <2>2, <3>3
      <4> QED BY <1>5, <1>14, <3>1, <4>1
    <3> QED BY <3>2, <3>3
  <2> QED BY <1>1, <1>2, <2>1, <2>2 DEF Moved
<1>15. \A c \in Backend :
          /\ bk'[c].xlast \in {0, Len(wal')}
          /\ bk'[c].op = "write" =>
                \A i \in 1..Len(wal') : wal'[i].part # NoPart => wal'[i].orig <= bk'[c].ptr
          /\ bk'[c].pc = "insert" =>
                \A i \in 1..Len(wal') : wal'[i].part = bk'[c].part => wal'[i].lsn < bk'[c].lsn
          /\ bk'[c].pc = "enter" /\ lsnHash'[bk'[c].part] = 0 =>
                \A i \in 1..Len(wal') : wal'[i].part = bk'[c].part => wal'[i].lsn < bk'[c].init
  BY <1>2, <1>9, <1>10, <1>12, <1>13, Zenon
<1>16. \A p \in Partition : lsnHash'[p] # 0 =>
           \A i \in 1..Len(wal') : wal'[i].part = p => wal'[i].lsn < lsnHash'[p]
  BY <1>14
<1> QED BY <1>8, <1>15, <1>16, Zenon DEF SerialInv, InOrder

LEMMA SerialOthers ==
    ASSUME ControlInv, OneClient, NothingSkipped, SerialInv,
           DemuxStart \/ DemuxLoop \/ DemuxStop \/ ServerStep \/ UNCHANGED vars
    PROVE  SerialInv'
<1>1. Len(wal) \in Nat
  BY SizeAssumption DEF ControlInv, TypeOK
<1>2. /\ Len(wal') \in Nat /\ Len(wal') <= Len(wal) /\ \A i \in 1..Len(wal') : wal'[i] = wal[i]
      /\ \/ wal' = wal /\ bk' = bk /\ lsnHash' = lsnHash
         \/ bk' = [b \in Backend |-> IdleBackend] /\ lsnHash' = [p \in Partition |-> 0]
  BY OthersKeepWal
<1>3. CASE wal' = wal /\ bk' = bk /\ lsnHash' = lsnHash
  BY <1>3 DEF SerialInv, SamePart
<1>4. CASE bk' = [b \in Backend |-> IdleBackend] /\ lsnHash' = [p \in Partition |-> 0]
  <2>1. \A i \in 1..Len(wal') : i \in 1..Len(wal) /\ wal'[i] = wal[i]
    BY <1>1, <1>2
  <2>2. \A b \in Backend : bk'[b].xlast = 0 /\ bk'[b].op = "none" /\ bk'[b].pc = "idle"
    BY <1>4 DEF IdleBackend
  <2>3. \A p \in Partition : lsnHash'[p] = 0
    BY <1>4
  <2>4. InOrder'
    BY <2>1 DEF SerialInv, InOrder, SamePart
  <2> QED BY <2>2, <2>3, <2>4 DEF SerialInv, InOrder
<1> QED BY <1>2, <1>3, <1>4

LEMMA SerialInit == Init => SerialInv
<1> SUFFICES ASSUME Init PROVE SerialInv
  OBVIOUS
<1>1. \A i \in 1..Len(wal) : wal[i].part = NoPart
  BY SizeAssumption DEF Init, Other
<1>2. \A b \in Backend : bk[b].xlast = 0 /\ bk[b].op = "none" /\ bk[b].pc = "idle"
  BY DEF Init, IdleBackend
<1>3. \A p \in Partition : lsnHash[p] = 0
  BY DEF Init
<1> QED BY <1>1, <1>2, <1>3 DEF SerialInv, SamePart

LEMMA SerialNext == HistoryInv /\ RestoreInv /\ SerialInv /\ [Next]_vars => SerialInv'
<1> SUFFICES ASSUME HistoryInv, RestoreInv, SerialInv, [Next]_vars, OneClient, NothingSkipped
             PROVE  SerialInv'
  BY DEF SerialInv
<1>1. ControlInv /\ ControlInv'
  BY HistoryNext DEF HistoryInv
<1>2. CASE \E b \in Backend : BackendStep(b)
  BY <1>1, <1>2, SerialBackend
<1>3. CASE DemuxStart \/ DemuxLoop \/ DemuxStop \/ ServerStep \/ UNCHANGED vars
  BY <1>1, <1>3, SerialOthers
<1> QED BY <1>2, <1>3 DEF Next

SingleInv == HistoryInv /\ RestoreInv /\ SerialInv

LEMMA SingleAlways == Spec => []SingleInv
<1>1. Init => SingleInv
  BY HistoryInit, RestoreInit, SerialInit DEF SingleInv
<1>2. SingleInv /\ [Next]_vars => SingleInv'
  BY HistoryNext, RestoreNext, SerialNext DEF SingleInv
<1> QED BY <1>1, <1>2, PTL DEF Spec

\* With one client at a time and whatever crashes, no partition_lsn is used
\* twice, although the counter is in shared memory only and is taken from the
\* files after a restart.
THEOREM LsnNotReused ==
    ASSUME OneClient, NothingSkipped
    PROVE  Spec => []LsnNeverReused
<1>1. SingleInv => LsnNeverReused
  <2> SUFFICES ASSUME SingleInv, NEW i \in 1..Len(wal), NEW j \in 1..Len(wal), i # j, SamePart(i, j)
               PROVE  wal[i].lsn # wal[j].lsn
    BY DEF LsnNeverReused
  <2>1. TypeOK /\ InOrder
    BY DEF SingleInv, HistoryInv, ControlInv, SerialInv, InOrder
  <2>2. SamePart(j, i) /\ wal[i].part # NoPart /\ wal[j].part # NoPart
    BY DEF SamePart
  <2>3. wal[i].lsn \in Nat /\ wal[j].lsn \in Nat
    BY <2>1, <2>2, NextRecordType
  <2>4. i < j \/ j < i
    BY <2>1, SizeAssumption DEF TypeOK
  <2> QED BY <2>1, <2>2, <2>3, <2>4 DEF InOrder
<1> QED BY <1>1, SingleAlways, PTL

\* With one client at a time recovery rebuilds the files completely: redo skips
\* a header only when it is in its file.
THEOREM RecoveryComplete ==
    ASSUME OneClient, NothingSkipped
    PROVE  Spec => []RebuiltByRecovery
<1>1. SingleInv => RebuiltByRecovery
  <2> SUFFICES ASSUME SingleInv, mode = "recover", replayed = Len(wal),
                      NEW i \in 1..Len(wal), wal[i].part # NoPart
               PROVE  OnDisk(wal[i])
    BY DEF RebuiltByRecovery
  <2>1. TypeOK /\ InOrder /\ RestoredUpTo(replayed)
    BY DEF SingleInv, HistoryInv, ControlInv, SerialInv, InOrder, RestoreInv
  <2>2. ~Overtaken(i)
    BY <2>1, OrderFacts
  <2> QED BY <2>1, <2>2 DEF RestoredUpTo
<1> QED BY <1>1, SingleAlways, PTL

FlushDelivers ==
    \A b \in Backend : DemuxFlushReturn(b) =>
        \A i \in 1..bk[b].ptr : wal[i].part # NoPart => OnDisk(wal[i])

\* With one client at a time, and room for every partition in the writer cache,
\* everything that was flushed when demux_flush() was called is in its file when
\* it returns.
THEOREM FlushComplete ==
    ASSUME OneClient, NothingSkipped, Cardinality(Partition) <= MaxWriters
    PROVE  Spec => DemuxFlushComplete
<1>1. SingleInv /\ [Next]_vars => [FlushDelivers]_vars
  <2> SUFFICES ASSUME SingleInv, NEW b \in Backend, DemuxFlushReturn(b),
                      NEW i \in 1..bk[b].ptr, wal[i].part # NoPart
               PROVE  OnDisk(wal[i])
    BY DEF FlushDelivers
  <2>1. TypeOK /\ InOrder /\ RestartControl /\ RestoredUpTo(redoPtr) /\ RoutedInv
    BY DEF SingleInv, HistoryInv, ControlInv, SerialInv, InOrder, RestoreInv
  <2>2. lastProcessed # 0 /\ lastProcessed >= bk[b].ptr
    BY DEF DemuxFlushReturn
  <2>3. /\ lastProcessed \in Nat /\ lastProcessed <= endRecPtr /\ endRecPtr \in Nat
        /\ flushed \in Nat /\ endRecPtr <= flushed /\ flushed <= Len(wal) /\ Len(wal) \in Nat
        /\ redoPtr \in Nat /\ startLSN \in Nat /\ bk[b].ptr \in Nat
    <3>1. /\ lastProcessed \in Nat /\ lastProcessed <= endRecPtr /\ endRecPtr \in Nat
          /\ flushed \in Nat /\ endRecPtr <= flushed /\ flushed <= Len(wal) /\ Len(wal) \in Nat
          /\ redoPtr \in Nat /\ startLSN \in Nat
      BY <2>1, SizeAssumption DEF TypeOK
    <3>2. bk[b].ptr \in 0..MaxWal
      BY <2>1 DEF TypeOK, BackendState
    <3> QED BY <3>1, <3>2, SizeAssumption
  <2>4. i \in 1..endRecPtr /\ i \in 1..Len(wal)
    BY <2>2, <2>3
  <2>5. ~Overtaken(i)
    BY <2>1, <2>4, OrderFacts
  <2>6. demux # "down"
    BY <2>1, <2>2, <2>3 DEF RestartControl
  <2>7. startLSN = redoPtr
    BY <2>1, <2>6 DEF RestartControl
  <2>8. CASE i <= redoPtr
    <3>1. i \in 1..redoPtr
      BY <2>3, <2>4, <2>8
    <3> QED BY <2>1, <2>5, <3>1 DEF RestoredUpTo
  <2>9. CASE i > redoPtr
    <3>1. i \in startLSN + 1..endRecPtr
      BY <2>3, <2>4, <2>7, <2>9
    <3>2. RoutedUpTo(endRecPtr)
      BY <2>1, <2>6 DEF RoutedInv, NothingSkipped
    <3> QED BY <2>5, <3>1, <3>2 DEF RoutedUpTo, Served
  <2> QED BY <2>3, <2>4, <2>8, <2>9
<1>2. DemuxFlushComplete <=> [][FlushDelivers]_vars
  BY DEF DemuxFlushComplete, FlushDelivers
<1> QED BY <1>1, <1>2, SingleAlways, PTL DEF Spec

-----------------------------------------------------------------------------
(* One client that allocates an LSN only to write it *)

\* A backend that holds an LSN inserts it next.
LEMMA InsertNext ==
    ASSUME NEW b \in Backend, BackendStep(b), bk[b].pc = "insert"
    PROVE  XLogInsert(b)
<1>1. ~EndXact(b) /\ ~DemuxFlushCall(b)
  BY DEF EndXact, DemuxFlushCall, Idle
<1>2. ~AllocScan(b) /\ ~AllocEnter(b) /\ ~AllocFull(b) /\ ~XLogFlush(b)
  BY DEF AllocScan, AllocEnter, AllocFull, XLogFlush
<1>3. ~DemuxFlushReturn(b) /\ ~DemuxFlushTimeout(b) /\ ~ResetOpenDir(b) /\ ~CloseDir(b)
  BY DEF DemuxFlushReturn, DemuxFlushTimeout, ResetOpenDir, CloseDir
<1>4. \A s \in Segment : ~UnlinkFile(b, s)
  BY DEF UnlinkFile
<1>5. \A S \in SUBSET Partition, logged \in BOOLEAN : ~ExecutorFinish(b, S, logged)
  BY DEF ExecutorFinish, Idle
<1>6. \A p \in Partition : /\ ~WritePartitionWALRecordSql(b, p) /\ ~AllocPartitionLSNSql(b, p)
                           /\ ~AllocFind(b, p) /\ ~ResetRemoveEntry(b, p)
  BY DEF WritePartitionWALRecordSql, AllocPartitionLSNSql, AllocFind, ResetRemoveEntry, Idle
<1>7. \A p \in Partition, keep \in 1..MaxWal : ~CleanupOpenDir(b, p, keep)
  BY DEF CleanupOpenDir, Idle
<1> QED BY <1>1, <1>2, <1>3, <1>4, <1>5, <1>6, <1>7 DEF BackendStep

\* The scan returns 0 or an LSN of the WAL.
LEMMA ScanPreceded ==
    ASSUME TypeOK, Provenance, NEW p \in Partition
    PROVE  LET last == GetLastWrittenPartitionLSN(p)
           IN  Preceded(p, IF last > 0 THEN last + 1 ELSE 1, Len(wal))
<1> DEFINE last == GetLastWrittenPartitionLSN(p)
<1>1. last \in Nat
  BY GetLastType
<1>2. CASE last = 0
  BY <1>2 DEF Preceded
<1>3. CASE last # 0
  <2>1. PICK s \in Segment : \E n \in 1..Len(parwal[p][s]) : parwal[p][s][n].lsn = last
    BY <1>3, GetLastOnDisk
  <2>2. PICK n \in 1..Len(parwal[p][s]) : parwal[p][s][n].lsn = last
    BY <2>1
  <2>3. PICK i \in 1..flushed : wal[i] = parwal[p][s][n] /\ wal[i].part = p
    BY <2>2 DEF Provenance
  <2>4. i \in 1..Len(wal)
    BY SizeAssumption DEF TypeOK
  <2> HIDE DEF last
  <2>5. last > 0 /\ (last + 1) - 1 = last
    BY <1>1, <1>3
  <2>6. \E j \in 1..Len(wal) : wal[j].part = p /\ wal[j].lsn = (last + 1) - 1
    BY <2>2, <2>3, <2>4, <2>5
  <2> QED BY <2>5, <2>6 DEF Preceded, last
<1> QED BY <1>2, <1>3

LEMMA DenseBackend ==
    ASSUME HistoryInv, ControlInv', OneClient, NothingSkipped, "alloc" \notin Env, DenseInv,
           NEW b \in Backend, BackendStep(b)
    PROVE  DenseInv'
<1>1. ControlInv /\ TypeOK /\ Provenance /\ "reset" \notin Env
  BY DEF HistoryInv, ControlInv, DiskInv, NothingSkipped
<1>2. Moved(b) /\ \A c \in Backend : c = b
  BY <1>1, BackendMoved DEF OneClient
<1> DEFINE h == [part |-> bk[b].part, lsn |-> bk[b].lsn, orig |-> bk[b].ptr]
           end == Len(wal)
<1>3. /\ end \in Nat /\ Len(wal') \in Nat /\ end <= Len(wal')
      /\ \A i \in 1..end : wal'[i] = wal[i]
      /\ \A i \in end + 1..Len(wal') : i = end + 1 /\ (wal'[i] = Other \/ (XLogInsert(b) /\ wal'[i] = h))
  BY <1>1, <1>2, WalAfterMove
<1>4. /\ bk \in [Backend -> BackendState] /\ bk[b] \in BackendState
      /\ lsnHash \in [Partition -> Nat]
  BY <1>1 DEF TypeOK
<1>5. /\ \A i \in 1..end : wal[i].part # NoPart => Preceded(wal[i].part, wal[i].lsn, i - 1)
      /\ bk[b].op # "alloc"
      /\ bk[b].pc = "insert" => /\ Preceded(bk[b].part, bk[b].lsn, end)
                                /\ lsnHash[bk[b].part] = bk[b].lsn + 1
      /\ bk[b].pc = "enter" /\ lsnHash[bk[b].part] = 0 => Preceded(bk[b].part, bk[b].init, end)
      /\ \A p \in Partition : lsnHash[p] # 0 /\ (bk[b].pc = "insert" => bk[b].part # p) =>
             Preceded(p, lsnHash[p], end)
  BY <1>2 DEF DenseInv
<1>6. XLogInsert(b) => /\ bk[b].pc = "insert" /\ bk[b].part \in Partition /\ lsnHash' = lsnHash
                       /\ h.part = bk[b].part /\ h.lsn = bk[b].lsn /\ bk[b].lsn \in Nat
                       /\ Len(wal') = end + 1 /\ wal'[end + 1] = h
  <2> SUFFICES ASSUME XLogInsert(b)
               PROVE  /\ bk[b].pc = "insert" /\ bk[b].part \in Partition /\ lsnHash' = lsnHash
                      /\ h.part = bk[b].part /\ h.lsn = bk[b].lsn /\ bk[b].lsn \in Nat
                      /\ Len(wal') = end + 1 /\ wal'[end + 1] = h
    OBVIOUS
  <2>1. bk[b].pc = "insert" /\ lsnHash' = lsnHash /\ wal' = Append(wal, h)
    BY DEF XLogInsert
  <2>2. bk[b].part \in Partition /\ bk[b].lsn \in Nat
    BY <1>1, <1>4, <2>1 DEF ControlInv, BackendInv, BackendOK, BackendState
  <2>3. h.part = bk[b].part /\ h.lsn = bk[b].lsn
    OBVIOUS
  <2> HIDE DEF h
  <2>4. Len(wal') = end + 1 /\ wal'[end + 1] = h
    BY <1>1, <2>1 DEF TypeOK
  <2> QED BY <2>1, <2>2, <2>3, <2>4
<1> HIDE DEF h
<1>7. ASSUME NEW i \in 1..Len(wal'), wal'[i].part # NoPart
      PROVE  (i \in 1..end /\ wal'[i] = wal[i]) \/ (i = end + 1 /\ wal'[i] = h /\ XLogInsert(b))
  <2>1. CASE i \in 1..end
    BY <1>3, <2>1
  <2>2. CASE i \in end + 1..Len(wal')
    BY <1>3, <1>7, <2>2 DEF Other
  <2> QED BY <1>3, <2>1, <2>2
<1> HIDE DEF end
\* What precedes an LSN stays.
<1>8. ASSUME NEW p, NEW l, NEW n \in 0..end, NEW m, n <= m, m \in Int, Preceded(p, l, n)
      PROVE  l = 1 \/ \E i \in 1..m : wal'[i].part = p /\ wal'[i].lsn = l - 1
  <2>1. \A i \in 1..n : i \in 1..m /\ wal'[i] = wal[i]
    BY <1>3, <1>8
  <2> QED BY <1>8, <2>1 DEF Preceded
<1>9. ASSUME NEW i \in 1..Len(wal'), wal'[i].part # NoPart
      PROVE  \/ wal'[i].lsn = 1
             \/ \E j \in 1..i - 1 : wal'[j].part = wal'[i].part /\ wal'[j].lsn = wal'[i].lsn - 1
  <2>1. CASE i \in 1..end /\ wal'[i] = wal[i]
    <3>1. i - 1 \in 0..end /\ i - 1 \in Int /\ i - 1 <= i - 1
      BY <1>3, <2>1
    <3>2. Preceded(wal[i].part, wal[i].lsn, i - 1)
      BY <1>5, <1>9, <2>1
    <3> DEFINE n == i - 1
               p == wal[i].part
               l == wal[i].lsn
    <3> HIDE DEF n, p, l
    <3>3. l = 1 \/ \E j \in 1..n : wal'[j].part = p /\ wal'[j].lsn = l - 1
      <4>1. n \in 0..end /\ Preceded(p, l, n)
        BY <3>1, <3>2 DEF n, p, l
      <4>2. \A j \in 1..n : wal'[j] = wal[j]
        BY <1>3, <4>1
      <4> QED BY <4>1, <4>2 DEF Preceded
    <3> QED BY <2>1, <3>3 DEF n, p, l
  <2>2. CASE i = end + 1 /\ wal'[i] = h /\ XLogInsert(b)
    <3>1. end \in 0..end /\ end \in Int /\ end <= end /\ i - 1 = end
      BY <1>3, <2>2
    <3>2. Preceded(bk[b].part, bk[b].lsn, end)
      BY <1>5, <1>6, <2>2
    <3>3. bk[b].lsn = 1 \/ \E j \in 1..end : wal'[j].part = bk[b].part /\ wal'[j].lsn = bk[b].lsn - 1
      BY <1>8, <3>1, <3>2
    <3> QED BY <1>6, <2>2, <3>1, <3>3
  <2> QED BY <1>7, <1>9, <2>1, <2>2
<1>10. ASSUME NEW p, NEW l, Preceded(p, l, end)
       PROVE  l = 1 \/ \E i \in 1..Len(wal') : wal'[i].part = p /\ wal'[i].lsn = l - 1
  <2>1. end \in 0..end /\ end <= Len(wal') /\ Len(wal') \in Int
    BY <1>3
  <2> QED BY <1>8, <1>10, <2>1
<1>11. bk'[b].op # "alloc"
  BY <1>2, <1>5 DEF Moved
<1>12. ASSUME AllocEnter(b)
       PROVE  /\ lsnHash' = [lsnHash EXCEPT ![bk[b].part] = NextLsn(b) + 1]
              /\ bk[b].part \in Partition
              /\ bk[b].pc = "enter"
              /\ Preceded(bk[b].part, NextLsn(b), end)
              /\ bk'[b].pc = "insert" /\ bk'[b].part = bk[b].part /\ bk'[b].lsn = NextLsn(b)
  <2>1. /\ bk[b].pc = "enter"
        /\ lsnHash' = [lsnHash EXCEPT ![bk[b].part] = NextLsn(b) + 1]
        /\ bk' = [bk EXCEPT ![b] = [bk[b] EXCEPT !.pc = "insert", !.lsn = NextLsn(b), !.init = 0]]
    BY <1>5, <1>12 DEF AllocEnter
  <2>2. bk[b].part \in Partition
    BY <1>1, <2>1 DEF ControlInv, BackendInv, BackendOK
  <2>3. Preceded(bk[b].part, NextLsn(b), end)
    BY <1>5, <2>1, <2>2 DEF NextLsn
  <2> DEFINE nl == NextLsn(b)
  <2> HIDE DEF nl
  <2>4. bk'[b] = [bk[b] EXCEPT !.pc = "insert", !.lsn = nl, !.init = 0]
    BY <1>4, <2>1 DEF nl
  <2>5. bk'[b].pc = "insert" /\ bk'[b].part = bk[b].part /\ bk'[b].lsn = nl
    BY <1>4, <2>4 DEF BackendState
  <2> QED BY <2>1, <2>2, <2>3, <2>5 DEF nl
<1>13. ASSUME bk'[b].pc = "insert"
       PROVE  /\ \/ bk'[b].lsn = 1
                 \/ \E i \in 1..Len(wal') : wal'[i].part = bk'[b].part /\ wal'[i].lsn = bk'[b].lsn - 1
              /\ lsnHash'[bk'[b].part] = bk'[b].lsn + 1
  <2>1. AllocEnter(b)
    BY <1>2, <1>13 DEF Moved
  <2>2. lsnHash'[bk[b].part] = NextLsn(b) + 1
    BY <1>4, <1>12, <2>1
  <2> QED BY <1>10, <1>12, <2>1, <2>2
<1>14. ASSUME bk'[b].pc = "enter", lsnHash'[bk'[b].part] = 0
       PROVE  \/ bk'[b].init = 1
              \/ \E i \in 1..Len(wal') : wal'[i].part = bk'[b].part /\ wal'[i].lsn = bk'[b].init - 1
  <2>1. ASSUME NEW p \in Partition, AllocFind(b, p) PROVE FALSE
    <3>1. /\ lsnHash' = lsnHash
          /\ bk'[b] = [bk[b] EXCEPT !.pc = IF lsnHash[p] = 0 THEN "scan" ELSE "enter",
                                    !.rels = bk[b].rels \ {p}, !.part = p, !.init = 1]
      BY <1>4, <2>1 DEF AllocFind
    <3>2. bk'[b].part = p /\ bk'[b].pc = IF lsnHash[p] = 0 THEN "scan" ELSE "enter"
      BY <1>4, <3>1 DEF BackendState
    <3> QED BY <1>14, <3>1, <3>2
  <2>2. CASE AllocScan(b)
    <3> DEFINE last == GetLastWrittenPartitionLSN(bk[b].part)
               init == IF last > 0 THEN last + 1 ELSE 1
    <3>1. /\ bk[b].pc = "scan"
          /\ bk' = [bk EXCEPT ![b] = [bk[b] EXCEPT !.pc = "enter", !.init = init]]
      BY <2>2 DEF AllocScan
    <3>2. bk[b].part \in Partition
      BY <1>1, <3>1 DEF ControlInv, BackendInv, BackendOK
    <3>3. Preceded(bk[b].part, init, end)
      BY <1>1, <3>2, ScanPreceded DEF end
    <3> HIDE DEF init
    <3>4. bk'[b].part = bk[b].part /\ bk'[b].init = init
      BY <1>4, <3>1 DEF BackendState
    <3> QED BY <1>10, <3>3, <3>4
  <2> QED BY <1>2, <1>14, <2>1, <2>2 DEF Moved
<1>15. ASSUME NEW p \in Partition, lsnHash'[p] # 0, bk'[b].pc = "insert" => bk'[b].part # p
       PROVE  \/ lsnHash'[p] = 1
              \/ \E i \in 1..Len(wal') : wal'[i].part = p /\ wal'[i].lsn = lsnHash'[p] - 1
  <2>1. CASE AllocEnter(b)
    <3>1. lsnHash'[p] = lsnHash[p] /\ bk[b].pc # "insert"
      BY <1>4, <1>12, <1>15, <2>1
    <3>2. Preceded(p, lsnHash[p], end)
      BY <1>5, <1>15, <3>1
    <3> QED BY <1>10, <3>1, <3>2
  <2>2. CASE lsnHash' = lsnHash /\ bk[b].pc = "insert" /\ bk[b].part = p
    <3>1. XLogInsert(b)
      BY <2>2, InsertNext
    <3>2. lsnHash'[p] = bk[b].lsn + 1 /\ bk[b].lsn \in Nat
      BY <1>5, <1>6, <2>2, <3>1
    <3>3. end + 1 \in 1..Len(wal') /\ wal'[end + 1].part = p /\ wal'[end + 1].lsn = bk[b].lsn
      BY <1>3, <1>6, <2>2, <3>1
    <3>4. lsnHash'[p] - 1 = bk[b].lsn
      BY <3>2
    <3> QED BY <3>3, <3>4
  <2>3. CASE lsnHash' = lsnHash /\ (bk[b].pc = "insert" => bk[b].part # p)
    <3>1. Preceded(p, lsnHash[p], end)
      BY <1>5, <1>15, <2>3
    <3> QED BY <1>10, <2>3, <3>1
  <2> QED BY <1>1, <1>2, <2>1, <2>2, <2>3 DEF Moved
<1>16. \A c \in Backend :
          /\ bk'[c].op # "alloc"
          /\ bk'[c].pc = "insert" =>
                /\ \/ bk'[c].lsn = 1
                   \/ \E i \in 1..Len(wal') : wal'[i].part = bk'[c].part /\ wal'[i].lsn = bk'[c].lsn - 1
                /\ lsnHash'[bk'[c].part] = bk'[c].lsn + 1
          /\ bk'[c].pc = "enter" /\ lsnHash'[bk'[c].part] = 0 =>
                \/ bk'[c].init = 1
                \/ \E i \in 1..Len(wal') : wal'[i].part = bk'[c].part /\ wal'[i].lsn = bk'[c].init - 1
  BY <1>2, <1>11, <1>13, <1>14, Zenon
<1>17. \A p \in Partition :
          lsnHash'[p] # 0 /\ (\A c \in Backend : bk'[c].pc = "insert" => bk'[c].part # p) =>
              \/ lsnHash'[p] = 1
              \/ \E i \in 1..Len(wal') : wal'[i].part = p /\ wal'[i].lsn = lsnHash'[p] - 1
  BY <1>15
<1> QED BY <1>9, <1>16, <1>17, Zenon DEF DenseInv, Preceded

LEMMA DenseOthers ==
    ASSUME ControlInv, OneClient, NothingSkipped, "alloc" \notin Env, DenseInv,
           DemuxStart \/ DemuxLoop \/ DemuxStop \/ ServerStep \/ UNCHANGED vars
    PROVE  DenseInv'
<1>1. Len(wal) \in Nat
  BY SizeAssumption DEF ControlInv, TypeOK
<1>2. /\ Len(wal') \in Nat /\ Len(wal') <= Len(wal) /\ \A i \in 1..Len(wal') : wal'[i] = wal[i]
      /\ \/ wal' = wal /\ bk' = bk /\ lsnHash' = lsnHash
         \/ bk' = [b \in Backend |-> IdleBackend] /\ lsnHash' = [p \in Partition |-> 0]
  BY OthersKeepWal
<1>3. CASE wal' = wal /\ bk' = bk /\ lsnHash' = lsnHash
  BY <1>3 DEF DenseInv, Preceded
<1>4. CASE bk' = [b \in Backend |-> IdleBackend] /\ lsnHash' = [p \in Partition |-> 0]
  <2>1. \A b \in Backend : bk'[b].op = "none" /\ bk'[b].pc = "idle"
    BY <1>4 DEF IdleBackend
  <2>2. \A p \in Partition : lsnHash'[p] = 0
    BY <1>4
  <2>3. ASSUME NEW i \in 1..Len(wal'), wal'[i].part # NoPart
        PROVE  Preceded(wal[i].part, wal[i].lsn, i - 1)'
    <3>1. i \in 1..Len(wal) /\ wal'[i] = wal[i] /\ \A j \in 1..i - 1 : wal'[j] = wal[j]
      BY <1>1, <1>2
    <3>2. Preceded(wal[i].part, wal[i].lsn, i - 1)
      BY <2>3, <3>1 DEF DenseInv
    <3> QED BY <3>1, <3>2 DEF Preceded
  <2> QED BY <2>1, <2>2, <2>3 DEF DenseInv
<1> QED BY <1>2, <1>3, <1>4

LEMMA DenseInit == Init => DenseInv
<1> SUFFICES ASSUME Init PROVE DenseInv
  OBVIOUS
<1>1. \A i \in 1..Len(wal) : wal[i].part = NoPart
  BY SizeAssumption DEF Init, Other
<1>2. \A b \in Backend : bk[b].op = "none" /\ bk[b].pc = "idle"
  BY DEF Init, IdleBackend
<1>3. \A p \in Partition : lsnHash[p] = 0
  BY DEF Init
<1> QED BY <1>1, <1>2, <1>3 DEF DenseInv

LEMMA DenseNext == HistoryInv /\ DenseInv /\ [Next]_vars => DenseInv'
<1> SUFFICES ASSUME HistoryInv, DenseInv, [Next]_vars, OneClient, NothingSkipped, "alloc" \notin Env
             PROVE  DenseInv'
  BY DEF DenseInv
<1>1. ControlInv /\ ControlInv'
  BY HistoryNext DEF HistoryInv
<1>2. CASE \E b \in Backend : BackendStep(b)
  BY <1>1, <1>2, DenseBackend
<1>3. CASE DemuxStart \/ DemuxLoop \/ DemuxStop \/ ServerStep \/ UNCHANGED vars
  BY <1>1, <1>3, DenseOthers
<1> QED BY <1>2, <1>3 DEF Next

\* A sequence of records with ascending LSNs, in which every LSN but 1 follows
\* its predecessor, is numbered 1, 2, 3, ...
LEMMA Numbered ==
    ASSUME NEW all \in Seq(Header),
           \A m, n \in 1..Len(all) : m < n => all[m].lsn < all[n].lsn,
           \A n \in 1..Len(all) :
               all[n].lsn = 1 \/ \E m \in 1..Len(all) : all[m].lsn = all[n].lsn - 1
    PROVE  \A n \in 1..Len(all) : all[n].lsn = n
<1> DEFINE N == Len(all)
           G == {n \in Nat : n \in 1..N => all[n].lsn = n}
<1>1. N \in Nat /\ \A n \in 1..N : all[n].lsn \in Nat \ {0}
  <2>1. \A n \in 1..N : all[n] \in Header
    OBVIOUS
  <2> QED BY <2>1 DEF Header
<1> HIDE DEF N
\* No record lies between an index and its predecessor.
<1>2. ASSUME NEW n \in 1..N, all[n].lsn # 1
      PROVE  n # 1 /\ all[n - 1].lsn = all[n].lsn - 1
  <2>1. PICK m \in 1..N : all[m].lsn = all[n].lsn - 1
    BY <1>2 DEF N
  <2>2. all[m].lsn < all[n].lsn
    BY <1>1, <2>1
  <2>3. m < n
    <3>1. ~(n < m)
      <4> SUFFICES ASSUME n < m PROVE FALSE
        OBVIOUS
      <4>1. all[n].lsn < all[m].lsn
        BY DEF N
      <4> QED BY <1>1, <2>2, <4>1
    <3>2. m # n
      BY <1>1, <2>2
    <3> QED BY <1>1, <3>1, <3>2
  <2>4. m = n - 1
    <3> SUFFICES ASSUME m # n - 1 PROVE FALSE
      OBVIOUS
    <3>1. n - 1 \in 1..N /\ m < n - 1 /\ n - 1 < n
      BY <1>1, <2>3
    <3>2. all[m].lsn < all[n - 1].lsn /\ all[n - 1].lsn < all[n].lsn
      BY <3>1 DEF N
    <3> QED BY <1>1, <2>1, <3>1, <3>2
  <2> QED BY <1>1, <2>1, <2>3, <2>4
<1>3. 1 \in G
  BY <1>2
<1>4. ASSUME NEW n \in 1..N - 1, n \in G PROVE n + 1 \in G
  <2>1. n \in 1..N /\ n + 1 \in 1..N /\ n + 1 \in Nat /\ (n + 1) - 1 = n /\ n < n + 1
    BY <1>1
  <2>2. all[n].lsn = n
    BY <1>4, <2>1
  <2>3. all[n].lsn < all[n + 1].lsn
    BY <2>1 DEF N
  <2>4. all[n + 1].lsn # 1
    BY <1>1, <2>1, <2>2, <2>3
  <2>5. all[n].lsn = all[n + 1].lsn - 1
    BY <1>2, <2>1, <2>4
  <2>6. all[n + 1].lsn = n + 1
    BY <1>1, <2>1, <2>2, <2>5
  <2> QED BY <2>1, <2>6
<1>5. 1..N \subseteq G
  <2> HIDE DEF G
  <2> QED BY <1>1, <1>3, <1>4, IndexInduction
<1> QED BY <1>1, <1>5 DEF N

\* The files read one after the other: their records, in the order of their LSNs.
LEMMA AllFiles ==
    ASSUME TypeOK, NEW p \in Partition, Ascending(p)
    PROVE  LET all == FlattenSeq(parwal[p])
           IN  /\ all \in Seq(Header)
               /\ \A m, n \in 1..Len(all) : m < n => all[m].lsn < all[n].lsn
               /\ \A h : h \in Range(all) <=> \E s \in Segment : h \in Range(parwal[p][s])
<1> DEFINE N == FileSeg(MaxWal)
           f == parwal[p]
           R == {x \in Header \X Header : x[1].lsn < x[2].lsn}
<1>1. N \in Nat \ {0} /\ Segment = 1..N
  BY FileSegType DEF Segment
<1>2. f \in [1..N -> Seq(Header)]
  BY <1>1 DEF TypeOK
<1>3. \A s \in 1..N : \A m \in 1..Len(f[s]) : f[s][m] \in Header
  <2> HIDE DEF f, N
  <2>1. \A s \in 1..N : f[s] \in Seq(Header)
    BY <1>2
  <2> QED BY <2>1, RangeFacts
<1>4. /\ \A s \in 1..N : \A m, n \in 1..Len(f[s]) : m < n => f[s][m].lsn < f[s][n].lsn
      /\ \A s, t \in 1..N : s < t =>
            \A m \in 1..Len(f[s]), n \in 1..Len(f[t]) : f[s][m].lsn < f[t][n].lsn
  BY <1>1 DEF Ascending
<1> HIDE DEF N, f
<1>5. \A g, h \in Header : <<g, h>> \in R <=> g.lsn < h.lsn
  OBVIOUS
<1> HIDE DEF R
<1>6. /\ \A s \in 1..N : \A m, n \in 1..Len(f[s]) : m < n => <<f[s][m], f[s][n]>> \in R
      /\ \A s, t \in 1..N : s < t =>
            \A m \in 1..Len(f[s]), n \in 1..Len(f[t]) : <<f[s][m], f[t][n]>> \in R
  BY <1>3, <1>4, <1>5
<1> DEFINE all == FlattenSeq(f)
<1>7. /\ all \in Seq(Header)
      /\ \A h : h \in Range(all) <=> \E s \in 1..N : h \in Range(f[s])
      /\ \A m, n \in 1..Len(all) : m < n => <<all[m], all[n]>> \in R
  BY <1>1, <1>2, <1>6, FlattenFacts
<1> HIDE DEF all
<1>8. \A m \in 1..Len(all) : all[m] \in Header
  BY <1>7
<1>9. \A m, n \in 1..Len(all) : m < n => all[m].lsn < all[n].lsn
  BY <1>5, <1>7, <1>8
<1> QED BY <1>1, <1>7, <1>9 DEF f, all

DenseSingleInv == SingleInv /\ DenseInv

LEMMA DenseSingleAlways == Spec => []DenseSingleInv
<1>1. Init => DenseSingleInv
  BY HistoryInit, RestoreInit, SerialInit, DenseInit DEF DenseSingleInv, SingleInv
<1>2. DenseSingleInv /\ [Next]_vars => DenseSingleInv'
  BY HistoryNext, RestoreNext, SerialNext, DenseNext DEF DenseSingleInv, SingleInv
<1> QED BY <1>1, <1>2, PTL DEF Spec

\* With one client at a time that uses every LSN it allocates, and whatever
\* crashes, verify_partition_wal() finds the records 1, 2, 3, ... at any moment.
THEOREM VerifyAlways ==
    ASSUME OneClient, NothingSkipped, "alloc" \notin Env
    PROVE  Spec => []VerifyHolds
<1>1. DenseSingleInv => VerifyHolds
  <2> SUFFICES ASSUME DenseSingleInv, NEW p \in Partition PROVE Verify(p)
    BY DEF VerifyHolds
  <2>1. /\ TypeOK /\ InOrder /\ Provenance /\ SortedOnDisk /\ EarlierFirst
    BY DEF DenseSingleInv, SingleInv, HistoryInv, ControlInv, DiskInv, SerialInv, InOrder, RestoreInv
  <2>2. flushed \in Nat /\ flushed <= Len(wal) /\ Len(wal) \in Nat
    BY <2>1, SizeAssumption DEF TypeOK
  <2>3. Ascending(p)
    BY <2>1, OrderFacts DEF SortedOnDisk
  <2> DEFINE all == FlattenSeq(parwal[p])
  <2>4. /\ all \in Seq(Header)
        /\ \A m, n \in 1..Len(all) : m < n => all[m].lsn < all[n].lsn
        /\ \A h : h \in Range(all) <=> \E s \in Segment : h \in Range(parwal[p][s])
    BY <2>1, <2>3, AllFiles
  <2> HIDE DEF all
  <2>5. ASSUME NEW n \in 1..Len(all), all[n].lsn # 1
        PROVE  \E m \in 1..Len(all) : all[m].lsn = all[n].lsn - 1
    <3>1. all[n] \in Range(all)
      BY <2>4, RangeFacts
    <3>2. PICK s \in Segment : all[n] \in Range(parwal[p][s])
      BY <2>4, <3>1
    <3>3. parwal[p][s] \in Seq(Header)
      BY <2>1 DEF TypeOK
    <3>4. PICK k \in 1..Len(parwal[p][s]) : parwal[p][s][k] = all[n]
      BY <3>2, <3>3, RangeFacts
    <3>5. PICK j \in 1..flushed : wal[j] = all[n] /\ wal[j].part = p /\ FileSeg(wal[j].orig) = s
      BY <2>1, <3>4 DEF Provenance
    <3>6. j \in 1..Len(wal) /\ j \in Nat /\ wal[j].part # NoPart
      BY <2>2, <3>5, NameAssumption
    <3>7. Preceded(wal[j].part, wal[j].lsn, j - 1)
      BY <3>6 DEF DenseSingleInv, DenseInv
    <3>8. PICK i \in 1..j - 1 : wal[i].part = p /\ wal[i].lsn = all[n].lsn - 1
      BY <2>5, <3>5, <3>7 DEF Preceded
    <3>9. i \in 1..flushed /\ i \in 1..Len(wal) /\ i < j /\ wal[i].part # NoPart /\ SamePart(i, j)
      BY <2>2, <3>5, <3>6, <3>8, NameAssumption DEF SamePart
    <3>10. ~Overtaken(i)
      BY <2>1, <3>9, OrderFacts
    <3>11. OnDisk(wal[j])
      BY <3>2, <3>5 DEF OnDisk
    <3>12. OnDisk(wal[i])
      BY <2>1, <3>5, <3>9, <3>10, <3>11 DEF EarlierFirst
    <3>13. FileSeg(wal[i].orig) \in Segment
      BY <2>1, <3>9, NextRecordType
    <3>14. wal[i] \in Range(all)
      BY <2>4, <3>8, <3>12, <3>13 DEF OnDisk
    <3>15. PICK m \in 1..Len(all) : all[m] = wal[i]
      BY <2>4, <3>14, RangeFacts
    <3> QED BY <3>8, <3>15
  <2>6. \A n \in 1..Len(all) : all[n].lsn = n
    BY <2>4, <2>5, Numbered
  <2> QED BY <2>6 DEF Verify, all
<1> QED BY <1>1, DenseSingleAlways, PTL
-----------------------------------------------------------------------------
(* The log of one client: every step is a step of PartitionLog, or stutters *)

\* One client that uses every LSN it allocates.
Alone == OneClient /\ NothingSkipped /\ "alloc" \notin Env

\* WalLsns and FileLsns, for any WAL and any files.
LsnsIn(w, p, n) == {w[i].lsn : i \in {k \in 1..n : w[k].part = p}}
LsnsOf(f) == UNION {{h.lsn : h \in Range(f[s])} : s \in Segment}

LEMMA LsnsAreThese ==
    ASSUME NEW p \in Partition
    PROVE  /\ \A n : WalLsns(p, n) = LsnsIn(wal, p, n)
           /\ WalLsns(p, Len(wal))' = LsnsIn(wal', p, Len(wal'))
           /\ WalLsns(p, flushed)' = LsnsIn(wal', p, flushed')
           /\ FileLsns(p) = LsnsOf(parwal[p]) /\ FileLsns(p)' = LsnsOf(parwal'[p])
BY DEF WalLsns, FileLsns, LsnsIn, LsnsOf

\* The LSNs in the WAL up to some record have no gaps.
LEMMA NoGapsInWal ==
    ASSUME Alone, TypeOK', DenseInv', NEW p \in Partition, NEW n \in Nat, n <= Len(wal')
    PROVE  Log!NoGaps(LsnsIn(wal', p, n))
<1> SUFFICES ASSUME NEW i \in 1..n, wal'[i].part = p
             PROVE  wal'[i].lsn \in Log!Following(LsnsIn(wal', p, n))
  BY DEF Log!NoGaps, LsnsIn
<1>1. Len(wal') \in Nat /\ i \in 1..Len(wal') /\ p # NoPart
  <2>1. Len(wal') \in SegSize..MaxWal
    BY DEF TypeOK
  <2>2. p # NoPart
    BY NameAssumption
  <2> QED BY <2>1, <2>2, SizeAssumption
<1>2. wal'[i] \in WalRecord
  <2>1. wal' \in Seq(WalRecord)
    BY DEF TypeOK
  <2> QED BY <1>1, <2>1
<1>3. wal'[i].lsn \in Nat
  BY <1>1, <1>2 DEF WalRecord, Other, Header
<1>4. wal'[i].lsn = 1 \/ \E j \in 1..i - 1 : wal'[j].part = p /\ wal'[j].lsn = wal'[i].lsn - 1
  BY <1>1 DEF DenseInv, Preceded, Alone
<1>5. CASE wal'[i].lsn = 1
  BY <1>5 DEF Log!Following
<1>6. ASSUME NEW j \in 1..i - 1, wal'[j].part = p, wal'[j].lsn = wal'[i].lsn - 1
      PROVE  wal'[i].lsn \in Log!Following(LsnsIn(wal', p, n))
  <2>1. wal'[j].lsn \in LsnsIn(wal', p, n)
    BY <1>6 DEF LsnsIn
  <2>2. wal'[i].lsn = wal'[j].lsn + 1
    BY <1>3, <1>6
  <2> QED BY <2>1, <2>2 DEF Log!Following
<1> QED BY <1>4, <1>5, <1>6

\* A step that leaves the headers in the WAL and the files alone.
LEMMA LogFlush ==
    ASSUME Alone, ControlInv, TypeOK', DenseInv', WalKept, parwal' = parwal, mode' = mode,
           \A p \in Partition : WalLsns(p, Len(wal))' = WalLsns(p, Len(wal))
    PROVE  Log!Flush \/ UNCHANGED Log!vars
<1>1. /\ Len(wal) \in Nat /\ flushed \in Nat /\ flushed <= Len(wal)
      /\ Len(wal') \in Nat /\ flushed' \in Nat /\ flushed' <= Len(wal')
  <2>1. TypeOK
    BY DEF ControlInv
  <2>2. Len(wal) \in SegSize..MaxWal /\ flushed \in SegSize..Len(wal)
    BY <2>1 DEF TypeOK
  <2>3. Len(wal') \in SegSize..MaxWal /\ flushed' \in SegSize..Len(wal')
    BY DEF TypeOK
  <2> QED BY <2>2, <2>3, SizeAssumption
<1>2. \A p \in Partition : FileLsns(p)' = FileLsns(p)
  BY DEF FileLsns
<1>3. ASSUME NEW p \in Partition
      PROVE  /\ WalLsns(p, flushed) \subseteq WalLsns(p, flushed)'
             /\ WalLsns(p, flushed)' \subseteq WalLsns(p, Len(wal))
             /\ Log!NoGaps(WalLsns(p, flushed)')
  <2>1. LsnsIn(wal, p, flushed) \subseteq LsnsIn(wal', p, flushed')
    BY <1>1 DEF LsnsIn, WalKept
  <2>2. LsnsIn(wal', p, flushed') \subseteq LsnsIn(wal', p, Len(wal'))
    BY <1>1 DEF LsnsIn
  <2>3. Log!NoGaps(LsnsIn(wal', p, flushed'))
    BY <1>1, NoGapsInWal
  <2> QED BY <2>1, <2>2, <2>3, LsnsAreThese
<1>4. CASE mode = "run"
  <2>1. Log!Keeps([p \in Partition |-> WalLsns(p, flushed)'])
    BY <1>3 DEF Log!Keeps
  <2> QED BY <1>2, <1>4, <2>1 DEF Log!Flush
<1>5. CASE mode = "recover"
  <2>1. flushed = Len(wal)
    BY <1>5 DEF ControlInv, RecoveryInv
  <2>2. \A p \in Partition : WalLsns(p, flushed)' = WalLsns(p, flushed)
    BY <1>3, <2>1
  <2> QED BY <1>2, <2>2 DEF Log!vars
<1> QED BY <1>4, <1>5 DEF ControlInv, TypeOK

\* A header is inserted.
LEMMA LogInsert ==
    ASSUME Alone, DenseSingleInv, DenseInv', TypeOK', NEW b \in Backend, XLogInsert(b)
    PROVE  (\E p \in Partition : Log!Insert(p)) \/ UNCHANGED Log!vars
<1> DEFINE p == bk[b].part
           l == bk[b].lsn
<1>1. ControlInv /\ TypeOK /\ Len(wal) \in Nat /\ flushed \in Nat /\ flushed <= Len(wal)
  <2>1. ControlInv /\ TypeOK
    BY DEF DenseSingleInv, SingleInv, HistoryInv, ControlInv
  <2>2. Len(wal) \in SegSize..MaxWal /\ flushed \in SegSize..Len(wal)
    BY <2>1 DEF TypeOK
  <2> QED BY <2>1, <2>2, SizeAssumption
<1>2. p \in Partition /\ mode = "run" /\ l \in Nat \ {0}
  <2>1. bk[b].pc = "insert" /\ bk[b] \in BackendState
    BY <1>1 DEF XLogInsert, TypeOK
  <2>2. p \in Partition /\ l >= 1 /\ l \in Nat
    BY <1>1, <2>1 DEF ControlInv, BackendInv, BackendOK, BackendState
  <2>3. mode = "run"
    BY <1>1, <2>1 DEF ControlInv, RecoveryInv, TypeOK
  <2> QED BY <2>2, <2>3
<1>3. /\ wal' = Append(wal, [part |-> p, lsn |-> l, orig |-> bk[b].ptr])
      /\ flushed' = flushed /\ mode' = mode /\ parwal' = parwal
  BY DEF XLogInsert
<1> HIDE DEF p, l
<1>4. /\ Len(wal') = Len(wal) + 1 /\ wal'[Len(wal) + 1].part = p /\ wal'[Len(wal) + 1].lsn = l
      /\ \A i \in 1..Len(wal) : wal'[i] = wal[i]
  BY <1>1, <1>3 DEF TypeOK
<1>5. \A q \in Partition : LsnsIn(wal', q, Len(wal'))
                              = IF q = p THEN LsnsIn(wal, q, Len(wal)) \cup {l}
                                ELSE LsnsIn(wal, q, Len(wal))
  BY <1>1, <1>4 DEF LsnsIn
<1>6. \A q \in Partition : LsnsIn(wal', q, flushed') = LsnsIn(wal, q, flushed)
  BY <1>1, <1>3, <1>4 DEF LsnsIn
<1>7. \A q \in Partition : FileLsns(q)' = FileLsns(q) /\ WalLsns(q, flushed)' = WalLsns(q, flushed)
  BY <1>3, <1>6, LsnsAreThese DEF FileLsns
<1>8. \A q \in Partition : WalLsns(q, Len(wal))' = IF q = p THEN WalLsns(q, Len(wal)) \cup {l}
                                                   ELSE WalLsns(q, Len(wal))
  BY <1>5, LsnsAreThese
<1>9. CASE l \in WalLsns(p, Len(wal))
  <2>1. \A q \in Partition : WalLsns(q, Len(wal))' = WalLsns(q, Len(wal))
    BY <1>8, <1>9
  <2> QED BY <1>3, <1>7, <2>1 DEF Log!vars
<1>10. CASE l \notin WalLsns(p, Len(wal))
  <2>1. Log!NoGaps(WalLsns(p, Len(wal)) \cup {l})
    <3>1. Len(wal') \in Nat
      BY <1>1, <1>4
    <3>2. Log!NoGaps(LsnsIn(wal', p, Len(wal')))
      BY <1>2, <3>1, NoGapsInWal
    <3> QED BY <1>2, <1>5, <3>2, LsnsAreThese
  <2>2. l \in Log!Following(WalLsns(p, Len(wal)))
    <3>1. l # l + 1
      BY <1>2
    <3> QED BY <2>1, <3>1 DEF Log!NoGaps, Log!Following
  <2>3. Log!Insert(p)
    BY <1>2, <1>3, <1>7, <1>8, <1>10, <2>2 DEF Log!Insert
  <2> QED BY <1>2, <2>3
<1> QED BY <1>9, <1>10

\* A header is appended to its file, by the demux or by redo.
LEMMA LogStore ==
    ASSUME Alone, DenseSingleInv, EarlierFirst', wal' = wal, flushed' = flushed, mode' = mode,
           NEW k \in 1..flushed, wal[k].part # NoPart, Written(k)
    PROVE  (\E p \in Partition : Log!Store(p)) \/ UNCHANGED Log!vars
<1> DEFINE r == wal[k]
           p == r.part
           f == FileSeg(r.orig)
<1>1. TypeOK /\ InOrder /\ DenseInv
  BY DEF DenseSingleInv, SingleInv, HistoryInv, ControlInv, SerialInv, InOrder, Alone
<1>2. flushed \in Nat /\ flushed <= Len(wal) /\ Len(wal) \in Nat /\ k \in 1..Len(wal)
  BY <1>1, SizeAssumption DEF TypeOK
<1>3. r \in Header /\ p \in Partition /\ r.lsn \in Nat \ {0} /\ f \in Segment
  BY <1>1, <1>2, NextRecordType
<1>4. parwal \in [Partition -> [Segment -> Seq(Header)]]
  BY <1>1 DEF TypeOK
<1>5. /\ parwal'[p][f] = Append(parwal[p][f], r)
      /\ \A q \in Partition, s \in Segment : q # p \/ s # f => parwal'[q][s] = parwal[q][s]
  BY <1>3, <1>4 DEF Written
<1> HIDE DEF r, p, f
<1>6. Range(parwal'[p][f]) = Range(parwal[p][f]) \cup {r}
  <2>1. parwal[p][f] \in Seq(Header)
    BY <1>3, <1>4
  <2>2. Range(Append(parwal[p][f], r)) = Range(parwal[p][f]) \cup {r}
    BY <1>3, <2>1, AppendFacts
  <2> QED BY <1>5, <2>2
<1>7. \A q \in Partition : LsnsOf(parwal'[q]) = IF q = p THEN LsnsOf(parwal[q]) \cup {r.lsn}
                                                ELSE LsnsOf(parwal[q])
  <2>1. LsnsOf(parwal'[p]) = LsnsOf(parwal[p]) \cup {r.lsn}
    <3>1. \A s \in Segment : Range(parwal'[p][s]) = Range(parwal[p][s]) \cup (IF s = f THEN {r} ELSE {})
      BY <1>3, <1>5, <1>6
    <3> QED BY <1>3, <3>1 DEF LsnsOf
  <2>2. ASSUME NEW q \in Partition, q # p PROVE LsnsOf(parwal'[q]) = LsnsOf(parwal[q])
    BY <1>5, <2>2 DEF LsnsOf
  <2> QED BY <2>1, <2>2
<1>8. \A q \in Partition : FileLsns(q)' = IF q = p THEN FileLsns(q) \cup {r.lsn} ELSE FileLsns(q)
  BY <1>7, LsnsAreThese
<1>9. \A q \in Partition : /\ WalLsns(q, flushed)' = WalLsns(q, flushed)
                           /\ WalLsns(q, Len(wal))' = WalLsns(q, Len(wal))
  BY DEF WalLsns
<1>10. CASE r.lsn \in FileLsns(p)
  <2>1. \A q \in Partition : FileLsns(q)' = FileLsns(q)
    BY <1>8, <1>10
  <2> QED BY <1>9, <2>1 DEF Log!vars
<1>11. CASE r.lsn \notin FileLsns(p)
  <2>1. r.lsn \in WalLsns(p, flushed)
    BY DEF WalLsns, r, p
  <2>2. r.lsn \in Log!Following(FileLsns(p))
    <3>1. CASE r.lsn = 1
      BY <3>1 DEF Log!Following
    <3>2. CASE r.lsn # 1
      <4>1. Preceded(wal[k].part, wal[k].lsn, k - 1)
        BY <1>1, <1>2 DEF DenseInv, Alone
      <4>2. PICK i \in 1..k - 1 : wal[i].part = p /\ wal[i].lsn = r.lsn - 1
        BY <3>2, <4>1 DEF Preceded, r, p
      <4>3. i \in 1..flushed /\ i \in 1..Len(wal) /\ i < k /\ SamePart(i, k) /\ wal[i].part # NoPart
        BY <1>2, <4>2 DEF SamePart, p, r
      <4>4. ~Overtaken(i)
        BY <1>1, <4>3, OrderFacts
      <4>5. OnDisk(wal[k])'
        BY <1>6 DEF OnDisk, r, p, f
      <4>6. OnDisk(wal[i])'
        <5>1. ~Overtaken(i)' /\ SamePart(i, k)'
          BY <4>3, <4>4 DEF Overtaken, SamePart
        <5> QED BY <4>3, <4>5, <5>1 DEF EarlierFirst
      <4>7. FileSeg(wal[i].orig) \in Segment
        BY <1>1, <4>3, NextRecordType
      <4>8. wal[i].lsn \in LsnsOf(parwal'[p])
        BY <4>2, <4>6, <4>7 DEF OnDisk, LsnsOf
      <4>9. wal[i].lsn \in FileLsns(p)
        <5>1. wal[i].lsn # r.lsn
          BY <1>3, <4>2
        <5>2. wal[i].lsn \in LsnsOf(parwal[p])
          BY <1>3, <1>7, <4>8, <5>1
        <5> QED BY <1>3, <5>2, LsnsAreThese
      <4>10. r.lsn = wal[i].lsn + 1
        BY <1>3, <4>2
      <4> QED BY <4>9, <4>10 DEF Log!Following
    <3> QED BY <3>1, <3>2
  <2>3. Log!Store(p)
    <3> DEFINE F == [q \in Partition |-> FileLsns(q)]
    <3>1. [q \in Partition |-> FileLsns(q)'] = [F EXCEPT ![p] = @ \cup {r.lsn}]
      BY <1>3, <1>8
    <3>2. F[p] = FileLsns(p) /\ [q \in Partition |-> WalLsns(q, flushed)][p] = WalLsns(p, flushed)
      BY <1>3
    <3>3. r.lsn \in (Log!Following(F[p]) \cap [q \in Partition |-> WalLsns(q, flushed)][p]) \ F[p]
      BY <1>11, <2>1, <2>2, <3>2
    <3> QED BY <1>9, <3>1, <3>3 DEF Log!Store
  <2> QED BY <1>3, <2>3
<1> QED BY <1>10, <1>11

LEMMA LogCrash ==
    ASSUME Alone, TypeOK, TypeOK', DenseInv', NEW end \in 1..MaxWal, Crash(end)
    PROVE  Log!Crash
<1>1. flushed \in Nat /\ flushed <= Len(wal) /\ Len(wal) \in Nat
  <2>1. Len(wal) \in SegSize..MaxWal /\ flushed \in SegSize..Len(wal)
    BY DEF TypeOK
  <2> QED BY <2>1, SizeAssumption
<1>2. /\ end \in flushed..Len(wal) /\ wal' = SubSeq(wal, 1, end) /\ flushed' = end
      /\ mode' = "recover" /\ parwal' = parwal
  BY DEF Crash, LoseMemory
<1>3. Len(wal') = end /\ \A i \in 1..end : wal'[i] = wal[i]
  BY <1>2, TruncatedWal
<1>4. ASSUME NEW p \in Partition
      PROVE  /\ WalLsns(p, flushed) \subseteq WalLsns(p, Len(wal))'
             /\ WalLsns(p, Len(wal))' \subseteq WalLsns(p, Len(wal))
             /\ Log!NoGaps(WalLsns(p, Len(wal))')
             /\ WalLsns(p, flushed)' = WalLsns(p, Len(wal))'
             /\ FileLsns(p)' = FileLsns(p)
  <2>1. /\ LsnsIn(wal, p, flushed) \subseteq LsnsIn(wal', p, end)
        /\ LsnsIn(wal', p, end) \subseteq LsnsIn(wal, p, Len(wal))
    BY <1>1, <1>2, <1>3 DEF LsnsIn
  <2>2. end \in Nat /\ end <= Len(wal')
    BY <1>1, <1>2, <1>3
  <2>3. Log!NoGaps(LsnsIn(wal', p, end))
    BY <2>2, NoGapsInWal
  <2>4. FileLsns(p)' = FileLsns(p)
    BY <1>2 DEF FileLsns
  <2> QED BY <1>2, <1>3, <2>1, <2>3, <2>4, LsnsAreThese
<1>5. Log!Keeps([p \in Partition |-> WalLsns(p, Len(wal))'])
  BY <1>4 DEF Log!Keeps
<1> QED BY <1>2, <1>4, <1>5 DEF Log!Crash

\* When recovery ends the files hold the headers of the WAL and no others.
LEMMA LogRecovered ==
    ASSUME Alone, DenseSingleInv, EndRecovery
    PROVE  Log!Recovered
<1>1. TypeOK /\ InOrder /\ Provenance /\ (mode = "recover" => RestoredUpTo(replayed))
  BY DEF DenseSingleInv, SingleInv, HistoryInv, ControlInv, DiskInv, SerialInv, InOrder,
         RestoreInv, Alone
<1>2. flushed \in Nat /\ flushed <= Len(wal) /\ Len(wal) \in Nat
  BY <1>1, SizeAssumption DEF TypeOK
<1>3. /\ mode = "recover" /\ replayed = Len(wal) /\ mode' = "run"
      /\ wal' = wal /\ flushed' = flushed /\ parwal' = parwal
  BY DEF EndRecovery
<1>4. ASSUME NEW p \in Partition PROVE LsnsOf(parwal[p]) = LsnsIn(wal, p, Len(wal))
  <2>1. ASSUME NEW l \in LsnsOf(parwal[p]) PROVE l \in LsnsIn(wal, p, Len(wal))
    <3>1. PICK s \in Segment : \E h \in Range(parwal[p][s]) : h.lsn = l
      BY <2>1 DEF LsnsOf
    <3>2. PICK h \in Range(parwal[p][s]) : h.lsn = l
      BY <3>1
    <3>3. parwal[p][s] \in Seq(Header)
      BY <1>1 DEF TypeOK
    <3>4. PICK n \in 1..Len(parwal[p][s]) : parwal[p][s][n] = h
      BY <3>2, <3>3, RangeFacts
    <3>5. PICK i \in 1..flushed : wal[i] = parwal[p][s][n] /\ wal[i].part = p
      BY <1>1, <3>4 DEF Provenance
    <3>6. i \in 1..Len(wal)
      BY <1>2
    <3> QED BY <3>2, <3>4, <3>5, <3>6 DEF LsnsIn
  <2>2. ASSUME NEW l \in LsnsIn(wal, p, Len(wal)) PROVE l \in LsnsOf(parwal[p])
    <3>1. PICK i \in 1..Len(wal) : wal[i].part = p /\ wal[i].lsn = l
      BY <2>2 DEF LsnsIn
    <3>2. wal[i].part # NoPart
      BY <3>1, NameAssumption
    <3>3. OnDisk(wal[i])
      BY <1>1, <1>3, <3>2, OrderFacts DEF RestoredUpTo
    <3>4. FileSeg(wal[i].orig) \in Segment
      BY <1>1, <3>2, NextRecordType
    <3> QED BY <3>1, <3>3, <3>4 DEF OnDisk, LsnsOf
  <2> QED BY <2>1, <2>2
<1>5. \A p \in Partition : FileLsns(p) = WalLsns(p, Len(wal))
  BY <1>4, LsnsAreThese
<1>6. \A p \in Partition : /\ WalLsns(p, flushed)' = WalLsns(p, flushed)
                           /\ WalLsns(p, Len(wal))' = WalLsns(p, Len(wal))
                           /\ FileLsns(p)' = FileLsns(p)
  BY <1>3 DEF WalLsns, FileLsns
<1> QED BY <1>3, <1>5, <1>6 DEF Log!Recovered

LEMMA LogBackend ==
    ASSUME Alone, DenseSingleInv, DenseSingleInv', NEW b \in Backend, BackendStep(b)
    PROVE  [Log!Next]_(Log!vars)
<1>1. /\ ControlInv /\ RoutedInv /\ ControlInv' /\ TypeOK' /\ DenseInv'
  BY DEF DenseSingleInv, SingleInv, HistoryInv, ControlInv
<1>2. Moved(b) /\ WalKept
  BY <1>1, BackendMoved, BackendKeeps
<1>3. parwal' = parwal /\ mode' = mode
  <2>1. NoRemoval /\ NothingUnlinked
    BY <1>1 DEF Alone, NothingSkipped, NoRemoval, RoutedInv
  <2> QED BY <1>1, <1>2, <2>1, NoRemovalBackend DEF Moved
<1>4. CASE XLogInsert(b)
  BY <1>1, <1>4, LogInsert DEF Log!Next
<1>5. CASE ~XLogInsert(b)
  <2>1. \A p \in Partition : LsnsIn(wal', p, Len(wal')) = LsnsIn(wal, p, Len(wal))
    <3>1. CASE wal' = wal
      BY <3>1
    <3>2. CASE wal' = Append(wal, Other)
      <4>1. wal \in Seq(WalRecord) /\ Len(wal) \in Nat
        BY <1>1 DEF ControlInv, TypeOK
      <4>2. /\ Len(wal') = Len(wal) + 1 /\ wal'[Len(wal) + 1] = Other
            /\ \A i \in 1..Len(wal) : wal'[i] = wal[i]
        BY <3>2, <4>1
      <4>3. \A p \in Partition : Other.part # p
        BY NameAssumption DEF Other
      <4> QED BY <4>1, <4>2, <4>3 DEF LsnsIn
    <3> QED BY <1>2, <1>5, <3>1, <3>2 DEF Moved
  <2>2. \A p \in Partition : WalLsns(p, Len(wal))' = WalLsns(p, Len(wal))
    BY <2>1, LsnsAreThese
  <2> QED BY <1>1, <1>2, <1>3, <2>2, LogFlush DEF Log!Next
<1> QED BY <1>4, <1>5

LEMMA LogDemux ==
    ASSUME Alone, DenseSingleInv, DenseSingleInv', DemuxStart \/ DemuxLoop \/ DemuxStop
    PROVE  [Log!Next]_(Log!vars)
<1>1. /\ ControlInv /\ TypeOK /\ RoutedInv /\ RestartControl /\ TypeOK' /\ DenseInv' /\ EarlierFirst'
  BY DEF DenseSingleInv, SingleInv, HistoryInv, ControlInv, RestoreInv, Alone
<1>2. /\ wal' = wal /\ flushed' = flushed /\ mode' = mode
  BY DEF DemuxStart, DemuxLoop, DemuxStop, DemuxCaughtUp, DemuxSegmentGone, DemuxOther,
         DemuxNoWriter, DemuxDuplicate, DemuxWrite, DemuxPublish, walVars
<1>3. /\ flushed \in Nat /\ endRecPtr \in Nat
  BY <1>1, SizeAssumption DEF TypeOK
<1>4. CASE ~DemuxWrite
  <2>1. parwal' = parwal
    BY <1>4 DEF DemuxStart, DemuxLoop, DemuxStop, DemuxCaughtUp, DemuxSegmentGone, DemuxOther,
                DemuxNoWriter, DemuxDuplicate, DemuxPublish
  <2>2. WalKept
    BY <1>2, <1>3 DEF WalKept
  <2>3. \A p \in Partition : WalLsns(p, Len(wal))' = WalLsns(p, Len(wal))
    BY <1>2 DEF WalLsns
  <2> QED BY <1>1, <1>2, <2>1, <2>2, <2>3, LogFlush DEF Log!Next
<1>5. CASE DemuxWrite
  <2>1. PICK k \in 1..flushed : wal[k].part # NoPart /\ Written(k)
    BY <1>1, <1>5, DemuxWrites DEF Alone
  <2> QED BY <1>1, <1>2, <2>1, LogStore DEF Log!Next
<1> QED BY <1>4, <1>5

LEMMA LogServer ==
    ASSUME Alone, DenseSingleInv, DenseSingleInv', ServerStep
    PROVE  [Log!Next]_(Log!vars)
<1>1. /\ ControlInv /\ TypeOK /\ RestartControl /\ TypeOK' /\ DenseInv' /\ EarlierFirst'
  BY DEF DenseSingleInv, SingleInv, HistoryInv, ControlInv, RestoreInv, Alone
<1>2. Len(wal) \in Nat /\ flushed \in Nat /\ flushed <= Len(wal) /\ replayed \in Nat
  <2>1. Len(wal) \in SegSize..MaxWal /\ flushed \in SegSize..Len(wal) /\ replayed \in 0..Len(wal)
    BY <1>1 DEF TypeOK
  <2> QED BY <2>1, SizeAssumption
<1>3. CASE WalWriterFlush
  <2>1. /\ wal' = wal /\ flushed' = flushed + 1 /\ mode' = mode /\ parwal' = parwal
    BY <1>3 DEF WalWriterFlush
  <2>2. WalKept
    BY <1>2, <2>1 DEF WalKept
  <2>3. \A p \in Partition : WalLsns(p, Len(wal))' = WalLsns(p, Len(wal))
    BY <2>1 DEF WalLsns
  <2> QED BY <1>1, <2>1, <2>2, <2>3, LogFlush DEF Log!Next
<1>4. ~Checkpoint /\ ~CleanRestart
  BY <1>1 DEF Checkpoint, CleanRestart, Alone, NothingSkipped, RestartControl
<1>5. ASSUME NEW end \in 1..MaxWal, Crash(end) PROVE Log!Crash
  BY <1>1, <1>5, LogCrash
<1>6. CASE PartdistRedo
  <2> DEFINE r == wal[replayed + 1]
  <2>1. /\ mode = "recover" /\ replayed < Len(wal)
        /\ parwal' = IF r.part = NoPart \/ RedoAlreadyWritten(r) THEN parwal ELSE WriteHeaderToFile(r)
        /\ wal' = wal /\ flushed' = flushed /\ mode' = mode
    BY <1>6 DEF PartdistRedo
  <2>2. flushed = Len(wal)
    BY <1>1, <2>1 DEF ControlInv, RecoveryInv
  <2>3. CASE r.part = NoPart \/ RedoAlreadyWritten(r)
    <3>1. parwal' = parwal
      BY <2>1, <2>3
    <3>2. WalKept
      BY <1>2, <2>1 DEF WalKept
    <3>3. \A p \in Partition : WalLsns(p, Len(wal))' = WalLsns(p, Len(wal))
      BY <2>1 DEF WalLsns
    <3> QED BY <1>1, <2>1, <3>1, <3>2, <3>3, LogFlush DEF Log!Next
  <2>4. CASE ~(r.part = NoPart \/ RedoAlreadyWritten(r))
    <3>1. PICK k \in 1..flushed : k = replayed + 1
      BY <1>2, <2>1, <2>2
    <3>2. wal[k].part # NoPart /\ Written(k)
      BY <2>1, <2>4, <3>1 DEF Written, WriteHeaderToFile
    <3> QED BY <1>1, <2>1, <3>2, LogStore DEF Log!Next
  <2> QED BY <2>3, <2>4
<1>7. CASE EndRecovery
  BY <1>7, LogRecovered DEF Log!Next
<1> QED BY <1>3, <1>4, <1>5, <1>6, <1>7 DEF ServerStep, Log!Next

LEMMA LogInit == Init => Log!Init
<1> SUFFICES ASSUME Init PROVE Log!Init
  OBVIOUS
<1>1. SegSize \in Nat /\ Len(wal) = SegSize /\ \A i \in 1..SegSize : wal[i] = Other
  BY SizeAssumption DEF Init
<1>2. flushed = SegSize /\ mode = "run" /\ \A p \in Partition, s \in Segment : parwal[p][s] = <<>>
  BY DEF Init, NoFiles
<1>3. \A p \in Partition : Other.part # p
  BY NameAssumption DEF Other
<1>4. ASSUME NEW p \in Partition
      PROVE  WalLsns(p, Len(wal)) = {} /\ WalLsns(p, flushed) = {} /\ FileLsns(p) = {}
  <2>1. WalLsns(p, SegSize) = {}
    BY <1>1, <1>3 DEF WalLsns
  <2>2. Range(<<>>) = {}
    BY EmptyFacts
  <2>3. FileLsns(p) = {}
    BY <1>2, <2>2 DEF FileLsns
  <2> QED BY <1>1, <1>2, <2>1, <2>3
<1> QED BY <1>2, <1>4 DEF Log!Init

\* With one client at a time that uses every LSN it allocates, backends, demux
\* and recovery together implement PartitionLog, for any number of partitions,
\* records and crashes.
THEOREM ImplementsLog ==
    ASSUME OneClient, NothingSkipped, "alloc" \notin Env
    PROVE  Spec => ImplementsPartitionLog
<1>1. Init => Log!Init
  BY LogInit
<1>2. DenseSingleInv /\ DenseSingleInv' /\ [Next]_vars => [Log!Next]_(Log!vars)
  <2> SUFFICES ASSUME DenseSingleInv, DenseSingleInv', [Next]_vars PROVE [Log!Next]_(Log!vars)
    OBVIOUS
  <2>1. Alone
    BY DEF Alone
  <2>2. CASE \E b \in Backend : BackendStep(b)
    BY <2>1, <2>2, LogBackend
  <2>3. CASE DemuxStart \/ DemuxLoop \/ DemuxStop
    BY <2>1, <2>3, LogDemux
  <2>4. CASE ServerStep
    BY <2>1, <2>4, LogServer
  <2>5. CASE UNCHANGED vars
    BY <2>5 DEF vars, Log!vars, WalLsns, FileLsns
  <2> QED BY <2>2, <2>3, <2>4, <2>5 DEF Next
<1> QED BY <1>1, <1>2, DenseSingleAlways, PTL DEF Spec, ImplementsPartitionLog, Log!Spec
=============================================================================

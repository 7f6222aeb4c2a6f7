-------------------------- MODULE ParwalScanProofs --------------------------
(***************************************************************************)
(* Proofs about the readers of a partition directory, for any number of    *)
(* files and records.  ScanInv needs no assumption; WalkInv needs room for *)
(* the names of all files in the array of a reader, MaxSeg <= MaxFiles.    *)
(***************************************************************************)
EXTENDS ParwalScan, BasicLemmas, FiniteSetTheorems

\* Every record is in some file of the directory.
LEMMA OnDiskFacts ==
    /\ \A l : l \in OnDisk <=> \E s \in exists : l \in Range(recs[s])
    /\ \A l : l \in OnDisk' <=> \E s \in exists' : l \in Range(recs'[s])
BY DEF OnDisk

\* The records of a file are numbers from 1, and it has none when it is empty.
LEMMA FileFacts ==
    ASSUME NEW f \in [Segment -> Seq(Record)]
    PROVE  \A s \in Segment :
              /\ f[s] \in Seq(Record) /\ Len(f[s]) \in Nat
              /\ \A l \in Range(f[s]) : l \in Record /\ l \in Nat /\ l > 0
              /\ \A i \in 1..Len(f[s]) : f[s][i] \in Range(f[s])
              /\ \A l \in Range(f[s]) : \E i \in 1..Len(f[s]) : f[s][i] = l
              /\ f[s] = <<>> <=> Range(f[s]) = {}
<1> TAKE s \in Segment
<1>1. f[s] \in Seq(Record)
  OBVIOUS
<1>2. /\ Len(f[s]) \in Nat
      /\ \A x : x \in Range(f[s]) <=> \E i \in 1..Len(f[s]) : f[s][i] = x
      /\ f[s] = <<>> <=> Len(f[s]) = 0
      /\ Range(f[s]) \in SUBSET Record
  BY <1>1, RangeFacts
<1>3. \A l \in Record : l \in Nat /\ l > 0
  BY ScanAssumption DEF ScanAssumption, Record
<1>4. Range(f[s]) = {} <=> f[s] = <<>>
  <2>1. ASSUME f[s] # <<>> PROVE f[s][1] \in Range(f[s])
    <3>1. 1 \in 1..Len(f[s])
      BY <1>2, <2>1
    <3> QED BY <1>2, <3>1
  <2>2. f[s] = <<>> => Range(f[s]) = {}
    BY EmptyFacts
  <2> QED BY <2>1, <2>2
<1> QED BY <1>1, <1>2, <1>3, <1>4

\* The segments are numbers.
LEMMA SegmentFacts ==
    ASSUME TypeOK
    PROVE  /\ \A s \in Segment : s \in Int /\ s \in Nat /\ s > 0
           /\ cur \in Int /\ next \in Int /\ next >= 1 /\ MaxSeg \in Int /\ MaxRec \in Int
           /\ exists \subseteq Segment /\ rd.base \subseteq Segment
           /\ rd.todo \subseteq Segment /\ rd.seen \subseteq Segment
           /\ rd.atCall \subseteq Record /\ rd.nextAtCall \in Nat
           /\ rd.out \in Seq(Record) /\ rd.total \in Nat
           /\ \A l \in rd.atCall : l \in Nat /\ l > 0
BY ScanAssumption DEF ScanAssumption, TypeOK, ReaderState, Segment, Record

\* The highest record of the call is one of its records, if it has any.
LEMMA HighestFacts ==
    ASSUME TypeOK
    PROVE  Highest \in {0} \cup rd.atCall /\ \A l \in rd.atCall : l <= Highest
<1>1. {0} \cup rd.atCall \in SUBSET (0..MaxRec) /\ MaxRec \in Nat
  BY ScanAssumption DEF ScanAssumption, TypeOK, ReaderState, Record
<1>2. {0} \cup rd.atCall # {}
  OBVIOUS
<1> QED BY <1>1, <1>2, MaxFacts DEF Highest
-----------------------------------------------------------------------------
(* The directory changes under the reader *)

\* What the demux and the clean-up may do while a reader walks: records are added
\* to the current file only, and no files below it.
Grown ==
    /\ rd' = rd /\ next <= next' /\ cur <= cur'
    /\ \A s \in exists' : s \in exists \/ cur <= s
    /\ \A s \in Segment : \A l \in Range(recs'[s]) :
          l \in Range(recs[s]) \/ (s = cur /\ l = next /\ next < next')
    /\ NothingRemoved' =>
          /\ NothingRemoved
          /\ \A s \in exists : recs[s] # <<>> => s \in exists' /\ recs'[s] # <<>>

\* A record from before the call is where it was.
LEMMA OldRecord ==
    ASSUME TypeOK, TypeOK', DirOrdered, Grown, NEW s \in Segment, NEW l \in Range(recs'[s])
    PROVE  /\ l \in Nat /\ l > 0
           /\ l < next => l \in Range(recs[s]) /\ s \in exists /\ l \in OnDisk
           /\ l >= next => s = cur /\ l = next
           /\ l \in Range(recs[s]) => s \in exists /\ l \in OnDisk /\ l < next
<1>1. l \in Nat /\ l > 0
  BY FileFacts DEF TypeOK
<1>2. l \in Range(recs[s]) => s \in exists
  BY FileFacts DEF TypeOK, DirOrdered
<1>3. l \in Range(recs[s]) => l < next
  BY DEF DirOrdered
<1>4. l \in Range(recs[s]) \/ (s = cur /\ l = next)
  BY DEF Grown
<1>5. next \in Int
  BY SegmentFacts
<1> QED BY <1>1, <1>2, <1>3, <1>4, <1>5, OnDiskFacts

\* The reader's view of the call survives.
LEMMA GrownSince ==
    ASSUME ScanInv, ~rd.anew, Grown, TypeOK'
    PROVE  SinceCall'
<1> SUFFICES ASSUME rd.pc # "idle" PROVE SinceCall'
  BY DEF SinceCall, Grown
<1> USE DEF ScanInv
<1>1. rd' = rd
  BY DEF Grown
<1>2. /\ rd.nextAtCall <= next
      /\ \A l \in rd.atCall : l < rd.nextAtCall
      /\ \A l \in OnDisk : l < rd.nextAtCall => l \in rd.atCall
      /\ \A s \in exists : \A l \in Range(recs[s]) : l \in rd.atCall => s \in rd.base
      /\ \A s \in rd.base : s <= cur /\ \A t \in exists \ rd.base : s < t
  BY DEF SinceCall
<1>3. next \in Int /\ next' \in Int /\ next <= next' /\ rd.nextAtCall \in Int
      /\ cur \in Int /\ cur' \in Int /\ cur <= cur'
  BY SegmentFacts DEF Grown, TypeOK
<1>4. rd.nextAtCall <= next'
  BY <1>2, <1>3
<1>5. \A s \in exists' : s \in Segment
  BY DEF TypeOK
<1>6. ASSUME NEW l \in OnDisk', l < rd.nextAtCall PROVE l \in rd.atCall
  <2>1. PICK s \in exists' : l \in Range(recs'[s])
    BY OnDiskFacts
  <2>2. l \in OnDisk
    BY <1>2, <1>3, <1>5, <1>6, <2>1, OldRecord
  <2> QED BY <1>2, <1>6, <2>2
<1>7. ASSUME NEW s \in exists', NEW l \in Range(recs'[s]), l \in rd.atCall PROVE s \in rd.base
  <2>1. l < next /\ l \in Nat
    BY <1>2, <1>3, <1>7, SegmentFacts
  <2>2. l \in Range(recs[s]) /\ s \in exists
    BY <1>5, <2>1, OldRecord
  <2> QED BY <1>2, <1>7, <2>2
<1>8. ASSUME NEW s \in rd.base PROVE s <= cur' /\ \A t \in exists' \ rd.base : s < t
  <2>1. s \in Int /\ s <= cur
    BY <1>2, SegmentFacts
  <2>2. \A t \in exists' : t \in Int
    BY <1>5, SegmentFacts
  <2>3. \A t \in exists' \ rd.base : s < t
    <3> SUFFICES ASSUME NEW t \in exists' \ rd.base PROVE s < t
      OBVIOUS
    <3>1. t \in exists => s < t
      BY <1>2
    <3>2. t \in exists \/ cur <= t
      BY DEF Grown
    <3> QED BY <1>3, <2>1, <2>2, <3>1, <3>2
  <2> QED BY <1>3, <2>1, <2>3
<1> QED BY <1>1, <1>2, <1>4, <1>6, <1>7, <1>8 DEF SinceCall

\* The records of the call that are on disk now were there before the step.
LEMMA GrownOnDisk ==
    ASSUME ScanInv, ~rd.anew, Grown, TypeOK', rd.pc # "idle"
    PROVE  /\ rd.atCall \cap OnDisk' \subseteq OnDisk
           /\ \A s \in exists' : \A l \in Range(recs'[s]) :
                 l \in rd.atCall => s \in exists /\ l \in Range(recs[s])
<1>1. \A l \in rd.atCall : l < next
  BY SegmentFacts DEF ScanInv, SinceCall
<1>2. exists' \subseteq Segment
  BY DEF TypeOK
<1>3. ASSUME NEW s \in exists', NEW l \in Range(recs'[s]), l \in rd.atCall
      PROVE  s \in exists /\ l \in Range(recs[s]) /\ l \in OnDisk
  BY <1>1, <1>2, <1>3, OldRecord DEF ScanInv
<1> QED BY <1>3, OnDiskFacts

\* The count survives.
LEMMA GrownCount ==
    ASSUME ScanInv, ~rd.anew, Grown, TypeOK'
    PROVE  CountWalk'
<1>1. rd' = rd
  BY DEF Grown
<1> SUFFICES ASSUME rd.op = "count", rd.pc # "idle"
             PROVE  \E S \in SUBSET Record : Counted(S)'
  BY <1>1 DEF CountWalk, ScanInv
<1>2. PICK S \in SUBSET Record : Counted(S)
  BY DEF ScanInv, CountWalk
<1>3. /\ rd.nextAtCall \in Int /\ next \in Int /\ next' \in Int /\ next <= next'
      /\ rd.nextAtCall <= next
      /\ \A l \in rd.atCall : l \in Int /\ l < rd.nextAtCall
  BY SegmentFacts DEF ScanInv, SinceCall, Grown, TypeOK
<1>4. \A l \in S : l < next
  BY <1>2, <1>3 DEF Counted
<1>5. S \subseteq rd.atCall \cup (rd.nextAtCall..next' - 1)
  BY <1>2, <1>3 DEF Counted
<1>6. exists' \subseteq Segment
  BY DEF TypeOK
<1>7. \A s \in exists' \cap rd.seen : Range(recs'[s]) \cap rd.atCall \subseteq S
  BY <1>2, GrownOnDisk DEF Counted
<1>8. ASSUME NEW s \in exists' \ rd.seen, NEW l \in Range(recs'[s]), l \in S PROVE FALSE
  <2>1. l < next
    BY <1>4, <1>8
  <2>2. l \in Range(recs[s]) /\ s \in exists
    BY <1>6, <2>1, OldRecord DEF ScanInv
  <2> QED BY <1>2, <1>8, <2>2 DEF Counted
<1>9. rd.pc = "done" => rd.atCall \cap OnDisk' \subseteq S
  BY <1>2, GrownOnDisk DEF Counted
<1>10. Counted(S)'
  BY <1>1, <1>2, <1>5, <1>7, <1>8, <1>9 DEF Counted
<1> QED BY <1>10

\* The walks survive.
LEMMA GrownWalk ==
    ASSUME ScanInv, WalkInv, Grown, TypeOK'
    PROVE  WalkInv'
<1>1. rd' = rd
  BY DEF Grown
<1>2. /\ next \in Int /\ next' \in Int /\ next <= next'
      /\ cur \in Int /\ cur' \in Int /\ cur <= cur'
  BY SegmentFacts DEF ScanInv, Grown, TypeOK
<1>3. exists' \subseteq Segment /\ rd.todo \subseteq Segment /\ rd.out \in Seq(Record)
  BY SegmentFacts DEF ScanInv, TypeOK
<1>4. TodoBegun'
  BY <1>1, <1>2, <1>3, SegmentFacts DEF ScanInv, WalkInv, TodoBegun
<1> SUFFICES ASSUME ~rd.anew PROVE LastWalk' /\ ReadAscends' /\ DumpWalk' /\ VerifyWalk'
  BY <1>1, <1>4 DEF WalkInv
<1>5. Highest' = Highest
  BY <1>1 DEF Highest
<1>6. ASSUME rd.pc # "idle", NEW s \in exists', Highest \in Range(recs'[s])
      PROVE  s \in exists /\ Highest \in Range(recs[s]) /\ Highest \in OnDisk
  <2>1. recs' \in [Segment -> Seq(Record)] /\ s \in Segment
    BY <1>3 DEF TypeOK
  <2>2. Highest > 0
    BY <1>6, <2>1, FileFacts
  <2>3. Highest \in rd.atCall
    BY <2>2, HighestFacts DEF ScanInv
  <2> QED BY <1>6, <2>3, GrownOnDisk, OnDiskFacts
<1>7. \A i \in 1..Len(rd.out) : rd.out[i] \in Int
  <2>1. \A i \in 1..Len(rd.out) : rd.out[i] \in Record
    BY <1>3, RangeFacts
  <2> QED BY <2>1 DEF Record
<1>8. LastWalk'
  <2> SUFFICES ASSUME rd.op = "last" PROVE LastWalk'
    BY <1>1 DEF LastWalk
  <2>1. rd.pc \in {"list", "read"} => rd.out = <<>>
    BY DEF WalkInv, LastWalk
  <2>2. rd.pc = "read" => \A s \in exists' : Highest \in Range(recs'[s]) => s \in rd.todo
    BY <1>6 DEF WalkInv, LastWalk
  <2>3. ASSUME rd.pc = "done"
        PROVE  /\ Highest \in OnDisk' => rd.out # <<>> /\ Highest <= rd.out[1]
               /\ rd.out # <<>> => rd.out[1] < next'
    <3>1. Highest \in OnDisk' => Highest \in OnDisk
      BY <1>6, <2>3, OnDiskFacts
    <3>2. rd.out # <<>> => rd.out[1] \in Int
      <4>1. rd.out # <<>> => 1 \in 1..Len(rd.out)
        BY <1>3, RangeFacts
      <4> QED BY <1>7, <4>1
    <3> QED BY <1>2, <2>3, <3>1, <3>2 DEF WalkInv, LastWalk
  <2> QED BY <1>1, <1>5, <2>1, <2>2, <2>3 DEF LastWalk
<1>9. ReadAscends'
  <2> SUFFICES ASSUME rd.op \in {"verify", "dump"} PROVE ReadAscends'
    BY <1>1 DEF ReadAscends
  <2>1. /\ rd.pc = "list" => rd.out = <<>>
        /\ \A i, j \in 1..Len(rd.out) : i < j => rd.out[i] < rd.out[j]
    BY DEF WalkInv, ReadAscends
  <2>2. \A i \in 1..Len(rd.out) : rd.out[i] < next
    BY DEF WalkInv, ReadAscends
  <2>3. ASSUME rd.pc = "read", NEW s \in rd.todo, NEW i \in 1..Len(rd.out),
               NEW l \in Range(recs'[s])
        PROVE  rd.out[i] < l
    <3>1. l \in Range(recs[s]) \/ l = next
      BY <1>3 DEF Grown
    <3>2. l \in Range(recs[s]) => rd.out[i] < l
      BY <2>3 DEF WalkInv, ReadAscends
    <3> QED BY <2>2, <3>1, <3>2
  <2>4. \A i \in 1..Len(rd.out) : rd.out[i] < next'
    BY <1>2, <1>7, <2>2
  <2> QED BY <1>1, <2>1, <2>3, <2>4 DEF ReadAscends
<1>10. DumpWalk'
  <2> SUFFICES ASSUME rd.op = "dump" PROVE DumpWalk'
    BY <1>1 DEF DumpWalk
  <2>1. ASSUME rd.pc = "read", NEW s \in exists', NEW l \in Range(recs'[s]), l \in rd.atCall
        PROVE  s \in rd.todo \/ l \in Range(rd.out)
    BY <2>1, GrownOnDisk DEF WalkInv, DumpWalk
  <2>2. rd.pc = "done" => rd.atCall \cap OnDisk' \subseteq Range(rd.out)
    BY GrownOnDisk DEF WalkInv, DumpWalk
  <2> QED BY <1>1, <2>1, <2>2 DEF DumpWalk
<1>11. VerifyWalk'
  <2> SUFFICES ASSUME rd.op = "verify", rd.pc \in {"read", "done"}, NothingRemoved',
                      OneNewFile'
               PROVE  VerifyWalk'
    BY <1>1 DEF VerifyWalk
  <2>1. NothingRemoved
    BY DEF Grown
  <2>2. OneNewFile
    BY <1>1 DEF OneNewFile, Grown
  <2>3. \A i \in 1..Len(rd.out) : rd.out[i] = i
    BY <2>1, <2>2 DEF WalkInv, VerifyWalk
  <2>4. ASSUME rd.pc = "read", NEW s \in exists', NEW l \in Range(recs'[s]), Len(rd.out) < l
        PROVE  s \in rd.todo \/ \A t \in rd.todo : t < s \/ (t \notin rd.base /\ s \notin rd.base)
    <3>1. CASE l \in Range(recs[s])
      <4>1. s \in exists
        BY <1>3, <3>1, OldRecord DEF ScanInv
      <4> QED BY <2>1, <2>2, <2>4, <3>1, <4>1 DEF WalkInv, VerifyWalk
    <3>2. CASE s = cur
      <4>1. \A t \in rd.todo : t <= cur /\ t \in Int
        BY <1>3, SegmentFacts DEF ScanInv, WalkInv, TodoBegun
      <4> QED BY <1>2, <3>2, <4>1
    <3> QED BY <1>3, <3>1, <3>2 DEF Grown
  <2> QED BY <1>1, <2>3, <2>4 DEF VerifyWalk
<1> QED BY <1>8, <1>9, <1>10, <1>11
-----------------------------------------------------------------------------
(* The steps of the demux and of the clean-up *)

\* The demux creates a file above the others, or the current one again.
LEMMA OpenSegmentStep ==
    ASSUME TypeOK, DirOrdered, NEW s \in Segment, OpenWriterSegment(s)
    PROVE  TypeOK' /\ DirOrdered' /\ Grown
<1>1. /\ s \notin exists /\ s \in {cur, cur + 1} /\ cur' = s /\ exists' = exists \cup {s}
      /\ recs' = recs /\ torn' = torn /\ next' = next /\ rd' = rd
  BY DEF OpenWriterSegment
<1>2. cur \in 0..MaxSeg /\ MaxSeg \in Nat /\ s \in 1..MaxSeg
  BY ScanAssumption DEF TypeOK, ScanAssumption, Segment
<1>3. TypeOK'
  <2>1. exists' \in SUBSET Segment /\ torn' \in SUBSET exists'
    BY <1>1 DEF TypeOK
  <2>2. cur' \in 0..MaxSeg
    BY <1>1, <1>2
  <2> QED BY <1>1, <2>1, <2>2 DEF TypeOK
<1>4. \A t \in exists : t <= cur /\ t \in Int
  BY SegmentFacts DEF DirOrdered
<1>5. recs[s] = <<>>
  BY <1>1 DEF DirOrdered
<1>6. \A t \in exists' : t <= cur'
  BY <1>1, <1>2, <1>4
<1>7. DirOrdered'
  BY <1>1, <1>5, <1>6 DEF DirOrdered
<1>8. Grown
  <2>1. \A t \in exists' : t \in exists \/ cur <= t
    BY <1>1, <1>2
  <2>2. next <= next' /\ cur <= cur'
    BY <1>1, <1>2, SegmentFacts
  <2>3. \A l : l \in OnDisk' => l \in OnDisk
    <3>1. Range(recs[s]) = {}
      BY <1>5, EmptyFacts
    <3> QED BY <1>1, <3>1, OnDiskFacts
  <2>4. NothingRemoved' => NothingRemoved
    BY <1>1, <2>3 DEF NothingRemoved
  <2> QED BY <1>1, <2>1, <2>2, <2>4 DEF Grown
<1> QED BY <1>3, <1>7, <1>8

\* The demux appends the next record to the current file.
LEMMA FlushStep ==
    ASSUME TypeOK, DirOrdered, FlushPartitionWALWriter, cur \in exists
    PROVE  TypeOK' /\ DirOrdered' /\ Grown
<1>1. /\ cur \in exists /\ next <= MaxRec
      /\ recs' = [recs EXCEPT ![cur] = Append(recs[cur], next)]
      /\ next' = next + 1
      /\ exists' = exists /\ torn' = torn /\ cur' = cur /\ rd' = rd
  BY DEF FlushPartitionWALWriter
<1>2. cur \in Segment /\ next \in Record /\ next \in Nat
  BY <1>1, ScanAssumption DEF TypeOK, ScanAssumption, Record
<1>3. recs \in [Segment -> Seq(Record)]
  BY DEF TypeOK
<1> DEFINE old == recs[cur]
           new == Append(recs[cur], next)
<1>4. old \in Seq(Record)
  BY <1>2, <1>3
<1>5. /\ new \in Seq(Record) /\ Len(new) = Len(old) + 1 /\ Len(old) \in Nat
      /\ new[Len(old) + 1] = next
      /\ \A i \in 1..Len(old) : new[i] = old[i]
      /\ new # <<>> /\ Range(new) = Range(old) \cup {next}
  BY <1>2, <1>4, AppendFacts
<1>6. recs'[cur] = new /\ \A s \in Segment : s # cur => recs'[s] = recs[s]
  BY <1>1, <1>2, <1>3
<1> HIDE DEF new
<1>7. TypeOK'
  <2>1. recs' \in [Segment -> Seq(Record)]
    BY <1>1, <1>2, <1>3, <1>5 DEF new
  <2>2. next' \in 1..MaxRec + 1
    BY <1>1, <1>2, ScanAssumption DEF ScanAssumption, Record
  <2> QED BY <1>1, <2>1, <2>2 DEF TypeOK
<1>8. \A s \in Segment : \A l \in Range(recs'[s]) : l \in Range(recs[s]) \/ (s = cur /\ l = next)
  BY <1>5, <1>6
<1>9. \A s \in Segment : \A l \in Range(recs[s]) : l \in Range(recs'[s]) /\ l < next /\ l \in Nat
  BY <1>3, <1>5, <1>6, FileFacts DEF DirOrdered
<1>10. next \in Range(recs'[cur])
  BY <1>5, <1>6
<1>11. \A s \in Segment : recs'[s] # <<>> => s \in exists'
  BY <1>1, <1>5, <1>6 DEF DirOrdered
<1>12. ASSUME NEW s \in Segment, NEW i \in 1..Len(recs'[s])
       PROVE  recs'[s][i] = recs'[s][1] + i - 1
  <2>1. CASE s # cur
    BY <1>6, <2>1 DEF DirOrdered
  <2>2. CASE s = cur /\ i \in 1..Len(old)
    <3>1. new[i] = old[i] /\ new[1] = old[1]
      BY <1>5, <2>2
    <3>2. old[i] = old[1] + i - 1
      BY <2>2 DEF DirOrdered
    <3> QED BY <1>6, <2>2, <3>1, <3>2
  <2>3. CASE s = cur /\ i = Len(old) + 1
    <3>1. CASE Len(old) = 0
      BY <1>2, <1>5, <1>6, <2>3, <3>1
    <3>2. CASE Len(old) # 0
      <4>1. old # <<>>
        BY <3>2, EmptyFacts
      <4>2. next - 1 \in Range(old)
        BY <1>2, <4>1 DEF DirOrdered
      <4>3. PICK j \in 1..Len(old) : old[j] = next - 1
        BY <1>2, <1>3, <4>2, FileFacts
      <4>4. Len(old) \in 1..Len(old) /\ 1 \in 1..Len(old)
        BY <1>5, <3>2
      <4>5. old[j] = old[1] + j - 1 /\ old[Len(old)] = old[1] + Len(old) - 1
        BY <1>2, <4>4 DEF DirOrdered
      <4>6. old[Len(old)] < next
        BY <1>2, <1>3, <4>4, FileFacts DEF DirOrdered
      <4>7. old[1] \in Int
        BY <1>2, <1>3, <4>4, FileFacts
      <4>8. j = Len(old)
        BY <1>2, <1>5, <4>3, <4>5, <4>6, <4>7
      <4>9. new[1] = old[1]
        BY <1>5, <4>4
      <4> HIDE DEF old
      <4> QED BY <1>2, <1>5, <1>6, <2>3, <4>3, <4>5, <4>7, <4>8, <4>9
    <3> QED BY <3>1, <3>2
  <2> QED BY <1>5, <1>6, <2>1, <2>2, <2>3
<1>13. \A s \in Segment : \A l \in Range(recs'[s]) : l < next'
  <2> TAKE s \in Segment
  <2> TAKE l \in Range(recs'[s])
  <2>1. l \in Nat /\ l <= next
    BY <1>2, <1>8, <1>9
  <2> QED BY <1>1, <1>2, <2>1
<1>14. ASSUME NEW s \in Segment, NEW t \in Segment, s < t,
              NEW l \in Range(recs'[s]), NEW m \in Range(recs'[t])
       PROVE  l < m
  <2>1. s # cur
    <3>1. t \in exists
      BY <1>1, <1>3, <1>7, <1>11, <1>14, FileFacts DEF TypeOK
    <3>2. t <= cur /\ s \in Int /\ t \in Int /\ cur \in Int
      BY <3>1, SegmentFacts DEF DirOrdered
    <3> QED BY <1>14, <3>2
  <2>2. l \in Range(recs[s])
    BY <1>8, <2>1
  <2>3. CASE m \in Range(recs[t])
    BY <1>14, <2>2, <2>3 DEF DirOrdered
  <2>4. CASE m = next
    BY <1>9, <2>2, <2>4
  <2> QED BY <1>8, <2>3, <2>4
<1>15. \A s \in Segment : s = cur' => next' - 1 \in Range(recs'[s])
  <2>1. next' - 1 = next
    BY <1>1, <1>2
  <2> QED BY <1>1, <1>10, <2>1
<1>16. DirOrdered'
  <2>1. \A s \in exists' : s <= cur'
    BY <1>1 DEF DirOrdered
  <2> QED BY <2>1, <1>11, <1>12, <1>13, <1>14, <1>15 DEF DirOrdered
<1>17. Grown
  <2>1. next < next' /\ next <= next' /\ cur <= cur'
    BY <1>1, <1>2, SegmentFacts
  <2>2. \A s \in exists : recs[s] # <<>> => recs'[s] # <<>>
    BY <1>5, <1>6 DEF TypeOK
  <2>3. \A l : l \in OnDisk' => l \in OnDisk \/ l = next
    <3>1. exists \subseteq Segment
      BY DEF TypeOK
    <3> QED BY <1>1, <1>8, <3>1, OnDiskFacts
  <2>4. NothingRemoved' => NothingRemoved
    <3> SUFFICES ASSUME NothingRemoved', NEW l \in 1..next - 1 PROVE l \in OnDisk
      BY DEF NothingRemoved
    <3>1. l \in 1..next' - 1 /\ l # next
      BY <1>1, <1>2
    <3> QED BY <2>3, <3>1 DEF NothingRemoved
  <2> QED BY <1>1, <1>8, <2>1, <2>2, <2>4 DEF Grown
<1> QED BY <1>7, <1>16, <1>17

\* The demux appends to a file that was removed.
LEMMA LostFlushStep ==
    ASSUME TypeOK, DirOrdered, FlushPartitionWALWriter, cur \notin exists
    PROVE  TypeOK' /\ DirOrdered' /\ Grown
<1>1. /\ cur \in Segment /\ next <= MaxRec /\ next' = next + 1
      /\ exists' = exists /\ torn' = torn /\ cur' = cur /\ rd' = rd
  BY DEF FlushPartitionWALWriter
<1>2. recs' = recs
  BY DEF FlushPartitionWALWriter, TypeOK
<1>3. next \in Nat /\ next >= 1 /\ MaxRec \in Nat
  BY ScanAssumption DEF TypeOK, ScanAssumption
<1>4. TypeOK'
  <2>1. next' \in 1..MaxRec + 1
    BY <1>1, <1>3
  <2> QED BY <1>1, <1>2, <2>1 DEF TypeOK
<1>5. \A s \in Segment : \A l \in Range(recs[s]) : l \in Nat /\ l < next
  BY FileFacts DEF TypeOK, DirOrdered
<1>6. \A s \in Segment : \A l \in Range(recs[s]) : l < next'
  BY <1>1, <1>3, <1>5
<1>7. recs[cur] = <<>>
  BY <1>1 DEF DirOrdered
<1>8. DirOrdered'
  BY <1>1, <1>2, <1>6, <1>7 DEF DirOrdered
<1>9. ~NothingRemoved'
  <2>1. next \notin OnDisk'
    <3>1. \A s \in exists : s \in Segment
      BY DEF TypeOK
    <3> QED BY <1>1, <1>2, <1>3, <1>5, <3>1, OnDiskFacts
  <2>2. next \in 1..next' - 1
    BY <1>1, <1>3
  <2> QED BY <2>1, <2>2 DEF NothingRemoved
<1>10. next <= next' /\ cur <= cur'
  BY <1>1, <1>3, SegmentFacts
<1>11. Grown
  BY <1>1, <1>2, <1>9, <1>10 DEF Grown
<1> QED BY <1>4, <1>8, <1>11

\* A file is removed.
LEMMA UnlinkStep ==
    ASSUME TypeOK, DirOrdered, NEW s \in Segment, Unlink(s)
    PROVE  TypeOK' /\ DirOrdered' /\ Grown
<1>1. /\ s \in exists /\ exists' = exists \ {s} /\ torn' = torn \ {s}
      /\ recs' = [recs EXCEPT ![s] = <<>>]
      /\ cur' = cur /\ next' = next /\ rd' = rd
  BY DEF Unlink
<1>2. recs \in [Segment -> Seq(Record)]
  BY DEF TypeOK
<1>3. recs'[s] = <<>> /\ \A u \in Segment : u # s => recs'[u] = recs[u]
  BY <1>1, <1>2
<1>4. TypeOK'
  <2>1. <<>> \in Seq(Record)
    OBVIOUS
  <2>2. recs' \in [Segment -> Seq(Record)]
    BY <1>1, <1>2, <2>1
  <2> QED BY <1>1, <2>2 DEF TypeOK
<1>5. Range(<<>>) = {} /\ Len(<<>>) = 0
  BY EmptyFacts
<1>6. \A u \in Segment : \A l \in Range(recs'[u]) : u # s /\ l \in Range(recs[u])
  BY <1>3, <1>5
<1>7. DirOrdered'
  <2>1. \A u \in Segment : recs'[u] # <<>> => u \in exists'
    BY <1>1, <1>3 DEF DirOrdered
  <2>2. \A u \in exists' : u <= cur'
    BY <1>1 DEF DirOrdered
  <2>3. \A u \in Segment : \A i \in 1..Len(recs'[u]) : recs'[u][i] = recs'[u][1] + i - 1
    <3>1. 1..Len(recs'[s]) = {}
      BY <1>3, <1>5
    <3> QED BY <1>3, <3>1 DEF DirOrdered
  <2>4. \A u \in Segment : \A l \in Range(recs'[u]) : l < next'
    BY <1>1, <1>6 DEF DirOrdered
  <2>5. \A u, v \in Segment : u < v => \A l \in Range(recs'[u]), m \in Range(recs'[v]) : l < m
    BY <1>6 DEF DirOrdered
  <2>6. \A u \in Segment : u = cur' /\ recs'[u] # <<>> => next' - 1 \in Range(recs'[u])
    BY <1>1, <1>3 DEF DirOrdered
  <2> QED BY <2>1, <2>2, <2>3, <2>4, <2>5, <2>6 DEF DirOrdered
<1>8. \A l : l \in OnDisk' => \E u \in exists : u # s /\ l \in Range(recs[u])
  <2>1. exists \subseteq Segment
    BY DEF TypeOK
  <2> QED BY <1>1, <1>6, <2>1, OnDiskFacts
<1>9. NothingRemoved' => NothingRemoved
  BY <1>1, <1>8, OnDiskFacts DEF NothingRemoved
<1>10. ASSUME NothingRemoved' PROVE recs[s] = <<>>
  <2> SUFFICES ASSUME NEW l \in Range(recs[s]) PROVE FALSE
    BY <1>2, FileFacts
  <2>1. l \in Nat /\ l > 0 /\ l < next /\ next \in Int
    BY <1>2, FileFacts, SegmentFacts DEF DirOrdered
  <2>2. l \in 1..next' - 1
    BY <1>1, <2>1
  <2>3. PICK u \in exists : u # s /\ l \in Range(recs[u])
    BY <1>8, <1>10, <2>2 DEF NothingRemoved
  <2>4. u \in Segment /\ u \in Int /\ s \in Int
    BY SegmentFacts
  <2>5. l < l
    <3>1. CASE u < s
      BY <2>3, <2>4, <3>1 DEF DirOrdered
    <3>2. CASE s < u
      BY <2>3, <2>4, <3>2 DEF DirOrdered
    <3> QED BY <2>3, <2>4, <3>1, <3>2
  <2> QED BY <2>1, <2>5
<1>11. Grown
  <2>1. next <= next' /\ cur <= cur'
    BY <1>1, SegmentFacts
  <2>2. NothingRemoved' => \A u \in exists : recs[u] # <<>> => u \in exists' /\ recs'[u] # <<>>
    BY <1>1, <1>3, <1>10 DEF TypeOK
  <2> QED BY <1>1, <1>6, <1>9, <2>1, <2>2 DEF Grown
<1> QED BY <1>4, <1>7, <1>11

\* The LSNs begin at 1 again when no record is left; the calls under way promise
\* nothing any more.
LEMMA StartAnewScan ==
    ASSUME ScanInv, NEW s \in Segment, StartAnew(s)
    PROVE  /\ ScanInv' /\ rd'.anew /\ rd'.todo = rd.todo /\ rd'.base = rd.base
           /\ cur <= cur' /\ cur \in Int /\ cur' \in Int
<1>1. /\ OnDisk = {} /\ next' = 1 /\ rd' = [rd EXCEPT !.anew = TRUE]
      /\ exists' = exists \cup {s} /\ cur' = s /\ s \in {cur, cur + 1}
      /\ recs' = recs /\ torn' = torn
  BY DEF StartAnew
<1>2. rd \in ReaderState /\ recs \in [Segment -> Seq(Record)]
  BY DEF ScanInv, TypeOK
<1>3. /\ rd' \in ReaderState /\ rd'.anew /\ rd'.op = rd.op /\ rd'.pc = rd.pc
      /\ rd'.todo = rd.todo /\ rd'.base = rd.base
  BY <1>1, <1>2 DEF ReaderState
<1>4. /\ cur \in Int /\ s \in Int /\ cur <= s /\ s \in 0..MaxSeg
      /\ \A t \in exists : t \in Int
  BY <1>1, SegmentFacts, ScanAssumption DEF ScanAssumption, Segment, ScanInv
<1>5. TypeOK'
  <2>1. 1 \in 1..MaxRec + 1
    BY ScanAssumption DEF ScanAssumption
  <2>2. exists' \in SUBSET Segment /\ torn' \in SUBSET exists'
    BY <1>1 DEF ScanInv, TypeOK
  <2> QED BY <1>1, <1>2, <1>3, <1>4, <2>1, <2>2 DEF TypeOK
<1>6. \A t \in Segment : recs[t] = <<>>
  <2> SUFFICES ASSUME NEW t \in Segment, recs[t] # <<>> PROVE FALSE
    OBVIOUS
  <2>1. t \in exists
    BY DEF ScanInv, DirOrdered
  <2>2. PICK l : l \in Range(recs[t])
    BY <1>2, FileFacts
  <2> QED BY <1>1, <2>1, <2>2, OnDiskFacts
<1>7. Range(<<>>) = {} /\ 1..Len(<<>>) = {}
  BY EmptyFacts
<1>8. \A t \in exists' : t <= cur'
  BY <1>1, <1>4 DEF ScanInv, DirOrdered
<1>9. DirOrdered'
  BY <1>1, <1>6, <1>7, <1>8 DEF ScanInv, DirOrdered
<1> QED BY <1>1, <1>3, <1>4, <1>5, <1>9 DEF ScanInv, CountListsNothing

\* After a restart the next record follows the last one on disk, or a later one.
LEMMA RestartScan ==
    ASSUME ScanInv, Restart
    PROVE  ScanInv' /\ rd' = IdleReader
<1> DEFINE top == Max({0} \cup OnDisk)
<1>1. /\ next' \in top + 1..next /\ rd' = IdleReader
      /\ exists' = exists \cup ({cur} \cap Segment) /\ recs' = recs /\ torn' = torn /\ cur' = cur
  BY DEF Restart
<1>2. recs \in [Segment -> Seq(Record)] /\ exists \subseteq Segment
  BY DEF ScanInv, TypeOK
<1>3. OnDisk \subseteq Record
  BY <1>2, FileFacts, OnDiskFacts
<1>4. top \in 0..MaxRec /\ \A l \in {0} \cup OnDisk : l <= top
  <2>1. {0} \cup OnDisk \in SUBSET (0..MaxRec) /\ {0} \cup OnDisk # {} /\ MaxRec \in Nat
    BY <1>3, ScanAssumption DEF ScanAssumption, Record
  <2> QED BY <2>1, MaxFacts
<1> HIDE DEF top
<1>5. next \in 1..MaxRec + 1 /\ MaxRec \in Nat
  BY ScanAssumption DEF ScanInv, TypeOK, ScanAssumption
<1>6. next' \in 1..MaxRec + 1 /\ next' <= next /\ top < next' /\ next' \in Int
  BY <1>1, <1>4, <1>5
<1>7. TypeOK'
  <2>1. <<>> \in Seq(Record)
    OBVIOUS
  <2>2. IdleReader \in ReaderState
    BY <2>1 DEF IdleReader, ReaderState, Op
  <2>3. exists' \in SUBSET Segment /\ torn' \in SUBSET exists'
    BY <1>1 DEF ScanInv, TypeOK
  <2> QED BY <1>1, <1>6, <2>2, <2>3 DEF ScanInv, TypeOK
<1>8. \A s \in Segment : \A l \in Range(recs[s]) : l \in Nat /\ l \in OnDisk /\ l <= top
  BY <1>2, <1>4, FileFacts, OnDiskFacts DEF ScanInv, DirOrdered
<1>9. \A s \in Segment : \A l \in Range(recs[s]) : l < next'
  BY <1>4, <1>6, <1>8
<1>10. \A s \in Segment : s = cur /\ recs[s] # <<>> => next' - 1 \in Range(recs[s])
  <2> SUFFICES ASSUME NEW s \in Segment, s = cur, recs[s] # <<>> PROVE next' = next
    BY DEF ScanInv, DirOrdered
  <2>1. next - 1 <= top
    BY <1>8 DEF ScanInv, DirOrdered
  <2> QED BY <1>4, <1>5, <1>6, <2>1
<1>11. DirOrdered'
  <2>1. \A s \in exists' : s <= cur'
    BY <1>1, SegmentFacts DEF ScanInv, DirOrdered
  <2> QED BY <1>1, <1>9, <1>10, <2>1 DEF ScanInv, DirOrdered
<1>12. rd'.pc = "idle" /\ rd'.op = "last"
  BY <1>1 DEF IdleReader
<1> QED BY <1>1, <1>7, <1>11, <1>12 DEF ScanInv, SinceCall, CountWalk, CountListsNothing
-----------------------------------------------------------------------------
(* The steps of the reader: the count and what holds since the call *)

\* A reader changes nothing in the directory.
LEMMA DirUnchanged ==
    ASSUME DirOrdered, UNCHANGED dirVars
    PROVE  DirOrdered' /\ OnDisk' = OnDisk
<1>1. /\ exists' = exists /\ recs' = recs /\ torn' = torn /\ cur' = cur
      /\ next' = next
  BY DEF dirVars
<1>2. OnDisk' = OnDisk
  BY <1>1 DEF OnDisk
<1> QED BY <1>1, <1>2 DEF DirOrdered

\* A step of a walk: the reader goes on in the same call.
Walked ==
    /\ rd' \in ReaderState /\ UNCHANGED dirVars
    /\ rd.pc \in {"list", "read"} /\ rd'.pc \in {"read", "done"}
    /\ rd'.op = rd.op /\ rd'.base = rd.base
    /\ rd'.atCall = rd.atCall /\ rd'.nextAtCall = rd.nextAtCall /\ rd'.anew = rd.anew

\* What the reader may rely on holds through its walk.
LEMMA WalkedSince ==
    ASSUME ScanInv, Walked
    PROVE  TypeOK' /\ DirOrdered' /\ (~rd.anew => SinceCall') /\ OnDisk' = OnDisk
<1>1. /\ exists' = exists /\ recs' = recs /\ torn' = torn /\ cur' = cur
      /\ next' = next
  BY DEF Walked, dirVars
<1>2. DirOrdered' /\ OnDisk' = OnDisk
  BY DirUnchanged DEF ScanInv, Walked
<1>3. TypeOK'
  BY <1>1 DEF ScanInv, TypeOK, Walked
<1>4. ~rd.anew => SinceCall'
  <2>1. /\ rd'.base = rd.base /\ rd'.atCall = rd.atCall /\ rd'.nextAtCall = rd.nextAtCall
        /\ rd.pc # "idle"
    BY DEF Walked
  <2> QED BY <1>1, <1>2, <2>1 DEF ScanInv, SinceCall
<1> QED BY <1>2, <1>3, <1>4

\* So does the whole invariant, but for a count.
LEMMA WalkedScan ==
    ASSUME ScanInv, Walked, rd.op # "count"
    PROVE  ScanInv'
<1>1. CountWalk' /\ CountListsNothing' /\ rd'.anew = rd.anew
  BY DEF Walked, CountWalk, CountListsNothing
<1> QED BY <1>1, WalkedSince DEF ScanInv

\* A call begins.
LEMMA OpenDirScan ==
    ASSUME ScanInv, NEW op \in Op, OpenDir(op)
    PROVE  ScanInv'
<1> DEFINE new == [IdleReader EXCEPT !.pc = IF op = "count" THEN "read" ELSE "list", !.op = op,
                                     !.base = exists, !.atCall = OnDisk, !.nextAtCall = next]
<1>1. /\ exists' = exists /\ recs' = recs /\ torn' = torn /\ cur' = cur
      /\ next' = next /\ rd' = new
  BY DEF OpenDir, dirVars
<1>2. OnDisk \subseteq Record
  <2>1. \A s \in exists : s \in Segment
    BY DEF ScanInv, TypeOK
  <2>2. recs \in [Segment -> Seq(Record)]
    BY DEF ScanInv, TypeOK
  <2> QED BY <2>1, <2>2, FileFacts, OnDiskFacts
<1>3. /\ new.pc = (IF op = "count" THEN "read" ELSE "list") /\ new.op = op
      /\ new.base = exists /\ new.todo = {} /\ new.seen = {} /\ new.out = <<>>
      /\ new.total = 0 /\ new.atCall = OnDisk /\ new.nextAtCall = next
  BY DEF IdleReader
<1> HIDE DEF new
<1>4. TypeOK'
  <2>1. new.pc \in {"idle", "list", "read", "done"} /\ <<>> \in Seq(Record)
    BY <1>3
  <2>2. exists \in SUBSET Segment /\ next \in Nat
    BY SegmentFacts DEF ScanInv, TypeOK
  <2>3. PICK pc \in {"idle", "list", "read", "done"} : pc = IF op = "count" THEN "read" ELSE "list"
    OBVIOUS
  <2>4. new = [IdleReader EXCEPT !.pc = pc, !.op = op, !.base = exists, !.atCall = OnDisk,
                                 !.nextAtCall = next]
    BY <2>3 DEF new
  <2>5. new \in ReaderState
    BY <1>2, <2>1, <2>2, <2>4 DEF IdleReader, ReaderState
  <2> QED BY <1>1, <2>5 DEF ScanInv, TypeOK
<1>5. DirOrdered' /\ OnDisk' = OnDisk
  BY DirUnchanged DEF ScanInv, OpenDir
<1>6. \A s \in exists : s \in Segment /\ \A l \in Range(recs[s]) : l < next
  BY DEF ScanInv, TypeOK, DirOrdered
<1>7. \A l \in OnDisk : l < next
  BY <1>6, OnDiskFacts
<1>8. SinceCall'
  <2>1. next <= next /\ \A s \in exists : s <= cur
    BY SegmentFacts DEF ScanInv, DirOrdered
  <2> QED BY <1>1, <1>3, <1>5, <1>7, <2>1 DEF SinceCall
<1>9. CountWalk'
  <2> SUFFICES ASSUME op = "count" PROVE CountWalk'
    BY <1>1, <1>3 DEF CountWalk
  <2>1. Cardinality({}) = 0
    BY FS_EmptySet
  <2>2. Counted({})'
    BY <1>1, <1>3, <2>1 DEF Counted
  <2> QED BY <1>1, <1>3, <2>2 DEF CountWalk
<1>10. CountListsNothing'
  BY <1>1, <1>3 DEF CountListsNothing
<1> QED BY <1>4, <1>5, <1>8, <1>9, <1>10 DEF ScanInv

\* A call returns.
LEMMA ReturnScan ==
    ASSUME ScanInv, Return
    PROVE  ScanInv'
<1>1. /\ exists' = exists /\ recs' = recs /\ torn' = torn /\ cur' = cur
      /\ next' = next /\ rd' = IdleReader
  BY DEF Return, dirVars
<1>2. <<>> \in Seq(Record)
  OBVIOUS
<1>3. IdleReader \in ReaderState
  BY <1>2 DEF IdleReader, ReaderState, Op
<1>4. rd'.pc = "idle" /\ rd'.op = "last"
  BY <1>1 DEF IdleReader
<1>5. DirOrdered'
  BY DirUnchanged DEF ScanInv, Return
<1> QED BY <1>1, <1>3, <1>4, <1>5 DEF ScanInv, TypeOK, SinceCall, CountWalk, CountListsNothing

\* The names are collected.
LEMMA ReadDirWalked ==
    ASSUME ScanInv, NEW names \in SUBSET (rd.base \cup exists), ReadDir(names)
    PROVE  /\ Walked /\ rd.op # "count" /\ rd.pc = "list" /\ rd'.pc = "read"
           /\ rd'.todo = names /\ rd'.out = rd.out /\ names \subseteq Segment
<1>1. rd \in ReaderState /\ names \in SUBSET Segment
  BY SegmentFacts DEF ScanInv, TypeOK
<1>2. rd' = [rd EXCEPT !.pc = "read", !.todo = names] /\ rd.pc = "list"
  BY DEF ReadDir
<1>3. rd.op # "count"
  BY <1>2 DEF ScanInv, CountListsNothing
<1> QED BY <1>1, <1>2, <1>3 DEF Walked, ReadDir, ReaderState

\* The next file to open is the highest for "last", the lowest otherwise.
LEMMA NextFileFacts ==
    ASSUME ScanInv, rd.todo # {}
    PROVE  /\ NextFile \in rd.todo
           /\ rd.op = "last" => \A s \in rd.todo : s <= NextFile
           /\ rd.op # "last" => \A s \in rd.todo : NextFile <= s
<1>1. rd.todo \in SUBSET (0..MaxSeg) /\ rd.todo \in SUBSET Nat /\ MaxSeg \in Nat
  BY ScanAssumption DEF ScanAssumption, ScanInv, TypeOK, ReaderState, Segment
<1> QED BY <1>1, MaxFacts, MinFacts DEF NextFile

\* A file is opened, or found missing.
LEMMA FileStepWalked ==
    ASSUME ScanInv, SkipMissing \/ ReadLast \/ ReadVerify \/ ReadDump
    PROVE  Walked /\ rd.op # "count" /\ rd.pc = "read" /\ NextFile \in rd.todo
<1>1. rd \in ReaderState /\ recs \in [Segment -> Seq(Record)]
  BY DEF ScanInv, TypeOK
<1>2. NextFile \in rd.todo /\ NextFile \in Segment
  BY NextFileFacts, SegmentFacts DEF ScanInv, SkipMissing, ReadLast, ReadVerify, ReadDump
<1>3. CASE SkipMissing
  BY <1>1, <1>2, <1>3 DEF SkipMissing, AfterMissing, Walked, ReaderState
<1>4. CASE ReadLast
  <2>1. CASE Found(NextFile)
    <3>1. LastOfFile(NextFile) \in Record
      <4>1. {0} \cup Range(recs[NextFile]) \in SUBSET (0..MaxRec) /\ MaxRec \in Nat
        BY <1>1, <1>2, FileFacts, ScanAssumption DEF ScanAssumption, Record
      <4>2. Max({0} \cup Range(recs[NextFile])) \in 0..MaxRec
        <5>1. {0} \cup Range(recs[NextFile]) # {}
          OBVIOUS
        <5> QED BY <4>1, <5>1, MaxFacts
      <4>3. recs[NextFile] # <<>> => Last(recs[NextFile]) \in Record
        <5>1. recs[NextFile] \in Seq(Record)
          BY <1>1, <1>2
        <5> QED BY <5>1 DEF Last
      <4> QED BY <2>1, <4>1, <4>2, <4>3 DEF Found, LastOfFile, Record
    <3>2. <<LastOfFile(NextFile)>> \in Seq(Record)
      BY <3>1
    <3>3. rd' = [rd EXCEPT !.pc = "done", !.todo = {}, !.out = <<LastOfFile(NextFile)>>]
      BY <1>4, <2>1 DEF ReadLast
    <3> QED BY <1>1, <1>2, <1>4, <3>2, <3>3 DEF ReadLast, Walked, ReaderState
  <2>2. CASE ~Found(NextFile)
    BY <1>1, <1>2, <1>4, <2>2 DEF ReadLast, Walked, ReaderState
  <2> QED BY <2>1, <2>2
<1>5. rd.out \o recs[NextFile] \in Seq(Record)
  BY <1>1, <1>2, ConcatFacts DEF ReaderState
<1>6. CASE ReadVerify
  <2>1. PICK todo \in SUBSET Segment :
              rd' = [rd EXCEPT !.out = rd.out \o recs[NextFile], !.todo = todo]
    BY <1>1, <1>6 DEF ReadVerify, ReaderState
  <2> QED BY <1>1, <1>2, <1>5, <1>6, <2>1 DEF ReadVerify, Walked, ReaderState
<1>7. CASE ReadDump
  <2>1. rd' = [rd EXCEPT !.out = rd.out \o recs[NextFile], !.todo = rd.todo \ {NextFile}]
    BY <1>7 DEF ReadDump
  <2> QED BY <1>1, <1>2, <1>5, <1>7, <2>1 DEF ReadDump, Walked, ReaderState
<1> QED BY <1>3, <1>4, <1>6, <1>7

\* The walk ends.
LEMMA EndOfWalkWalked ==
    ASSUME ScanInv, EndOfWalk
    PROVE  /\ Walked /\ rd.pc = "read" /\ rd'.pc = "done"
           /\ rd'.todo = rd.todo /\ rd'.seen = rd.seen /\ rd'.out = rd.out
           /\ rd'.total = rd.total
<1>1. rd \in ReaderState
  BY DEF ScanInv, TypeOK
<1> QED BY <1>1 DEF EndOfWalk, Walked, ReaderState

\* The sets of records are finite; a file holds as many as it is long.
LEMMA RecordCount ==
    ASSUME ScanInv
    PROVE  /\ \A S \in SUBSET Record : IsFiniteSet(S) /\ Cardinality(S) \in Nat
           /\ \A s \in Segment : Cardinality(Range(recs[s])) = Len(recs[s])
<1>1. IsFiniteSet(Record)
  BY FS_Interval, ScanAssumption DEF ScanAssumption, Record
<1>2. \A S \in SUBSET Record : IsFiniteSet(S) /\ Cardinality(S) \in Nat
  BY <1>1, FS_Subset, FS_CardinalityType
<1>3. ASSUME NEW s \in Segment PROVE Cardinality(Range(recs[s])) = Len(recs[s])
  <2> DEFINE n == Len(recs[s])
             a == recs[s][1]
  <2>1. recs \in [Segment -> Seq(Record)]
    BY DEF ScanInv, TypeOK
  <2>2. /\ n \in Nat
        /\ \A i \in 1..n : recs[s][i] \in Range(recs[s]) /\ recs[s][i] = a + i - 1
        /\ \A l \in Range(recs[s]) : l \in Nat /\ \E i \in 1..n : recs[s][i] = l
    BY <2>1, FileFacts DEF ScanInv, DirOrdered
  <2>3. CASE n = 0
    <3>1. Range(recs[s]) = {}
      BY <2>2, <2>3
    <3> QED BY <2>3, <3>1, FS_EmptySet
  <2>4. CASE n # 0
    <3>1. 1 \in 1..n
      BY <2>2, <2>4
    <3>2. a \in Nat
      BY <2>2, <3>1
    <3> HIDE DEF n, a
    <3>3. ASSUME NEW l \in a..a + n - 1 PROVE l \in Range(recs[s])
      <4>1. l - a + 1 \in 1..n /\ a + (l - a + 1) - 1 = l
        BY <2>2, <3>2
      <4> QED BY <2>2, <4>1
    <3>4. ASSUME NEW l \in Range(recs[s]) PROVE l \in a..a + n - 1
      <4>1. PICK i \in 1..n : l = a + i - 1
        BY <2>2
      <4> QED BY <2>2, <3>2, <4>1
    <3>5. Range(recs[s]) = a..a + n - 1
      BY <3>3, <3>4
    <3>6. a + n - 1 \in Int /\ a \in Int /\ ~(a > a + n - 1) /\ (a + n - 1) - a + 1 = n
      BY <2>2, <2>4, <3>2
    <3>7. Cardinality(a..a + n - 1) = (a + n - 1) - a + 1
      BY <3>6, FS_Interval
    <3> QED BY <3>5, <3>6, <3>7 DEF n
  <2> QED BY <2>3, <2>4
<1> QED BY <1>2, <1>3

\* A file is counted.
LEMMA CountFileScan ==
    ASSUME ScanInv, NEW s \in Segment, CountFile(s)
    PROVE  ScanInv' /\ rd'.op = "count" /\ rd'.todo = rd.todo
<1>1. rd \in ReaderState /\ recs \in [Segment -> Seq(Record)]
  BY DEF ScanInv, TypeOK
<1>2. /\ rd' = [rd EXCEPT !.seen = rd.seen \cup {s}, !.total = rd.total + Len(recs[s])]
      /\ rd.pc = "read" /\ rd.op = "count" /\ s \in exists /\ s \notin rd.seen
      /\ UNCHANGED dirVars
  BY DEF CountFile, RecordsInSize
<1>3. Len(recs[s]) \in Nat
  BY <1>1, FileFacts
<1>4. rd.total + Len(recs[s]) \in Nat
  BY <1>3, SegmentFacts DEF ScanInv
<1>5. /\ Walked /\ rd'.seen = rd.seen \cup {s} /\ rd'.total = rd.total + Len(recs[s])
      /\ rd'.pc = "read" /\ rd'.todo = rd.todo
  BY <1>1, <1>2, <1>4 DEF Walked, ReaderState
<1>6. exists' = exists /\ recs' = recs /\ next' = next
  BY <1>2 DEF dirVars
<1> SUFFICES ASSUME ~rd.anew PROVE CountWalk'
  <2>1. CountListsNothing' /\ rd'.anew = rd.anew
    BY <1>5 DEF CountListsNothing, Walked
  <2> QED BY <1>2, <1>5, <2>1, WalkedSince DEF ScanInv, Walked
<1>7. PICK S \in SUBSET Record : Counted(S)
  BY <1>2 DEF ScanInv, CountWalk
<1> DEFINE F == Range(recs[s])
<1>8. F \in SUBSET Record
  BY <1>1, FileFacts
<1>9. PICK T \in SUBSET Record : T = S \cup F
  BY <1>8
<1>10. S \cap F = {}
  BY <1>2, <1>7 DEF Counted
<1>11. Cardinality(T) = rd'.total
  <2>1. IsFiniteSet(S) /\ IsFiniteSet(F) /\ Cardinality(F) = Len(recs[s])
        /\ Cardinality(S) \in Nat
    BY <1>8, RecordCount
  <2>2. Cardinality(T) = Cardinality(S) + Cardinality(F) - Cardinality(S \cap F)
    BY <1>9, <2>1, FS_Union
  <2>3. Cardinality(S \cap F) = 0
    BY <1>10, FS_EmptySet
  <2>4. Cardinality(S) = rd.total
    BY <1>7 DEF Counted
  <2> HIDE DEF F
  <2> QED BY <1>3, <1>5, <2>1, <2>2, <2>3, <2>4
<1>12. \A l \in F : l \in Nat /\ l < next /\ l \in OnDisk
  BY <1>1, <1>2, FileFacts, OnDiskFacts DEF ScanInv, DirOrdered
<1>13. T \subseteq rd.atCall \cup (rd.nextAtCall..next - 1)
  <2>1. ASSUME NEW l \in F PROVE l \in rd.atCall \cup (rd.nextAtCall..next - 1)
    <3>1. l < rd.nextAtCall => l \in rd.atCall
      BY <1>2, <1>12 DEF ScanInv, SinceCall
    <3>2. rd.nextAtCall \in Int /\ next \in Int
      BY SegmentFacts DEF ScanInv
    <3> QED BY <1>12, <3>1, <3>2
  <2> QED BY <1>7, <1>9, <2>1 DEF Counted
<1>14. \A t \in exists \cap (rd.seen \cup {s}) : Range(recs[t]) \cap rd.atCall \subseteq T
  BY <1>7, <1>9 DEF Counted
<1>15. ASSUME NEW t \in exists \ (rd.seen \cup {s}), NEW l \in Range(recs[t]), l \in T PROVE FALSE
  <2>1. l \notin S
    BY <1>7 DEF Counted
  <2>2. l \in F
    BY <1>15, <1>9, <2>1
  <2>3. t \in Segment /\ t \in Int /\ s \in Int /\ t # s
    BY SegmentFacts DEF ScanInv
  <2>4. l < l
    <3>1. CASE s < t
      BY <2>2, <2>3, <3>1 DEF ScanInv, DirOrdered
    <3>2. CASE t < s
      BY <2>2, <2>3, <3>2 DEF ScanInv, DirOrdered
    <3> QED BY <2>3, <3>1, <3>2
  <2> QED BY <1>12, <2>2, <2>4
<1>16. Counted(T)'
  <2>1. rd'.atCall = rd.atCall /\ rd'.nextAtCall = rd.nextAtCall
    BY <1>5 DEF Walked
  <2>2. \A t \in exists' \ rd'.seen : Range(recs'[t]) \cap T = {}
    BY <1>5, <1>6, <1>15
  <2>3. \A t \in exists' \cap rd'.seen : Range(recs'[t]) \cap rd'.atCall \subseteq T
    BY <1>5, <1>6, <1>14, <2>1
  <2>4. T \subseteq rd'.atCall \cup (rd'.nextAtCall..next' - 1)
    BY <1>6, <1>13, <2>1
  <2>5. rd'.pc # "done"
    BY <1>5
  <2> QED BY <1>11, <2>2, <2>3, <2>4, <2>5 DEF Counted
<1> QED BY <1>16 DEF CountWalk

\* The end of a count, and of another walk.
LEMMA EndOfWalkScan ==
    ASSUME ScanInv, EndOfWalk
    PROVE  ScanInv'
<1>1. CASE rd.op # "count"
  BY <1>1, EndOfWalkWalked, WalkedScan
<1>2. CASE rd.op = "count"
  <2>1. /\ Walked /\ rd.pc = "read" /\ rd'.pc = "done" /\ rd'.seen = rd.seen
        /\ rd'.total = rd.total
    BY EndOfWalkWalked
  <2> SUFFICES ASSUME ~rd.anew PROVE CountWalk'
    <3>1. CountListsNothing' /\ rd'.anew = rd.anew
      BY <2>1 DEF CountListsNothing, Walked
    <3> QED BY <2>1, <3>1, WalkedSince DEF ScanInv
  <2>2. rd.base \cap exists \subseteq rd.seen
    BY <1>2 DEF EndOfWalk, Listing
  <2>3. PICK S \in SUBSET Record : Counted(S)
    BY <1>2, <2>1 DEF ScanInv, CountWalk
  <2>4. ASSUME NEW l \in rd.atCall \cap OnDisk PROVE l \in S
    <3>1. PICK s \in exists : l \in Range(recs[s])
      BY OnDiskFacts
    <3>2. s \in rd.base
      BY <2>1, <3>1 DEF ScanInv, SinceCall
    <3> QED BY <2>2, <2>3, <3>1, <3>2 DEF Counted
  <2>5. /\ exists' = exists /\ recs' = recs /\ next' = next
        /\ rd'.atCall = rd.atCall /\ rd'.nextAtCall = rd.nextAtCall
    BY <2>1 DEF Walked, dirVars
  <2>6. OnDisk' = OnDisk
    BY <2>1, WalkedSince
  <2>7. Counted(S)'
    BY <2>1, <2>3, <2>4, <2>5, <2>6 DEF Counted
  <2> QED BY <2>7 DEF CountWalk
<1> QED BY <1>1, <1>2

\* At first there is no call, and one file at most.
LEMMA ScanInit ==
    ASSUME Init
    PROVE  ScanInv /\ WalkInv
<1>1. PICK n \in 0..MaxRec :
          /\ recs = [s \in Segment |-> IF s = 1 THEN [i \in 1..n |-> i] ELSE <<>>]
          /\ next = n + 1
          /\ exists = {} => n = 0
  BY ScanAssumption DEF Init, ScanAssumption
<1>2. /\ exists = {} \/ exists = {1}
      /\ torn \in SUBSET exists /\ rd = IdleReader
      /\ cur = IF exists = {} THEN 0 ELSE 1
  BY DEF Init
<1>3. MaxSeg \in Nat /\ MaxSeg > 0 /\ MaxRec \in Nat /\ n \in Nat /\ n <= MaxRec
  BY ScanAssumption DEF ScanAssumption
<1>4. 1 \in Segment
  BY <1>3 DEF Segment
<1> DEFINE first == [i \in 1..n |-> i]
<1>5. /\ first \in Seq(Record) /\ Len(first) = n /\ \A i \in 1..n : first[i] = i
  BY <1>3 DEF Record
<1>6. Range(first) = 1..n
  <2>1. \A x : x \in Range(first) <=> \E i \in 1..Len(first) : first[i] = x
    <3> HIDE DEF first
    <3> QED BY <1>5, RangeFacts
  <2> QED BY <1>5, <2>1
<1>7. recs[1] = first /\ \A s \in Segment : s # 1 => recs[s] = <<>>
  BY <1>1, <1>4
<1> HIDE DEF first
<1>8. <<>> \in Seq(Record) /\ Range(<<>>) = {} /\ Len(<<>>) = 0
  BY EmptyFacts
<1>9. recs \in [Segment -> Seq(Record)]
  BY <1>1, <1>5, <1>8 DEF first
<1>10. TypeOK
  <2>1. IdleReader \in ReaderState
    BY <1>8 DEF IdleReader, ReaderState, Op
  <2>2. exists \in SUBSET Segment /\ torn \in SUBSET exists
    BY <1>2, <1>4 DEF Init
  <2>3. cur \in 0..MaxSeg /\ next \in 1..MaxRec + 1
    BY <1>1, <1>2, <1>3
  <2> QED BY <1>9, <2>1, <2>2, <2>3, <1>2 DEF TypeOK, Init
<1>11. \A s \in Segment : recs[s] # <<>> => s = 1 /\ exists = {1} /\ n # 0
  <2>1. n = 0 => first = <<>>
    BY <1>5
  <2> QED BY <1>1, <1>2, <1>7, <2>1
<1>12. \A s \in Segment : \A l \in Range(recs[s]) : s = 1 /\ l \in 1..n
  BY <1>6, <1>7, <1>8
<1>13. DirOrdered
  <2>1. \A s \in Segment : recs[s] # <<>> => s \in exists
    BY <1>11
  <2>2. \A s \in exists : s <= cur
    BY <1>2
  <2>3. ASSUME NEW s \in Segment, NEW i \in 1..Len(recs[s]) PROVE recs[s][i] = recs[s][1] + i - 1
    <3>1. s = 1
      BY <1>7, <1>8
    <3>2. i \in 1..n /\ 1 \in 1..n
      BY <1>3, <1>5, <1>7, <3>1
    <3> QED BY <1>5, <1>7, <3>1, <3>2
  <2>4. \A s \in Segment : \A l \in Range(recs[s]) : l < next
    BY <1>1, <1>12, SMTT(30)
  <2>5. \A s, t \in Segment : s < t => \A l \in Range(recs[s]), m \in Range(recs[t]) : l < m
    BY <1>12
  <2>6. \A s \in Segment : s = cur /\ recs[s] # <<>> => next - 1 \in Range(recs[s])
    <3>1. next - 1 = n /\ (n # 0 => n \in 1..n)
      BY <1>1, <1>3
    <3> QED BY <1>6, <1>7, <1>11, <3>1
  <2> QED BY <2>1, <2>2, <2>3, <2>4, <2>5, <2>6 DEF DirOrdered
<1>14. rd.pc = "idle" /\ rd.op = "last" /\ rd.todo = {} /\ rd.base = {}
  BY <1>2 DEF Init, IdleReader
<1>15. SinceCall /\ CountWalk /\ CountListsNothing /\ WalkInv
  BY <1>14 DEF SinceCall, CountWalk, CountListsNothing, WalkInv, TodoBegun, LastWalk, ReadAscends, DumpWalk, VerifyWalk
<1> QED BY <1>10, <1>13, <1>15 DEF ScanInv

\* Every step preserves ScanInv.
LEMMA ScanStep ==
    ASSUME ScanInv, [Next]_vars
    PROVE  ScanInv'
<1>1. CASE FlushPartitionWALWriter \/ \E s \in Segment : OpenWriterSegment(s) \/ Unlink(s)
  <2>1. TypeOK' /\ DirOrdered' /\ Grown
    BY <1>1, OpenSegmentStep, FlushStep, LostFlushStep, UnlinkStep DEF ScanInv
  <2>2. CountListsNothing' /\ rd'.anew = rd.anew
    BY <2>1 DEF Grown, ScanInv, CountListsNothing
  <2> QED BY <2>1, <2>2, GrownSince, GrownCount DEF ScanInv
<1>2. ASSUME NEW op \in Op, OpenDir(op) PROVE ScanInv'
  BY <1>2, OpenDirScan
<1>3. ASSUME NEW names \in SUBSET (rd.base \cup exists), ReadDir(names) PROVE ScanInv'
  BY <1>3, ReadDirWalked, WalkedScan
<1>4. CASE SkipMissing \/ ReadLast \/ ReadVerify \/ ReadDump
  BY <1>4, FileStepWalked, WalkedScan
<1>5. ASSUME NEW s \in Segment, CountFile(s) PROVE ScanInv'
  BY <1>5, CountFileScan
<1>6. CASE EndOfWalk
  BY <1>6, EndOfWalkScan
<1>7. CASE Return
  BY <1>7, ReturnScan
<1>8. CASE UNCHANGED vars
  <2>1. UNCHANGED dirVars /\ rd' = rd /\ exists' = exists /\ recs' = recs /\ torn' = torn
        /\ cur' = cur /\ next' = next
    BY <1>8 DEF vars, dirVars
  <2>2. DirOrdered' /\ OnDisk' = OnDisk
    BY <2>1, DirUnchanged DEF ScanInv
  <2> QED BY <2>1, <2>2 DEF ScanInv, TypeOK, SinceCall, CountWalk, Counted, CountListsNothing
<1>9. CASE Restart \/ \E s \in Segment : StartAnew(s)
  BY <1>9, StartAnewScan, RestartScan
<1> QED BY <1>1, <1>2, <1>3, <1>4, <1>5, <1>6, <1>7, <1>8, <1>9 DEF Next, ReaderStep

\* ScanInv holds in every reachable state.
THEOREM ScanInvariant == Spec => []ScanInv
<1>1. Init => ScanInv
  BY ScanInit
<1>2. ScanInv /\ [Next]_vars => ScanInv'
  BY ScanStep
<1> QED BY <1>1, <1>2, PTL DEF Spec

\* Every variable of the scan has its type.
THEOREM ScanTypeCorrect == Spec => []TypeOK
<1>1. ScanInv => TypeOK
  BY DEF ScanInv
<1> QED BY <1>1, ScanInvariant, PTL

\* count_parwal_records() counts every record that was there during the whole
\* call, and none that was never there.
THEOREM CountAlwaysBounded == Spec => []CountBounded
<1>1. ASSUME ScanInv PROVE CountBounded
  <2> SUFFICES ASSUME rd.pc = "done", rd.op = "count", ~rd.anew
               PROVE  /\ Cardinality(rd.atCall \cap OnDisk) <= rd.total
                      /\ rd.total <= Cardinality(rd.atCall \cup (rd.nextAtCall..next - 1))
    BY DEF CountBounded, Returned
  <2>1. PICK S \in SUBSET Record : Counted(S)
    BY <1>1 DEF ScanInv, CountWalk
  <2> DEFINE U == rd.atCall \cup (rd.nextAtCall..next - 1)
             L == rd.atCall \cap OnDisk
  <2>2. Cardinality(S) = rd.total /\ L \subseteq S /\ S \subseteq U
    BY <2>1 DEF Counted
  <2>3. IsFiniteSet(S)
    BY <1>1, RecordCount
  <2>4. IsFiniteSet(U)
    <3>1. IsFiniteSet(rd.atCall)
      BY <1>1, RecordCount, SegmentFacts DEF ScanInv
    <3>2. rd.nextAtCall \in Int /\ next - 1 \in Int
      BY <1>1, SegmentFacts DEF ScanInv
    <3>3. IsFiniteSet(rd.nextAtCall..next - 1)
      BY <3>2, FS_Interval
    <3> QED BY <3>1, <3>3, FS_Union
  <2> HIDE DEF U, L
  <2>5. Cardinality(L) <= Cardinality(S) /\ Cardinality(S) <= Cardinality(U)
    BY <2>2, <2>3, <2>4, FS_Subset
  <2> QED BY <2>2, <2>5 DEF U, L
<1> QED BY <1>1, ScanInvariant, PTL
-----------------------------------------------------------------------------
(* The steps of the reader: the walks *)

\* Without a call nothing has been read.
LEMMA IdleWalk ==
    ASSUME rd' = IdleReader
    PROVE  WalkInv'
<1>1. rd'.pc = "idle" /\ rd'.op = "last" /\ rd'.todo = {} /\ rd'.base = {}
  BY DEF IdleReader
<1> QED BY <1>1 DEF WalkInv, TodoBegun, LastWalk, ReadAscends, DumpWalk, VerifyWalk

\* A call begins: nothing has been read.
LEMMA OpenDirWalk ==
    ASSUME ScanInv, NEW op \in Op, OpenDir(op)
    PROVE  WalkInv'
<1>1. rd' = [IdleReader EXCEPT !.pc = IF op = "count" THEN "read" ELSE "list", !.op = op,
                               !.base = exists, !.atCall = OnDisk, !.nextAtCall = next]
  BY DEF OpenDir
<1>2. /\ rd'.pc = "list" \/ rd'.op = "count"
      /\ rd'.todo = {} /\ rd'.out = <<>> /\ rd'.base = exists /\ cur' = cur
  BY <1>1 DEF IdleReader, OpenDir, dirVars
<1>3. 1..Len(<<>>) = {}
  BY EmptyFacts
<1>4. TodoBegun' /\ LastWalk' /\ DumpWalk' /\ VerifyWalk'
  BY <1>2 DEF ScanInv, DirOrdered, TodoBegun, LastWalk, DumpWalk, VerifyWalk
<1>5. ReadAscends'
  BY <1>2, <1>3 DEF ReadAscends
<1> QED BY <1>4, <1>5 DEF WalkInv

\* Calls under way when the LSNs begin at 1 again promise nothing any more.
LEMMA AnewWalk ==
    ASSUME WalkInv, Walked, rd.anew, rd'.todo \subseteq rd.todo
    PROVE  WalkInv'
<1>1. cur' = cur /\ rd'.anew /\ rd'.base = rd.base
  BY DEF Walked, dirVars
<1> QED BY <1>1 DEF WalkInv, TodoBegun

\* The highest record of the call is in a file of that time.
LEMMA HighestInBase ==
    ASSUME ScanInv, ~rd.anew, rd.pc # "idle", NEW s \in exists, Highest \in Range(recs[s])
    PROVE  s \in rd.base /\ Highest \in rd.atCall
<1>1. Highest > 0
  BY FileFacts DEF ScanInv, TypeOK
<1>2. Highest \in rd.atCall
  BY <1>1, HighestFacts DEF ScanInv
<1> QED BY <1>2 DEF ScanInv, SinceCall

\* The array has room for all names, so the listing is complete.
LEMMA ReadDirWalk ==
    ASSUME MaxSeg <= MaxFiles, ScanInv, WalkInv,
           NEW names \in SUBSET (rd.base \cup exists), ReadDir(names)
    PROVE  WalkInv'
<1>1. /\ Walked /\ rd.op # "count" /\ rd.pc = "list" /\ rd'.pc = "read"
      /\ rd'.todo = names /\ rd'.out = rd.out /\ names \subseteq Segment
  BY ReadDirWalked
<1>2. /\ rd'.op = rd.op /\ rd'.base = rd.base /\ rd'.atCall = rd.atCall
      /\ exists' = exists /\ recs' = recs /\ next' = next /\ cur' = cur
  BY <1>1 DEF Walked, dirVars
<1>3. rd.base \cap exists \subseteq names
  <2>1. CASE Cardinality(names) = MaxFiles
    <3>1. IsFiniteSet(Segment) /\ Cardinality(Segment) = MaxSeg
      BY FS_Interval, ScanAssumption DEF ScanAssumption, Segment
    <3>2. Cardinality(names) <= Cardinality(Segment)
          /\ (Cardinality(Segment) = Cardinality(names) => Segment = names)
      BY <1>1, <3>1, FS_Subset
    <3>3. names = Segment
      BY <2>1, <3>1, <3>2, ScanAssumption DEF ScanAssumption
    <3> QED BY <3>3, SegmentFacts DEF ScanInv
  <2> QED BY <2>1 DEF ReadDir, Listing
<1>4. TodoBegun'
  BY <1>1, <1>2 DEF ScanInv, DirOrdered, WalkInv, TodoBegun
<1> SUFFICES ASSUME ~rd.anew PROVE LastWalk' /\ ReadAscends' /\ DumpWalk' /\ VerifyWalk'
  BY <1>1, <1>4 DEF WalkInv, Walked
<1>5. \A s \in exists : \A l \in Range(recs[s]) : l \in rd.atCall => s \in names
  BY <1>1, <1>3 DEF ScanInv, SinceCall
<1>6. LastWalk'
  <2>1. \A s \in exists : Highest \in Range(recs[s]) => s \in names
    BY <1>1, <1>3, HighestInBase
  <2>2. Highest' = Highest
    BY <1>2 DEF Highest
  <2>3. rd.op = "last" => rd.out = <<>>
    BY <1>1 DEF WalkInv, LastWalk
  <2> QED BY <1>1, <1>2, <2>1, <2>2, <2>3 DEF LastWalk
<1>7. ReadAscends'
  <2> SUFFICES ASSUME rd.op \in {"verify", "dump"} PROVE ReadAscends'
    BY <1>2 DEF ReadAscends
  <2>1. rd'.out = <<>>
    BY <1>1 DEF WalkInv, ReadAscends
  <2>2. 1..Len(<<>>) = {}
    BY EmptyFacts
  <2> QED BY <1>1, <2>1, <2>2 DEF ReadAscends
<1>8. DumpWalk'
  BY <1>1, <1>2, <1>5 DEF DumpWalk
<1>9. VerifyWalk'
  <2> SUFFICES ASSUME rd.op = "verify" PROVE VerifyWalk'
    BY <1>2 DEF VerifyWalk
  <2>1. rd'.out = <<>> /\ 1..Len(<<>>) = {}
    BY <1>1, EmptyFacts DEF WalkInv, ReadAscends
  <2>2. ASSUME NEW s \in exists
        PROVE  s \in names \/ \A t \in names : t < s \/ (t \notin rd.base /\ s \notin rd.base)
    BY <1>1, <1>3 DEF ScanInv, SinceCall
  <2> QED BY <1>1, <1>2, <2>1, <2>2 DEF VerifyWalk
<1> QED BY <1>6, <1>7, <1>8, <1>9

\* A step of a walk that reads nothing: the files to be read get fewer, and those
\* left out are missing or empty.
LEMMA PassOverWalk ==
    ASSUME ScanInv, WalkInv, Walked, rd.pc = "read", rd'.pc = "read", rd'.out = rd.out,
           rd'.todo \subseteq rd.todo,
           \A s \in rd.todo \ rd'.todo : s \in exists => recs[s] = <<>>
    PROVE  WalkInv'
<1> SUFFICES ASSUME ~rd.anew PROVE WalkInv'
  BY AnewWalk
<1>1. /\ rd'.op = rd.op /\ rd'.base = rd.base /\ rd'.atCall = rd.atCall
      /\ exists' = exists /\ recs' = recs /\ next' = next /\ cur' = cur
  BY DEF Walked, dirVars
<1>2. ASSUME NEW s \in exists, NEW l \in Range(recs[s]), s \in rd.todo PROVE s \in rd'.todo
  BY <1>2, EmptyFacts
<1>3. TodoBegun'
  BY <1>1 DEF WalkInv, TodoBegun
<1>4. LastWalk'
  <2>1. Highest' = Highest
    BY <1>1 DEF Highest
  <2> QED BY <1>1, <1>2, <2>1 DEF WalkInv, LastWalk
<1>5. ReadAscends'
  BY <1>1 DEF WalkInv, ReadAscends
<1>6. DumpWalk'
  BY <1>1, <1>2 DEF WalkInv, DumpWalk
<1>7. VerifyWalk'
  <2>1. (OneNewFile' <=> OneNewFile) /\ (NothingRemoved' <=> NothingRemoved)
    BY <1>1, WalkedSince DEF OneNewFile, NothingRemoved
  <2> SUFFICES ASSUME rd.op = "verify", NothingRemoved, OneNewFile PROVE VerifyWalk'
    BY <1>1, <2>1 DEF VerifyWalk
  <2>2. \A i \in 1..Len(rd.out) : rd.out[i] = i
    BY DEF WalkInv, VerifyWalk
  <2>3. ASSUME NEW s \in exists, NEW l \in Range(recs[s]), Len(rd.out) < l
        PROVE  s \in rd'.todo \/ \A t \in rd'.todo : t < s \/ (t \notin rd.base /\ s \notin rd.base)
    <3>1. s \in rd.todo \/ \A t \in rd.todo : t < s \/ (t \notin rd.base /\ s \notin rd.base)
      BY <2>3 DEF WalkInv, VerifyWalk
    <3> QED BY <1>2, <3>1
  <2> QED BY <1>1, <2>2, <2>3 DEF VerifyWalk
<1> QED BY <1>3, <1>4, <1>5, <1>6, <1>7 DEF WalkInv

\* A file that was removed is passed over.
LEMMA SkipMissingWalk ==
    ASSUME ScanInv, WalkInv, SkipMissing
    PROVE  WalkInv'
<1>1. rd \in ReaderState
  BY DEF ScanInv, TypeOK
<1>2. Walked
  BY FileStepWalked
<1>3. /\ rd.pc = "read" /\ rd'.pc = "read" /\ rd'.out = rd.out
      /\ rd'.todo = rd.todo \ {NextFile} /\ NextFile \notin exists
  BY <1>1 DEF SkipMissing, AfterMissing, ReaderState
<1>4. \A s \in rd.todo \ rd'.todo : s \in exists => recs[s] = <<>>
  BY <1>3
<1>5. rd'.todo \subseteq rd.todo
  BY <1>3
<1> QED BY <1>2, <1>3, <1>4, <1>5, PassOverWalk

\* GetLastWrittenPartitionLSN finds the highest record of a file, torn or not.
LEMMA LastOfFileFacts ==
    ASSUME ScanInv, NEW s \in Segment
    PROVE  /\ Found(s) <=> recs[s] # <<>>
           /\ recs[s] # <<>> =>
                 LastOfFile(s) \in Range(recs[s]) /\ \A l \in Range(recs[s]) : l <= LastOfFile(s)
<1>1. recs \in [Segment -> Seq(Record)]
  BY DEF ScanInv, TypeOK
<1>2. \A l \in Range(recs[s]) : l \in Record /\ l \in Nat /\ l > 0
  BY <1>1, FileFacts
<1>3. CASE recs[s] = <<>>
  <2>1. Range(recs[s]) = {}
    BY <1>3, EmptyFacts
  <2>2. Max({0}) = 0
    <3>1. {0} \in SUBSET (0..0) /\ {0} # {}
      OBVIOUS
    <3> QED BY <3>1, MaxFacts
  <2>3. {0} \cup Range(recs[s]) = {0}
    BY <2>1
  <2>4. LastOfFile(s) = 0
    BY <1>3, <2>2, <2>3 DEF LastOfFile
  <2> QED BY <1>3, <2>4 DEF Found
<1>4. CASE recs[s] # <<>>
  <2>1. PICK k : k \in Range(recs[s])
    BY <1>1, <1>4, FileFacts
  <2>2. LastOfFile(s) \in Range(recs[s]) /\ \A l \in Range(recs[s]) : l <= LastOfFile(s)
    <3>1. CASE s \in torn
      <4> DEFINE S == {0} \cup Range(recs[s])
      <4>1. S \in SUBSET (0..MaxRec) /\ MaxRec \in Nat /\ S # {}
        BY <1>2, ScanAssumption DEF ScanAssumption, Record
      <4>2. Max(S) \in S /\ \A l \in S : l <= Max(S)
        BY <4>1, MaxFacts
      <4>3. Max(S) # 0
        BY <1>2, <2>1, <4>2
      <4> QED BY <3>1, <4>2, <4>3 DEF LastOfFile
    <3>2. CASE s \notin torn
      <4> DEFINE n == Len(recs[s])
      <4>1. n \in Nat /\ n # 0
        BY <1>1, <1>4, RangeFacts
      <4>2. n \in 1..n /\ 1 \in 1..n
        BY <4>1
      <4>3. LastOfFile(s) = recs[s][n]
        BY <1>4, <3>2 DEF LastOfFile, Last
      <4>4. recs[s][n] \in Range(recs[s]) /\ recs[s][1] \in Range(recs[s])
        BY <1>1, <4>2, FileFacts
      <4>5. ASSUME NEW l \in Range(recs[s]) PROVE l <= recs[s][n]
        <5>1. PICK i \in 1..n : recs[s][i] = l
          BY <1>1, FileFacts
        <5>2. l = recs[s][1] + i - 1 /\ recs[s][n] = recs[s][1] + n - 1
          BY <4>2, <5>1 DEF ScanInv, DirOrdered
        <5>3. recs[s][1] \in Int
          BY <1>2, <4>4
        <5> QED BY <4>1, <5>2, <5>3
      <4> QED BY <4>3, <4>4, <4>5
    <3> QED BY <3>1, <3>2
  <2> QED BY <1>2, <1>4, <2>2 DEF Found
<1> QED BY <1>3, <1>4

\* The first file with a record decides the result of "last".
LEMMA ReadLastWalk ==
    ASSUME ScanInv, WalkInv, ReadLast
    PROVE  WalkInv'
<1>1. rd \in ReaderState
  BY DEF ScanInv, TypeOK
<1>2. /\ Walked /\ rd.pc = "read" /\ rd.op = "last" /\ NextFile \in rd.todo
      /\ NextFile \in exists /\ rd.todo # {}
  BY FileStepWalked DEF ReadLast
<1>3. PICK u \in Segment : u = NextFile
  BY <1>2, SegmentFacts DEF ScanInv
<1>4. CASE ~Found(u)
  <2>1. rd'.pc = "read" /\ rd'.out = rd.out /\ rd'.todo = rd.todo \ {u}
    BY <1>1, <1>3, <1>4 DEF ReadLast, ReaderState
  <2>2. recs[u] = <<>>
    BY <1>4, LastOfFileFacts
  <2>3. \A s \in rd.todo \ rd'.todo : s \in exists => recs[s] = <<>>
    BY <2>1, <2>2
  <2>4. rd'.todo \subseteq rd.todo
    BY <2>1
  <2> QED BY <1>2, <2>1, <2>3, <2>4, PassOverWalk
<1>5. CASE Found(u)
  <2> DEFINE m == LastOfFile(u)
  <2>1. rd'.pc = "done" /\ rd'.out = <<m>> /\ rd'.todo = {}
    BY <1>1, <1>3, <1>5 DEF ReadLast, ReaderState
  <2> SUFFICES ASSUME ~rd.anew PROVE WalkInv'
    BY <1>2, <2>1, AnewWalk
  <2>2. m \in Range(recs[u]) /\ \A l \in Range(recs[u]) : l <= m
    BY <1>5, LastOfFileFacts
  <2> HIDE DEF m
  <2>3. <<m>> # <<>> /\ <<m>>[1] = m
    OBVIOUS
  <2>4. m < next
    BY <2>2 DEF ScanInv, DirOrdered
  <2>5. ASSUME Highest \in OnDisk PROVE Highest <= m
    <3>1. PICK s \in exists : Highest \in Range(recs[s])
      BY <2>5, OnDiskFacts
    <3>2. s \in rd.todo
      BY <1>2, <3>1 DEF WalkInv, LastWalk
    <3>3. s <= u /\ s \in Segment /\ s \in Int /\ u \in Int
      BY <1>2, <1>3, <3>2, NextFileFacts, SegmentFacts DEF ScanInv
    <3>4. CASE s = u
      BY <2>2, <3>1, <3>4
    <3>5. CASE s < u
      <4>1. Highest < m
        BY <2>2, <3>1, <3>3, <3>5 DEF ScanInv, DirOrdered
      <4>2. recs \in [Segment -> Seq(Record)]
        BY DEF ScanInv, TypeOK
      <4>3. Highest \in Int /\ m \in Int
        BY <2>2, <3>1, <3>3, <4>2, FileFacts
      <4> QED BY <4>1, <4>3
    <3> QED BY <3>3, <3>4, <3>5
  <2>6. /\ rd'.op = "last" /\ Highest' = Highest /\ OnDisk' = OnDisk /\ next' = next
    BY <1>2, WalkedSince DEF Walked, dirVars, Highest
  <2>7. LastWalk'
    BY <2>1, <2>3, <2>4, <2>5, <2>6 DEF LastWalk
  <2>8. cur' = cur /\ rd'.base = rd.base
    BY <1>2 DEF Walked, dirVars
  <2> QED BY <2>1, <2>6, <2>7, <2>8 DEF WalkInv, TodoBegun, ReadAscends, DumpWalk, VerifyWalk
<1> QED BY <1>4, <1>5

\* A file is read behind the lower ones: what has been read stays ascending, and
\* below the files that are left.
LEMMA ReadFileAscends ==
    ASSUME ScanInv, WalkInv, ~rd.anew, Walked, rd.pc = "read", rd.op \in {"verify", "dump"},
           rd.todo # {}, rd'.out = rd.out \o recs[NextFile],
           rd'.todo \subseteq rd.todo \ {NextFile}, rd'.pc = "read"
    PROVE  ReadAscends'
<1>1. rd'.op = rd.op /\ recs' = recs /\ next' = next
  BY DEF Walked, dirVars
<1>2. PICK u \in Segment : u = NextFile /\ u \in rd.todo
  BY NextFileFacts, SegmentFacts DEF ScanInv
<1>3. rd.out \in Seq(Record) /\ recs \in [Segment -> Seq(Record)] /\ recs[u] \in Seq(Record)
  BY SegmentFacts DEF ScanInv, TypeOK
<1> DEFINE a == rd.out
           b == recs[u]
           c == rd.out \o recs[u]
<1>4. /\ Len(a) \in Nat /\ Len(b) \in Nat /\ Len(c) = Len(a) + Len(b)
      /\ \A i \in 1..Len(a) : c[i] = a[i]
      /\ \A i \in 1..Len(c) : i \in 1..Len(a) \/ (i - Len(a) \in 1..Len(b) /\ c[i] = b[i - Len(a)])
  BY <1>3, RangeFacts, ConcatFacts
<1>5. /\ \A i, j \in 1..Len(a) : i < j => a[i] < a[j]
      /\ \A i \in 1..Len(a) : a[i] < next
      /\ \A i \in 1..Len(a) : \A l \in Range(b) : a[i] < l
  BY <1>2 DEF WalkInv, ReadAscends
<1>6. /\ \A i \in 1..Len(b) : b[i] \in Range(b) /\ b[i] = b[1] + i - 1 /\ b[i] < next
      /\ \A i \in 1..Len(b) : b[i] \in Int
  BY <1>3, FileFacts DEF ScanInv, DirOrdered
<1>7. c = rd'.out
  BY <1>2
<1>8. \A s \in rd'.todo : s \in rd.todo /\ s \in Segment /\ u < s
  <2>1. \A s \in rd.todo : u <= s /\ s \in Int /\ s \in Segment
    BY <1>2, NextFileFacts, SegmentFacts DEF ScanInv
  <2>2. u \in Int
    BY SegmentFacts DEF ScanInv
  <2> QED BY <1>2, <2>1, <2>2
<1>9. \A s \in rd'.todo : \A l \in Range(recs[s]) :
          (\A i \in 1..Len(a) : a[i] < l) /\ (\A m \in Range(b) : m < l)
  BY <1>8 DEF WalkInv, ReadAscends, ScanInv, DirOrdered
<1> HIDE DEF a, b, c
<1>10. ASSUME NEW i \in 1..Len(c), NEW j \in 1..Len(c), i < j PROVE c[i] < c[j]
  <2>1. CASE j \in 1..Len(a)
    <3>1. i \in 1..Len(a)
      BY <1>4, <1>10, <2>1
    <3> QED BY <1>4, <1>5, <1>10, <2>1, <3>1
  <2>2. CASE i \in 1..Len(a) /\ j \notin 1..Len(a)
    BY <1>4, <1>5, <1>6, <2>2
  <2>3. CASE i \notin 1..Len(a) /\ j \notin 1..Len(a)
    <3>1. /\ i - Len(a) \in 1..Len(b) /\ c[i] = b[i - Len(a)]
          /\ j - Len(a) \in 1..Len(b) /\ c[j] = b[j - Len(a)]
      BY <1>4, <2>3
    <3>2. c[i] = b[1] + (i - Len(a)) - 1 /\ c[j] = b[1] + (j - Len(a)) - 1
      BY <1>6, <3>1
    <3>3. b[1] \in Int
      <4>1. 1 \in 1..Len(b)
        BY <1>4, <3>1
      <4> QED BY <1>6, <4>1
    <3> QED BY <1>4, <1>10, <3>2, <3>3
  <2>4. CASE i \notin 1..Len(a) /\ j \in 1..Len(a)
    BY <1>4, <1>10, <2>4
  <2> QED BY <2>1, <2>2, <2>3, <2>4
<1>11. \A i \in 1..Len(c) : c[i] < next
  BY <1>4, <1>5, <1>6
<1>12. ASSUME NEW s \in rd'.todo, NEW i \in 1..Len(c), NEW l \in Range(recs[s]) PROVE c[i] < l
  BY <1>4, <1>6, <1>9
<1> QED BY <1>1, <1>7, <1>10, <1>11, <1>12 DEF ReadAscends

\* A dump reads the next file.
LEMMA ReadDumpWalk ==
    ASSUME ScanInv, WalkInv, ReadDump
    PROVE  WalkInv'
<1>1. rd \in ReaderState
  BY DEF ScanInv, TypeOK
<1>2. /\ Walked /\ rd.pc = "read" /\ rd.op = "dump" /\ NextFile \in rd.todo
      /\ NextFile \in exists /\ rd.todo # {}
  BY FileStepWalked DEF ReadDump
<1>3. rd' = [rd EXCEPT !.out = rd.out \o recs[NextFile], !.todo = rd.todo \ {NextFile}]
  BY DEF ReadDump
<1>4. /\ rd'.out = rd.out \o recs[NextFile] /\ rd'.todo = rd.todo \ {NextFile}
      /\ rd'.pc = "read" /\ rd'.op = "dump"
  BY <1>1, <1>2, <1>3 DEF ReaderState
<1>5. rd.op \in {"verify", "dump"} /\ rd'.todo \subseteq rd.todo \ {NextFile}
  BY <1>2, <1>4
<1> SUFFICES ASSUME ~rd.anew PROVE WalkInv'
  BY <1>2, <1>5, AnewWalk
<1>6. ReadAscends'
  BY <1>2, <1>4, <1>5, ReadFileAscends
<1>7. /\ exists' = exists /\ recs' = recs /\ cur' = cur /\ rd'.atCall = rd.atCall
      /\ rd'.base = rd.base
  BY <1>2 DEF Walked, dirVars
<1>8. Range(rd'.out) = Range(rd.out) \cup Range(recs[NextFile])
  <2>1. rd.out \in Seq(Record) /\ recs[NextFile] \in Seq(Record)
    BY <1>2, SegmentFacts DEF ScanInv, TypeOK
  <2> QED BY <1>4, <2>1, ConcatFacts
<1>9. DumpWalk'
  <2>1. ASSUME NEW s \in exists, NEW l \in Range(recs[s]), l \in rd.atCall
        PROVE  s \in rd'.todo \/ l \in Range(rd'.out)
    <3>1. s \in rd.todo \/ l \in Range(rd.out)
      BY <1>2, <2>1 DEF WalkInv, DumpWalk
    <3> QED BY <1>4, <1>8, <3>1
  <2> QED BY <1>4, <1>7, <2>1 DEF DumpWalk
<1>10. TodoBegun'
  BY <1>4, <1>7 DEF WalkInv, TodoBegun
<1> QED BY <1>4, <1>6, <1>9, <1>10 DEF WalkInv, LastWalk, VerifyWalk

\* Without removals, and with one new file at most, the next file begins with the
\* record that follows those read.
LEMMA NextIsExpected ==
    ASSUME ScanInv, WalkInv, ~rd.anew, rd.pc = "read", rd.op = "verify", rd.todo # {},
           NextFile \in exists, NothingRemoved, OneNewFile
    PROVE  \A i \in 1..Len(recs[NextFile]) : recs[NextFile][i] = Len(rd.out) + i
<1>1. PICK u \in Segment : u = NextFile /\ u \in rd.todo /\ u \in exists
  BY NextFileFacts, SegmentFacts DEF ScanInv
<1> DEFINE b == recs[u]
           k == Len(rd.out)
<1>2. rd.out \in Seq(Record) /\ recs \in [Segment -> Seq(Record)] /\ k \in Nat
  BY SegmentFacts DEF ScanInv, TypeOK
<1>3. /\ \A i \in 1..Len(b) : b[i] \in Range(b) /\ b[i] = b[1] + i - 1 /\ b[i] < next
      /\ \A l \in Range(b) : l \in Nat /\ l > 0 /\ \E i \in 1..Len(b) : b[i] = l
      /\ Len(b) \in Nat
  <2>1. \A i \in 1..Len(b) : b[i] \in Range(b)
    BY <1>2, FileFacts
  <2>2. \A i \in 1..Len(b) : b[i] = b[1] + i - 1 /\ b[i] < next
    BY <2>1 DEF ScanInv, DirOrdered
  <2>3. \A l \in Range(b) : l \in Nat /\ l > 0
    BY <1>2, FileFacts
  <2>4. (\A l \in Range(b) : \E i \in 1..Len(b) : b[i] = l) /\ Len(b) \in Nat
    BY <1>2, FileFacts
  <2> HIDE DEF b
  <2> QED BY <2>1, <2>2, <2>3, <2>4
<1>4. \A i \in 1..k : rd.out[i] = i /\ \A l \in Range(b) : rd.out[i] < l
  BY <1>1 DEF WalkInv, VerifyWalk, ReadAscends
<1> SUFFICES ASSUME Len(b) # 0 PROVE \A i \in 1..Len(b) : b[i] = k + i
  BY <1>1, <1>3
<1>5. 1 \in 1..Len(b)
  BY <1>3
<1>6. b[1] \in Nat /\ b[1] > 0 /\ b[1] < next /\ b[1] \in Range(b)
  BY <1>3, <1>5
<1>7. k < b[1]
  <2>1. CASE k = 0
    BY <1>6, <2>1
  <2>2. CASE k # 0
    <3>1. k \in 1..k
      BY <1>2, <2>2
    <3> QED BY <1>4, <1>6, <3>1
  <2> QED BY <2>1, <2>2
<1>8. \A l \in Range(b) : b[1] <= l
  <2> TAKE l \in Range(b)
  <2>1. PICK i \in 1..Len(b) : b[i] = l /\ b[i] = b[1] + i - 1
    BY <1>3
  <2> HIDE DEF b
  <2> QED BY <1>3, <1>6, <2>1
<1>9. b[1] = k + 1
  <2> SUFFICES ASSUME b[1] # k + 1 PROVE FALSE
    OBVIOUS
  <2>1. k + 1 < b[1] /\ k + 1 \in 1..next - 1
    BY <1>2, <1>6, <1>7, SegmentFacts, SMTT(30) DEF ScanInv
  <2>2. k + 1 \in OnDisk
    BY <2>1 DEF NothingRemoved
  <2>3. PICK s \in exists : k + 1 \in Range(recs[s])
    BY <2>2, OnDiskFacts
  <2>4. s \in Segment /\ s \in Int /\ u \in Int
    BY SegmentFacts DEF ScanInv
  <2>5. ~(u < s)
    <3>1. u < s => b[1] < k + 1
      BY <1>6, <2>3, <2>4 DEF ScanInv, DirOrdered
    <3> QED BY <1>2, <1>6, <2>1, <3>1
  <2>6. u # s
    <3>1. u = s => b[1] <= k + 1
      BY <1>8, <2>3
    <3> QED BY <1>2, <1>6, <2>1, <3>1
  <2>7. k < k + 1
    BY <1>2
  <2>8. s \in rd.todo \/ \A t \in rd.todo : t < s \/ (t \notin rd.base /\ s \notin rd.base)
    BY <2>3, <2>7 DEF WalkInv, VerifyWalk
  <2>9. CASE s \in rd.todo
    <3>1. u <= s
      BY <1>1, <2>9, NextFileFacts
    <3> QED BY <2>4, <2>5, <2>6, <3>1
  <2>10. CASE u \notin rd.base /\ s \notin rd.base
    <3>1. recs[u] # <<>> /\ recs[s] # <<>>
      BY <1>6, <2>3, EmptyFacts
    <3> QED BY <1>1, <2>6, <2>10, <3>1 DEF OneNewFile
  <2> QED BY <1>1, <2>5, <2>8, <2>9, <2>10
<1> QED BY <1>2, <1>3, <1>9

\* verify_partition_wal() reads the next file.
LEMMA ReadVerifyWalk ==
    ASSUME ScanInv, WalkInv, ReadVerify
    PROVE  WalkInv'
<1>1. rd \in ReaderState
  BY DEF ScanInv, TypeOK
<1>2. /\ Walked /\ rd.pc = "read" /\ rd.op = "verify" /\ NextFile \in rd.todo
      /\ NextFile \in exists /\ rd.todo # {}
  BY FileStepWalked DEF ReadVerify
<1>3. PICK todo \in SUBSET (rd.todo \ {NextFile}) :
        /\ rd' = [rd EXCEPT !.out = rd.out \o recs[NextFile], !.todo = todo]
        /\ Expected(NextFile) => todo = rd.todo \ {NextFile}
  <2> DEFINE rest == IF Expected(NextFile) THEN rd.todo \ {NextFile} ELSE {}
  <2>1. rest \in SUBSET (rd.todo \ {NextFile}) /\ (Expected(NextFile) => rest = rd.todo \ {NextFile})
    OBVIOUS
  <2>2. rd' = [rd EXCEPT !.out = rd.out \o recs[NextFile], !.todo = rest]
    BY DEF ReadVerify
  <2> HIDE DEF rest
  <2> QED BY <2>1, <2>2
<1>4. /\ rd'.out = rd.out \o recs[NextFile] /\ rd'.todo = todo
      /\ rd'.pc = "read" /\ rd'.op = "verify"
  BY <1>1, <1>2, <1>3 DEF ReaderState
<1>5. rd.op \in {"verify", "dump"} /\ rd'.todo \subseteq rd.todo \ {NextFile}
  BY <1>2, <1>4
<1> SUFFICES ASSUME ~rd.anew PROVE WalkInv'
  BY <1>2, <1>5, AnewWalk
<1>6. ReadAscends'
  BY <1>2, <1>4, <1>5, ReadFileAscends
<1>7. /\ exists' = exists /\ recs' = recs /\ cur' = cur /\ rd'.base = rd.base
  BY <1>2 DEF Walked, dirVars
<1>8. TodoBegun'
  BY <1>5, <1>7 DEF WalkInv, TodoBegun
<1>9. VerifyWalk'
  <2>1. (OneNewFile' <=> OneNewFile) /\ (NothingRemoved' <=> NothingRemoved)
    BY <1>2, <1>7, WalkedSince DEF OneNewFile, NothingRemoved, Walked, dirVars
  <2> SUFFICES ASSUME NothingRemoved, OneNewFile PROVE VerifyWalk'
    BY <1>7, <2>1 DEF VerifyWalk
  <2> DEFINE a == rd.out
             b == recs[NextFile]
             c == rd.out \o recs[NextFile]
  <2>2. \A i \in 1..Len(b) : b[i] = Len(a) + i
    BY <1>2, NextIsExpected
  <2>3. a \in Seq(Record) /\ b \in Seq(Record)
    BY <1>2, SegmentFacts DEF ScanInv, TypeOK
  <2>4. /\ Len(a) \in Nat /\ Len(b) \in Nat /\ Len(c) = Len(a) + Len(b)
        /\ \A i \in 1..Len(a) : c[i] = a[i]
        /\ \A i \in 1..Len(c) : i \in 1..Len(a) \/ (i - Len(a) \in 1..Len(b) /\ c[i] = b[i - Len(a)])
    <3>1. Len(a) \in Nat /\ Len(b) \in Nat
      BY <2>3
    <3> DEFINE Joined(x, y, z) ==
              /\ Len(z) = Len(x) + Len(y)
              /\ \A i \in 1..Len(x) : z[i] = x[i]
              /\ \A i \in 1..Len(z) : i \in 1..Len(x) \/ (i - Len(x) \in 1..Len(y) /\ z[i] = y[i - Len(x)])
    <3>2. ASSUME NEW x \in Seq(Record), NEW y \in Seq(Record) PROVE Joined(x, y, x \o y)
      BY ConcatFacts
    <3> HIDE DEF Joined
    <3>3. Joined(a, b, c)
      BY <2>3, <3>2
    <3> QED BY <3>1, <3>3 DEF Joined
  <2>5. \A i \in 1..Len(a) : a[i] = i
    BY <1>2 DEF WalkInv, VerifyWalk
  <2>6. \A l \in Range(b) : l <= Len(a) + Len(b) /\ l \in Int
    <3>1. \A l \in Range(b) : \E i \in 1..Len(b) : b[i] = l
      BY <2>3, RangeFacts
    <3> HIDE DEF a, b
    <3> QED BY <2>2, <2>4, <3>1
  <2>7. \A i \in 1..Len(c) : c[i] = i
    <3> HIDE DEF a, b, c
    <3> TAKE i \in 1..Len(c)
    <3>1. CASE i \in 1..Len(a)
      BY <2>4, <2>5, <3>1
    <3>2. CASE i \notin 1..Len(a)
      <4>1. i - Len(a) \in 1..Len(b) /\ c[i] = b[i - Len(a)]
        BY <2>4, <3>2
      <4>2. c[i] = Len(a) + (i - Len(a))
        BY <2>2, <4>1
      <4> QED BY <2>4, <4>2
    <3> QED BY <3>1, <3>2
  <2>8. todo = rd.todo \ {NextFile}
    BY <1>3, <2>2 DEF Expected
  <2>9. ASSUME NEW s \in exists, NEW l \in Range(recs[s]), Len(c) < l
        PROVE  s \in todo \/ \A t \in todo : t < s \/ (t \notin rd.base /\ s \notin rd.base)
    <3>1. l \in Nat
      BY FileFacts DEF ScanInv, TypeOK
    <3>2. Len(a) < l /\ ~(l <= Len(a) + Len(b))
      <4> HIDE DEF a, b, c
      <4> QED BY <2>4, <2>9, <3>1
    <3>3. s # NextFile
      BY <2>6, <3>2
    <3>4. s \in rd.todo \/ \A t \in rd.todo : t < s \/ (t \notin rd.base /\ s \notin rd.base)
      BY <1>2, <3>2 DEF WalkInv, VerifyWalk
    <3> QED BY <2>8, <3>3, <3>4
  <2> QED BY <1>4, <1>7, <2>7, <2>9 DEF VerifyWalk
<1> QED BY <1>4, <1>6, <1>8, <1>9 DEF WalkInv, LastWalk, DumpWalk

\* A walk ends when no file is left.
LEMMA EndOfWalkWalk ==
    ASSUME ScanInv, WalkInv, EndOfWalk
    PROVE  WalkInv'
<1>1. /\ Walked /\ rd.pc = "read" /\ rd'.pc = "done"
      /\ rd'.todo = rd.todo /\ rd'.out = rd.out
  BY EndOfWalkWalked
<1>2. /\ rd'.op = rd.op /\ rd'.base = rd.base /\ rd'.atCall = rd.atCall
      /\ exists' = exists /\ recs' = recs /\ next' = next /\ cur' = cur
  BY <1>1 DEF Walked, dirVars
<1> SUFFICES ASSUME ~rd.anew PROVE WalkInv'
  BY <1>1, AnewWalk
<1>3. OnDisk' = OnDisk /\ Highest' = Highest
  BY <1>1, <1>2, WalkedSince DEF Highest
<1>4. rd.op # "count" => rd.todo = {}
  BY DEF EndOfWalk
<1>5. LastWalk'
  <2> SUFFICES ASSUME rd.op = "last" PROVE LastWalk'
    BY <1>2 DEF LastWalk
  <2>1. rd.out = <<>> /\ \A s \in exists : Highest \notin Range(recs[s])
    BY <1>1, <1>4 DEF WalkInv, LastWalk
  <2> QED BY <1>1, <1>3, <2>1, OnDiskFacts DEF LastWalk
<1>6. DumpWalk'
  <2> SUFFICES ASSUME rd.op = "dump" PROVE DumpWalk'
    BY <1>2 DEF DumpWalk
  <2>1. \A s \in exists : \A l \in Range(recs[s]) : l \in rd.atCall => l \in Range(rd.out)
    BY <1>1, <1>4 DEF WalkInv, DumpWalk
  <2> QED BY <1>1, <1>2, <1>3, <2>1, OnDiskFacts DEF DumpWalk
<1>7. TodoBegun' /\ ReadAscends'
  BY <1>1, <1>2 DEF WalkInv, TodoBegun, ReadAscends
<1>8. VerifyWalk'
  <2>1. (OneNewFile' <=> OneNewFile) /\ (NothingRemoved' <=> NothingRemoved)
    BY <1>2, <1>3 DEF OneNewFile, NothingRemoved
  <2> QED BY <1>1, <1>2, <2>1 DEF WalkInv, VerifyWalk
<1> QED BY <1>5, <1>6, <1>7, <1>8 DEF WalkInv

\* A count leaves the walks alone.
LEMMA CountFileWalk ==
    ASSUME ScanInv, WalkInv, NEW s \in Segment, CountFile(s)
    PROVE  WalkInv'
<1>1. rd'.op = "count" /\ rd'.todo = rd.todo /\ cur' = cur
  BY CountFileScan DEF CountFile, dirVars
<1>2. rd'.base = rd.base
  BY DEF CountFile, ScanInv, TypeOK, ReaderState
<1> QED BY <1>1, <1>2 DEF WalkInv, TodoBegun, LastWalk, ReadAscends, DumpWalk, VerifyWalk

\* Every step preserves WalkInv.
LEMMA WalkStep ==
    ASSUME MaxSeg <= MaxFiles, ScanInv, WalkInv, [Next]_vars
    PROVE  WalkInv'
<1>1. CASE FlushPartitionWALWriter \/ \E s \in Segment : OpenWriterSegment(s) \/ Unlink(s)
  <2>1. TypeOK' /\ Grown
    BY <1>1, OpenSegmentStep, FlushStep, LostFlushStep, UnlinkStep DEF ScanInv
  <2> QED BY <2>1, GrownWalk
<1>2. CASE (\E op \in Op : OpenDir(op)) \/ Return
  BY <1>2, OpenDirWalk, IdleWalk DEF Return
<1>3. ASSUME NEW names \in SUBSET (rd.base \cup exists), ReadDir(names) PROVE WalkInv'
  BY <1>3, ReadDirWalk
<1>4. CASE SkipMissing
  BY <1>4, SkipMissingWalk
<1>5. CASE ReadLast
  BY <1>5, ReadLastWalk
<1>6. CASE ReadVerify
  BY <1>6, ReadVerifyWalk
<1>7. CASE ReadDump
  BY <1>7, ReadDumpWalk
<1>8. ASSUME NEW s \in Segment, CountFile(s) PROVE WalkInv'
  BY <1>8, CountFileWalk
<1>9. CASE EndOfWalk
  BY <1>9, EndOfWalkWalk
<1>10. CASE UNCHANGED vars
  <2>1. rd' = rd /\ exists' = exists /\ recs' = recs /\ torn' = torn
        /\ cur' = cur /\ next' = next
    BY <1>10 DEF vars
  <2>2. OnDisk' = OnDisk /\ Highest' = Highest /\ (OneNewFile' <=> OneNewFile)
        /\ (NothingRemoved' <=> NothingRemoved)
    BY <2>1 DEF OnDisk, Highest, OneNewFile, NothingRemoved
  <2> QED BY <2>1, <2>2 DEF WalkInv, TodoBegun, LastWalk, ReadAscends, DumpWalk, VerifyWalk
<1>11. ASSUME NEW s \in Segment, StartAnew(s) PROVE WalkInv'
  BY <1>11, StartAnewScan, SegmentFacts DEF ScanInv, WalkInv, TodoBegun
<1>12. CASE Restart
  BY <1>12, IdleWalk, RestartScan
<1> QED BY <1>1, <1>2, <1>3, <1>4, <1>5, <1>6, <1>7, <1>8, <1>9, <1>10, <1>11, <1>12
        DEF Next, ReaderStep

\* With room for the names of all files, WalkInv holds in every reachable state.
THEOREM WalkInvariant ==
    ASSUME MaxSeg <= MaxFiles
    PROVE  Spec => [](ScanInv /\ WalkInv)
<1>1. Init => ScanInv /\ WalkInv
  BY ScanInit
<1>2. ScanInv /\ WalkInv /\ [Next]_vars => (ScanInv /\ WalkInv)'
  BY ScanStep, WalkStep
<1> QED BY <1>1, <1>2, PTL DEF Spec

\* GetLastWrittenPartitionLSN returns a value that was the highest LSN on disk at
\* some moment of the call, whatever the demux appends, the files it creates, torn
\* tails and the files that are removed, unless that of the highest record at the
\* call is among them.
THEOREM LastAlwaysLinearizable ==
    ASSUME MaxSeg <= MaxFiles
    PROVE  Spec => []LastLinearizable
<1>1. ASSUME ScanInv, WalkInv PROVE LastLinearizable
  <2> DEFINE result == IF rd.out = <<>> THEN 0 ELSE rd.out[1]
  <2> SUFFICES ASSUME rd.pc = "done", rd.op = "last", ~rd.anew, Highest \in {0} \cup OnDisk
               PROVE  result \in Highest..next - 1
    BY DEF LastLinearizable, Returned, Highest
  <2>1. /\ Highest \in OnDisk => rd.out # <<>> /\ Highest <= rd.out[1]
        /\ rd.out # <<>> => rd.out[1] < next
    BY <1>1 DEF WalkInv, LastWalk
  <2>2. next \in Nat /\ next >= 1 /\ Highest \in Nat
    <3>1. Highest \in {0} \cup rd.atCall
      BY <1>1, HighestFacts DEF ScanInv
    <3> QED BY <1>1, <3>1, SegmentFacts DEF ScanInv
  <2>3. CASE rd.out = <<>>
    BY <2>1, <2>2, <2>3
  <2>4. CASE rd.out # <<>>
    <3>1. rd.out \in Seq(Record)
      BY <1>1, SegmentFacts DEF ScanInv
    <3>2. rd.out[1] \in Record
      BY <2>4, <3>1, RangeFacts
    <3>3. rd.out[1] \in Nat
      BY <3>2 DEF Record
    <3> QED BY <2>1, <2>2, <2>4, <3>3
  <2> QED BY <2>3, <2>4
<1> QED BY <1>1, WalkInvariant, PTL

\* check_partition_wal() and read_all_headers() return records in strictly
\* ascending order, and every record that was there during the whole call.
THEOREM DumpAlwaysComplete ==
    ASSUME MaxSeg <= MaxFiles
    PROVE  Spec => []DumpComplete
<1>1. ASSUME ScanInv, WalkInv PROVE DumpComplete
  BY <1>1 DEF WalkInv, ReadAscends, DumpWalk, DumpComplete, Returned
<1> QED BY <1>1, WalkInvariant, PTL

\* verify_partition_wal() raises no false alarm while the demux appends and
\* begins a new file, unless records were removed.
THEOREM VerifyNeverFalseAlarm ==
    ASSUME MaxSeg <= MaxFiles
    PROVE  Spec => []VerifyNoFalseAlarm
<1>1. ASSUME ScanInv, WalkInv PROVE VerifyNoFalseAlarm
  <2> SUFFICES ASSUME rd.pc = "done", rd.op = "verify", ~rd.anew, NothingRemoved,
                      Cardinality(exists \ rd.base) <= 1
               PROVE  \A i \in 1..Len(rd.out) : rd.out[i] = i
    BY DEF VerifyNoFalseAlarm, Returned
  <2>1. IsFiniteSet(Segment)
    BY FS_Interval, ScanAssumption DEF ScanAssumption, Segment
  <2>2. ASSUME NEW s \in exists \ rd.base, NEW t \in exists \ rd.base PROVE s = t
    <3> SUFFICES ASSUME s # t PROVE FALSE
      OBVIOUS
    <3>1. IsFiniteSet(exists \ rd.base)
      <4>1. exists \ rd.base \in SUBSET Segment
        BY <1>1, SegmentFacts DEF ScanInv
      <4> QED BY <2>1, <4>1, FS_Subset
    <3>2. IsFiniteSet({s}) /\ Cardinality({s}) = 1
      BY FS_Singleton
    <3>3. Cardinality({s} \cup {t}) = 2
      <4>1. Cardinality({s} \cup {t}) = Cardinality({s}) + 1
        BY <3>2, FS_AddElement
      <4> QED BY <3>2, <4>1
    <3>4. {s} \cup {t} \in SUBSET (exists \ rd.base)
      OBVIOUS
    <3>5. Cardinality({s} \cup {t}) <= Cardinality(exists \ rd.base)
          /\ Cardinality(exists \ rd.base) \in Nat
      BY <3>1, <3>4, FS_Subset, FS_CardinalityType
    <3> QED BY <3>3, <3>5
  <2>3. OneNewFile
    BY <2>2 DEF OneNewFile
  <2> QED BY <1>1, <2>3 DEF WalkInv, VerifyWalk
<1> QED BY <1>1, WalkInvariant, PTL
=============================================================================

---------------------- MODULE PartitionWalWriterProofs ----------------------
(***************************************************************************)
(* Proofs about PartitionWalWriter, for any number of headers, failures    *)
(* and crashes and any size of the buffer and of a segment.                *)
(***************************************************************************)
EXTENDS PartitionWalWriter, BasicLemmas

(***************************************************************************)
(* The files                                                               *)
(***************************************************************************)

Files == [Segment -> Seq(Lsn)]

\* NonEmpty, Stored and GetLastWrittenPartitionLSN of files f.
NonEmptyOf(f) == {s \in Segment : f[s] # <<>>}
StoredOf(f) == UNION {Range(f[s]) : s \in Segment}
LastOf(f) == IF NonEmptyOf(f) = {} THEN 0 ELSE Last(f[Max(NonEmptyOf(f))])

\* Every file ascends; every file holds headers of its own segment.
Ascends(f) ==
    \A s \in Segment : \A i, j \in 1..Len(f[s]) : i < j => f[s][i] < f[s][j]
InPlace(f) == \A s \in Segment : \A i \in 1..Len(f[s]) : FileSeg(f[s][i]) = s

\* No file above that of segment s has a record.
AtTop(f, s) == \A u \in NonEmptyOf(f) : u <= s

\* g is f with records t appended to the file of segment s.
Appended(f, g, s, t) == g[s] = f[s] \o t /\ \A u \in Segment \ {s} : g[u] = f[u]

\* The constants are numbers.
LEMMA SizeFacts ==
    /\ MaxLsn \in Nat \ {0} /\ PerSegment \in Nat \ {0} /\ BufferSize \in Nat \ {0}
    /\ MaxOvertake \in Nat /\ MaxFailures \in Nat /\ MaxCrashes \in Nat
BY SizeAssumption DEF SizeAssumption

\* Every LSN has a segment, and segments follow the LSNs.
LEMMA FileSegFacts ==
    /\ FileSeg(MaxLsn) \in Nat \ {0}
    /\ \A l \in Lsn : FileSeg(l) \in Segment
    /\ \A l, m \in Lsn : l <= m => FileSeg(l) <= FileSeg(m)
<1>1. PerSegment \in Nat \ {0} /\ MaxLsn \in Nat \ {0}
  BY SizeFacts
<1>2. \A l \in Lsn : l \in Nat /\ l - 1 \in Nat /\ l <= MaxLsn
  BY <1>1 DEF Lsn
<1>3. MaxLsn \in Lsn
  BY <1>1 DEF Lsn
<1>4. ASSUME NEW l \in Lsn, NEW m \in Lsn, l <= m
      PROVE  FileSeg(l) \in Nat \ {0} /\ FileSeg(m) \in Nat \ {0} /\ FileSeg(l) <= FileSeg(m)
  <2>1. l - 1 \in Nat /\ m - 1 \in Nat /\ l - 1 <= m - 1 /\ m - 1 <= m - 1
    BY <1>2, <1>4
  <2>2. /\ (l - 1) \div PerSegment \in Nat /\ (m - 1) \div PerSegment \in Nat
        /\ (l - 1) \div PerSegment <= (m - 1) \div PerSegment
    BY <1>1, <2>1, DivMonotone
  <2> QED BY <2>2 DEF FileSeg
<1>5. \A l \in Lsn : FileSeg(l) \in Nat \ {0} /\ FileSeg(MaxLsn) \in Nat \ {0} /\ FileSeg(l) <= FileSeg(MaxLsn)
  BY <1>2, <1>3, <1>4
<1>6. FileSeg(MaxLsn) \in Nat \ {0} /\ \A l \in Lsn : FileSeg(l) \in Segment
  BY <1>3, <1>5 DEF Segment
<1> QED BY <1>4, <1>6

\* A non-empty set of segments has a greatest element.
LEMMA SegmentMax ==
    ASSUME NEW S \in SUBSET Segment, S # {}
    PROVE  Max(S) \in S /\ \A s \in S : s <= Max(S)
<1>1. FileSeg(MaxLsn) \in Nat
  BY FileSegFacts
<1>2. S \in SUBSET (0..FileSeg(MaxLsn))
  BY <1>1 DEF Segment
<1> QED BY <1>1, <1>2, MaxFacts

\* The records of the files, and the last one.
LEMMA FilesFacts ==
    ASSUME NEW f \in Files
    PROVE  /\ \A l : l \in StoredOf(f) <=> \E s \in Segment : \E i \in 1..Len(f[s]) : f[s][i] = l
           /\ StoredOf(f) \in SUBSET Lsn
           /\ LastOf(f) \in {0} \cup Lsn
           /\ LastOf(f) = 0 => StoredOf(f) = {} /\ NonEmptyOf(f) = {}
           /\ LastOf(f) # 0 => LastOf(f) \in StoredOf(f)
           /\ InPlace(f) => \A s \in NonEmptyOf(f) : LastOf(f) \in Lsn /\ s <= FileSeg(LastOf(f))
<1>1. \A s \in Segment : f[s] \in Seq(Lsn)
  BY DEF Files
<1>2. ASSUME NEW l
      PROVE  l \in StoredOf(f) <=> \E s \in Segment : \E i \in 1..Len(f[s]) : f[s][i] = l
  <2>1. \A s \in Segment : l \in Range(f[s]) <=> \E i \in 1..Len(f[s]) : f[s][i] = l
    BY <1>1, RangeFacts
  <2> QED BY <2>1 DEF StoredOf
<1>3. StoredOf(f) \in SUBSET Lsn
  <2>1. \A s \in Segment : Range(f[s]) \in SUBSET Lsn
    BY <1>1, RangeFacts
  <2> QED BY <2>1 DEF StoredOf
<1>4. 0 \notin Lsn
  BY SizeFacts DEF Lsn
<1>5. CASE NonEmptyOf(f) = {}
  <2>1. LastOf(f) = 0
    BY <1>5 DEF LastOf
  <2>2. \A s \in Segment : f[s] = <<>>
    BY <1>5 DEF NonEmptyOf
  <2>3. StoredOf(f) = {}
    BY <2>2, EmptyFacts DEF StoredOf
  <2> QED BY <1>2, <1>3, <1>5, <2>1, <2>3
<1>6. CASE NonEmptyOf(f) # {}
  <2> DEFINE t == Max(NonEmptyOf(f))
  <2>1. t \in NonEmptyOf(f) /\ \A s \in NonEmptyOf(f) : s <= t
    BY <1>6, SegmentMax DEF NonEmptyOf
  <2>2. t \in Segment /\ f[t] # <<>> /\ f[t] \in Seq(Lsn)
    BY <1>1, <2>1 DEF NonEmptyOf
  <2>3. Len(f[t]) \in 1..Len(f[t]) /\ f[t][Len(f[t])] \in Lsn
    BY <2>2, RangeFacts
  <2>4. LastOf(f) = f[t][Len(f[t])]
    BY <1>6 DEF LastOf, Last
  <2>5. LastOf(f) \in StoredOf(f)
    BY <1>2, <2>2, <2>3, <2>4
  <2>6. InPlace(f) => FileSeg(LastOf(f)) = t
    BY <2>2, <2>3, <2>4 DEF InPlace
  <2> QED BY <1>2, <1>3, <1>4, <2>1, <2>3, <2>4, <2>5, <2>6
<1> QED BY <1>5, <1>6

\* Records t are appended to file s, above which all files are empty.
LEMMA AppendAtTop ==
    ASSUME NEW f \in Files, NEW s \in Segment, NEW t \in Seq(Lsn), t # <<>>,
           AtTop(f, s), NEW g \in Files, Appended(f, g, s, t)
    PROVE  /\ StoredOf(g) = StoredOf(f) \cup Range(t)
           /\ NonEmptyOf(g) = NonEmptyOf(f) \cup {s}
           /\ LastOf(g) = t[Len(t)]
<1>1. \A u \in Segment : f[u] \in Seq(Lsn)
  BY DEF Files
<1>2. g[s] = f[s] \o t /\ \A u \in Segment \ {s} : g[u] = f[u]
  BY DEF Appended
<1>3. /\ g[s] \in Seq(Lsn) /\ Len(g[s]) = Len(f[s]) + Len(t)
      /\ Range(g[s]) = Range(f[s]) \cup Range(t)
      /\ \A i \in 1..Len(t) : g[s][Len(f[s]) + i] = t[i]
  BY <1>1, <1>2, ConcatFacts
<1>4. Len(t) \in Nat \ {0} /\ Len(f[s]) \in Nat
  BY <1>1, RangeFacts
<1>6. \A u \in Segment \ {s} : Range(g[u]) = Range(f[u])
  BY <1>2
<1>7. StoredOf(g) = StoredOf(f) \cup Range(t)
  <2>1. \A l : l \in StoredOf(g) <=> \E u \in Segment : l \in Range(g[u])
    BY DEF StoredOf
  <2>2. \A l : l \in StoredOf(f) <=> \E u \in Segment : l \in Range(f[u])
    BY DEF StoredOf
  <2>3. \A u \in Segment : \A l : l \in Range(g[u]) => l \in Range(f[u]) \cup Range(t)
    BY <1>3, <1>6, Zenon
  <2>4. \A u \in Segment : Range(f[u]) \subseteq Range(g[u])
    BY <1>3, <1>6, Zenon
  <2>5. \A l \in Range(t) : l \in Range(g[s])
    BY <1>3
  <2> QED BY <2>1, <2>2, <2>3, <2>4, <2>5, Zenon
<1>8. g[s] # <<>>
  BY <1>3, <1>4, RangeFacts
<1>9. NonEmptyOf(g) = NonEmptyOf(f) \cup {s}
  BY <1>2, <1>8 DEF NonEmptyOf
<1>10. Max(NonEmptyOf(g)) = s
  <2>1. NonEmptyOf(g) \in SUBSET Segment /\ NonEmptyOf(g) # {}
    BY <1>9 DEF NonEmptyOf
  <2>2. Max(NonEmptyOf(g)) \in NonEmptyOf(g) /\ s <= Max(NonEmptyOf(g))
    BY <1>9, <2>1, SegmentMax
  <2>3. \A u \in Segment : u \in Int
    BY FileSegFacts DEF Segment
  <2>4. s \in Int /\ Max(NonEmptyOf(g)) \in Int
    BY <2>1, <2>2, <2>3
  <2>5. Max(NonEmptyOf(g)) <= s
    BY <1>9, <2>2, <2>4 DEF AtTop
  <2> QED BY <2>2, <2>4, <2>5
<1>11. LastOf(g) = t[Len(t)]
  <2>1. LastOf(g) = g[s][Len(f[s]) + Len(t)]
    BY <1>3, <1>9, <1>10 DEF LastOf, Last
  <2> QED BY <1>3, <1>4, <2>1
<1> QED BY <1>7, <1>9, <1>11

\* What the update of one file does.
LEMMA AppendedFacts ==
    ASSUME NEW f \in Files, NEW s \in Segment, NEW t \in Seq(Lsn)
    PROVE  /\ [f EXCEPT ![s] = @ \o t] \in Files
           /\ Appended(f, [f EXCEPT ![s] = @ \o t], s, t)
<1>1. f[s] \o t \in Seq(Lsn)
  BY ConcatFacts DEF Files
<1> QED BY <1>1 DEF Files, Appended

\* The records stay in the files of their segments.
LEMMA AppendInPlace ==
    ASSUME NEW f \in Files, NEW s \in Segment, NEW t \in Seq(Lsn), InPlace(f),
           \A i \in 1..Len(t) : FileSeg(t[i]) = s,
           NEW g \in Files, Appended(f, g, s, t)
    PROVE  InPlace(g)
<1>1. f[s] \in Seq(Lsn)
  BY DEF Files
<1>2. g[s] = f[s] \o t /\ \A u \in Segment \ {s} : g[u] = f[u]
  BY DEF Appended
<1>3. \A i \in 1..Len(g[s]) : FileSeg(g[s][i]) = s
  <2> TAKE i \in 1..Len(g[s])
  <2>1. i \in 1..Len(f[s]) \/ (i - Len(f[s]) \in 1..Len(t) /\ g[s][i] = t[i - Len(f[s])])
    BY <1>1, <1>2, ConcatFacts
  <2>2. i \in 1..Len(f[s]) => g[s][i] = f[s][i]
    BY <1>1, <1>2, ConcatFacts
  <2> QED BY <2>1, <2>2 DEF InPlace
<1> QED BY <1>2, <1>3 DEF InPlace

\* A file ascends when what is appended ascends above all that is stored.
LEMMA AppendAscends ==
    ASSUME NEW f \in Files, NEW s \in Segment, NEW t \in Seq(Lsn), Ascends(f),
           \A i, j \in 1..Len(t) : i < j => t[i] < t[j],
           \A i \in 1..Len(t) : \A l \in StoredOf(f) : l < t[i],
           NEW g \in Files, Appended(f, g, s, t)
    PROVE  Ascends(g)
<1>1. f[s] \in Seq(Lsn) /\ Len(f[s]) \in Nat /\ Len(t) \in Nat
  BY RangeFacts DEF Files
<1>2. g[s] = f[s] \o t /\ \A u \in Segment \ {s} : g[u] = f[u]
  BY DEF Appended
<1>3. ASSUME NEW i \in 1..Len(g[s]), NEW j \in 1..Len(g[s]), i < j
      PROVE  g[s][i] < g[s][j]
  <2>1. \A k \in 1..Len(g[s]) :
          k \in 1..Len(f[s]) \/ (k - Len(f[s]) \in 1..Len(t) /\ g[s][k] = t[k - Len(f[s])])
    BY <1>1, <1>2, ConcatFacts
  <2>2. \A k \in 1..Len(f[s]) : g[s][k] = f[s][k] /\ f[s][k] \in StoredOf(f)
    BY <1>1, <1>2, ConcatFacts, FilesFacts
  <2>3. Len(g[s]) \in Nat
    BY <1>1, <1>2, ConcatFacts
  <2>4. CASE j \in 1..Len(f[s])
    <3>1. i \in 1..Len(f[s])
      BY <1>1, <1>3, <2>3, <2>4
    <3> QED BY <1>3, <2>2, <2>4, <3>1 DEF Ascends
  <2>5. CASE i \in 1..Len(f[s]) /\ j \notin 1..Len(f[s])
    BY <2>1, <2>2, <2>5
  <2>6. CASE i \notin 1..Len(f[s]) /\ j \notin 1..Len(f[s])
    <3>1. i - Len(f[s]) < j - Len(f[s])
      BY <1>1, <1>3, <2>3
    <3> QED BY <2>1, <2>6, <3>1
  <2> QED BY <2>4, <2>5, <2>6
<1> QED BY <1>2, <1>3 DEF Ascends

\* Files that hold their own segments ascend from one to the next.
LEMMA InPlaceOrdered ==
    ASSUME NEW f \in Files, InPlace(f),
           NEW s \in Segment, NEW u \in Segment, s < u,
           NEW i \in 1..Len(f[s]), NEW j \in 1..Len(f[u])
    PROVE  f[s][i] < f[u][j]
<1>1. f[s][i] \in Lsn /\ f[u][j] \in Lsn
  BY RangeFacts DEF Files
<1>2. FileSeg(f[s][i]) = s /\ FileSeg(f[u][j]) = u
  BY DEF InPlace
<1>3. s \in Int /\ u \in Int
  BY FileSegFacts DEF Segment
<1>4. f[s][i] \in Int /\ f[u][j] \in Int
  BY <1>1, SizeFacts DEF Lsn
<1>5. f[u][j] <= f[s][i] => u <= s
  BY <1>1, <1>2, FileSegFacts
<1> QED BY <1>3, <1>4, <1>5

\* The state functions of the module in terms of the files.
LEMMA FilesState ==
    /\ NonEmpty = NonEmptyOf(files) /\ Stored = StoredOf(files)
    /\ GetLastWrittenPartitionLSN = LastOf(files)
    /\ NonEmpty' = NonEmptyOf(files') /\ Stored' = StoredOf(files')
    /\ GetLastWrittenPartitionLSN' = LastOf(files')
BY DEF NonEmpty, Stored, GetLastWrittenPartitionLSN, NonEmptyOf, StoredOf, LastOf

\* As long as no write was cut, the last record is the highest.
LEMMA LastIsHighest ==
    ASSUME TypeOK, FilesInPlace, AscendingUnlessCut, ~cut, NEW l \in Stored
    PROVE  l <= GetLastWrittenPartitionLSN
<1>1. files \in Files /\ InPlace(files)
  BY DEF TypeOK, Files, FilesInPlace, InPlace
<1>2. PICK s \in Segment : \E i \in 1..Len(files[s]) : files[s][i] = l
  BY <1>1, FilesState, FilesFacts
<1>3. PICK i \in 1..Len(files[s]) : files[s][i] = l
  BY <1>2
<1>4. files[s] \in Seq(Lsn) /\ Len(files[s]) \in Nat
  BY <1>1, RangeFacts DEF Files
<1>5. s \in NonEmpty
  BY <1>3, <1>4, RangeFacts DEF NonEmpty
<1> DEFINE t == Max(NonEmpty)
<1>6. t \in NonEmpty /\ s <= t
  BY <1>5, SegmentMax DEF NonEmpty
<1>7. t \in Segment /\ files[t] # <<>> /\ files[t] \in Seq(Lsn)
  BY <1>1, <1>6 DEF NonEmpty, Files
<1>8. Len(files[t]) \in 1..Len(files[t])
  BY <1>7, RangeFacts
<1>9. GetLastWrittenPartitionLSN = files[t][Len(files[t])]
  BY <1>5 DEF GetLastWrittenPartitionLSN, Last
<1>10. s \in Int /\ t \in Int
  BY <1>7, FileSegFacts DEF Segment
<1> HIDE DEF t
<1>11. l \in Int /\ files[t][Len(files[t])] \in Int
  BY <1>3, <1>4, <1>7, <1>8, RangeFacts, SizeFacts DEF Lsn
<1>12. CASE s < t
  <2>1. files[s][i] < files[t][Len(files[t])]
    BY <1>1, <1>7, <1>8, <1>12, InPlaceOrdered
  <2> QED BY <1>3, <1>9, <1>11, <2>1
<1>13. CASE s = t
  <2>1. i < Len(files[t]) \/ i = Len(files[t])
    BY <1>4, <1>13
  <2>2. i < Len(files[t]) => files[s][i] < files[s][Len(files[t])]
    BY <1>8, <1>13 DEF AscendingUnlessCut
  <2> QED BY <1>3, <1>9, <1>11, <1>13, <2>1, <2>2
<1> QED BY <1>6, <1>10, <1>12, <1>13

(***************************************************************************)
(* Steps that leave the files alone                                        *)
(***************************************************************************)

\* The parts of the invariant about the files hold on: nothing is written, and
\* the WAL only grows.
LEMMA KeepFiles ==
    ASSUME WriterInv, files' = files, Range(wal) \subseteq Range(wal'), cut => cut'
    PROVE  FilesInPlace' /\ AscendingUnlessCut'
<1>1. FilesInPlace'
  BY DEF WriterInv, FilesInPlace
<1>2. AscendingUnlessCut'
  BY DEF WriterInv, AscendingUnlessCut
<1> QED BY <1>1, <1>2

\* The buffer and the watermark are kept; a flush may end before its end.
LEMMA KeepBuffer ==
    ASSUME WriterInv, TypeOK', WriterControl', FlushedUnlessFailed',
           files' = files, Range(wal) \subseteq Range(wal'),
           writer'.buf = writer.buf, writer'.last = writer.last,
           writer.buf # <<>> => writer'.fd = writer.fd /\ writer'.seg = writer.seg,
           writer'.fd # "absent" => writer.fd # "absent",
           sent' \in {sent, 0}, sent' # sent => cut', cut => cut',
           accepted' = accepted, dropped \subseteq dropped'
    PROVE  WriterInv'
<1>1. FilesInPlace' /\ AscendingUnlessCut'
  BY KeepFiles
<1>2. Stored' = Stored /\ NonEmpty' = NonEmpty
      /\ GetLastWrittenPartitionLSN' = GetLastWrittenPartitionLSN
  BY FilesState
<1>3. BufferHasFile'
  BY DEF WriterInv, BufferHasFile
<1>4. AcceptedThere'
  BY <1>2 DEF WriterInv, AcceptedThere
<1>5. BufferAscends'
  BY DEF WriterInv, BufferAscends
<1>6. WatermarkAbove'
  BY <1>2 DEF WriterInv, WatermarkAbove
<1>7. BufferAboveFiles'
  <2>1. \A i \in 1..sent' : writer'.buf[i] \in Stored'
    <3>1. CASE sent' = sent
      BY <1>2, <3>1 DEF WriterInv, BufferAboveFiles
    <3>2. CASE sent' = 0
      <4>1. 1..sent' = {}
        BY <3>2
      <4> QED BY <4>1
    <3> QED BY <3>1, <3>2
  <2>2. \A i \in 1..Len(writer'.buf) :
          writer'.buf[i] \in Stored' \/ GetLastWrittenPartitionLSN' < writer'.buf[i]
    BY <1>2 DEF WriterInv, BufferAboveFiles
  <2>3. ~cut' => \A i \in sent' + 1..Len(writer'.buf) : \A l \in Stored' : l < writer'.buf[i]
    BY <1>2 DEF WriterInv, BufferAboveFiles
  <2> QED BY <2>1, <2>2, <2>3 DEF BufferAboveFiles
<1> QED BY <1>1, <1>3, <1>4, <1>5, <1>6, <1>7 DEF WriterInv

\* The buffer is empty afterwards.
LEMMA EmptyBuffer ==
    ASSUME WriterInv, TypeOK', WriterControl',
           files' = files, Range(wal) \subseteq Range(wal'),
           writer'.buf = <<>>, sent' = 0,
           writer'.fd # "absent" => GetLastWrittenPartitionLSN <= writer'.last,
           accepted' \subseteq Stored \cup dropped', cut => cut'
    PROVE  WriterInv'
<1>1. FilesInPlace' /\ AscendingUnlessCut'
  BY KeepFiles
<1>2. Stored' = Stored /\ NonEmpty' = NonEmpty
      /\ GetLastWrittenPartitionLSN' = GetLastWrittenPartitionLSN
  BY FilesState
<1>3. Len(writer'.buf) = 0 /\ 1..Len(writer'.buf) = {} /\ 1..sent' = {}
      /\ sent' + 1..Len(writer'.buf) = {}
  BY EmptyFacts
<1>4. BufferHasFile'
  BY <1>3, SizeFacts DEF BufferHasFile
<1>5. AcceptedThere'
  BY <1>2 DEF AcceptedThere
<1>6. BufferAscends'
  BY <1>3 DEF BufferAscends
<1>7. WatermarkAbove'
  BY <1>2 DEF WatermarkAbove
<1>8. BufferAboveFiles'
  BY <1>3 DEF BufferAboveFiles
<1>9. FlushedUnlessFailed'
  BY DEF FlushedUnlessFailed
<1> QED BY <1>1, <1>4, <1>5, <1>6, <1>7, <1>8, <1>9 DEF WriterInv

\* The fields of the writer have their types.
LEMMA WriterFields ==
    ASSUME TypeOK
    PROVE  /\ writer.fd \in {"absent", "closed", "open"} /\ writer.seg \in {0} \cup Segment
           /\ writer.last \in {0} \cup Lsn /\ writer.buf \in Seq(Lsn)
           /\ writer.stalled \in BOOLEAN
           /\ Len(writer.buf) \in Nat /\ Len(wal) \in Nat
           /\ \A i \in 1..Len(writer.buf) : writer.buf[i] \in Lsn
           /\ files \in Files
           /\ \A l \in {0} \cup Lsn : l \in Int /\ 0 <= l
BY SizeFacts DEF TypeOK, Writer, Files, Lsn

\* No writer at all has its type.
LEMMA NoWriterType ==
    /\ NoWriter \in Writer /\ NoWriter.fd = "absent" /\ NoWriter.buf = <<>>
    /\ NoWriter.seg = 0 /\ NoWriter.last = 0
BY DEF NoWriter, Writer

\* A new writer with watermark l has its type.
LEMMA NewWriterType ==
    ASSUME NEW l \in {0} \cup Lsn
    PROVE  LET w == [NoWriter EXCEPT !.fd = "closed", !.last = l]
           IN  /\ w.fd = "closed" /\ w.last = l /\ w.buf = <<>> /\ w.seg = 0
               /\ w \in Writer
<1> DEFINE w == [NoWriter EXCEPT !.fd = "closed", !.last = l]
<1>1. NoWriter \in Writer /\ NoWriter.buf = <<>> /\ NoWriter.seg = 0
  BY NoWriterType
<1>2. w \in Writer
  BY <1>1 DEF Writer
<1>3. w.fd = "closed" /\ w.last = l /\ w.buf = <<>> /\ w.seg = 0
  BY <1>1 DEF Writer
<1> QED BY <1>2, <1>3

\* A backend inserts a header.
LEMMA InsertHeaderInv ==
    ASSUME WriterInv, NEW l \in Lsn, InsertHeader(l)
    PROVE  WriterInv'
<1> USE DEF InsertHeader, serverVars
<1>0. TypeOK /\ wal \in Seq(Lsn)
  BY DEF WriterInv, TypeOK
<1>1. wal' \in Seq(Lsn) /\ Len(wal') = Len(wal) + 1 /\ Range(wal') = Range(wal) \cup {l}
      /\ Len(wal) \in Nat
  BY <1>0, AppendFacts, WriterFields
<1>2. TypeOK'
  <2>1. pos' \in 0..Len(wal') /\ replayed' \in 0..Len(wal')
    BY <1>0, <1>1 DEF TypeOK
  <2> QED BY <1>0, <1>1, <2>1 DEF TypeOK
<1>3. WriterControl'
  BY <1>1 DEF WriterInv, WriterControl, Writing
<1>4. FlushedUnlessFailed'
  BY DEF WriterInv, FlushedUnlessFailed
<1> QED BY <1>1, <1>2, <1>3, <1>4, KeepBuffer

\* The worker starts.
LEMMA DemuxStartInv ==
    ASSUME WriterInv, DemuxStart
    PROVE  WriterInv'
<1> USE DEF DemuxStart, serverVars
<1>1. TypeOK'
  BY WriterFields DEF WriterInv, TypeOK, WorkerPc
<1>2. WriterControl'
  BY DEF WriterInv, WriterControl, Writing
<1>3. FlushedUnlessFailed'
  BY NoWriterType DEF WriterInv, FlushedUnlessFailed, WriterControl
<1> QED BY <1>1, <1>2, <1>3, KeepBuffer

\* The worker has caught up and flushes.
LEMMA DemuxCaughtUpInv ==
    ASSUME WriterInv, DemuxCaughtUp
    PROVE  WriterInv'
<1> USE DEF DemuxCaughtUp, serverVars
<1>1. TypeOK'
  BY DEF WriterInv, TypeOK, WorkerPc
<1>2. WriterControl'
  <2>1. 0 < Len(writer.buf)
    BY WriterFields, RangeFacts DEF MustFlush, WriterInv
  <2> QED BY <2>1 DEF WriterInv, WriterControl, Writing, MustFlush
<1>3. FlushedUnlessFailed'
  BY DEF FlushedUnlessFailed
<1> QED BY <1>1, <1>2, <1>3, KeepBuffer

\* The worker reads a record.
LEMMA DemuxReadInv ==
    ASSUME WriterInv, DemuxRead
    PROVE  WriterInv'
<1> USE DEF DemuxRead, serverVars
<1>0. TypeOK /\ wal \in Seq(Lsn) /\ pos \in 0..Len(wal) /\ Len(wal) \in Nat
  BY WriterFields DEF WriterInv, TypeOK
<1>1. pos + 1 \in 1..Len(wal)
  BY <1>0
<1>2. hdr' \in Lsn /\ hdr' \in Range(wal)
  BY <1>0, <1>1, RangeFacts
<1>3. TypeOK'
  BY <1>0, <1>1, <1>2 DEF TypeOK, WorkerPc
<1>4. WriterControl'
  BY <1>2 DEF WriterInv, WriterControl, Writing
<1>5. FlushedUnlessFailed'
  BY DEF WriterInv, FlushedUnlessFailed
<1> QED BY <1>3, <1>4, <1>5, KeepBuffer

\* The writer of the partition is created.
LEMMA CreateInv ==
    ASSUME WriterInv, CreatePartitionWALWriter
    PROVE  WriterInv'
<1> USE DEF CreatePartitionWALWriter, serverVars
<1>1. GetLastWrittenPartitionLSN \in {0} \cup Lsn
  BY FilesState, FilesFacts, WriterFields DEF WriterInv
<1>2. /\ writer'.fd = "closed" /\ writer'.last = GetLastWrittenPartitionLSN
      /\ writer'.buf = <<>> /\ writer'.seg = 0 /\ writer' \in Writer
  BY <1>1, NewWriterType
<1>3. sent = 0 /\ sent' = 0 /\ writer = NoWriter /\ hdr \in Range(wal) /\ Len(writer'.buf) = 0
  BY <1>2, EmptyFacts DEF WriterInv, WriterControl
<1>4. TypeOK'
  BY <1>2, <1>3 DEF WriterInv, TypeOK, WorkerPc
<1>5. WriterControl'
  BY <1>2, <1>3 DEF WriterInv, WriterControl, Writing
<1>6. accepted' \subseteq Stored \cup dropped'
  BY <1>3, NoWriterType, EmptyFacts DEF WriterInv, AcceptedThere
<1>7. GetLastWrittenPartitionLSN <= writer'.last
  BY <1>1, <1>2, SizeFacts DEF Lsn
<1> QED BY <1>2, <1>3, <1>4, <1>5, <1>6, <1>7, EmptyBuffer

\* The writer cannot be created.
LEMMA CreateFailsInv ==
    ASSUME WriterInv, CreateFails
    PROVE  WriterInv'
<1> USE DEF CreateFails, Fail, serverVars
<1>1. TypeOK'
  <2>1. failures' \in 0..MaxFailures
    BY SizeFacts DEF WriterInv, TypeOK
  <2> QED BY <2>1 DEF WriterInv, TypeOK, WorkerPc
<1>2. WriterControl'
  BY DEF WriterInv, WriterControl, Writing
<1>3. FlushedUnlessFailed'
  BY NoWriterType DEF WriterInv, FlushedUnlessFailed, WriterControl
<1> QED BY <1>1, <1>2, <1>3, KeepBuffer

\* Reset detection and the end of the stall change nothing else in the writer.
LEMMA AfterUnstallFacts ==
    ASSUME WriterInv, pc = "check"
    PROVE  /\ AfterUnstall \in Writer /\ AfterUnstall.fd # "absent"
           /\ ~ResetDetected => /\ AfterUnstall.fd = writer.fd /\ AfterUnstall.seg = writer.seg
                                /\ AfterUnstall.last = writer.last
                                /\ AfterUnstall.buf = writer.buf
           /\ ResetDetected => /\ AfterUnstall.fd = "closed" /\ AfterUnstall.buf = <<>>
                               /\ AfterUnstall.last = 0 /\ AfterUnstall.seg = 0
<1> DEFINE w == AfterResetDetection
<1>1. TypeOK /\ writer.fd # "absent"
  BY DEF WriterInv, WriterControl
<1>2. /\ w \in Writer
      /\ ~ResetDetected => w = writer
      /\ ResetDetected => w.fd = "closed" /\ w.buf = <<>> /\ w.last = 0 /\ w.seg = 0
  <2>1. CASE ~ResetDetected
    BY <1>1, <2>1 DEF AfterResetDetection, TypeOK
  <2>2. CASE ResetDetected
    <3>1. w = [fd |-> "closed", seg |-> 0, last |-> 0, buf |-> <<>>, stalled |-> FALSE]
      BY <2>2 DEF AfterResetDetection, NoWriter
    <3> QED BY <2>2, <3>1 DEF Writer
  <2> QED BY <2>1, <2>2
<1> DEFINE b == w.stalled /\ GetLastWrittenPartitionLSN >= hdr
<1>3. b \in BOOLEAN
  OBVIOUS
<1>4. AfterUnstall = [w EXCEPT !.stalled = b]
  BY DEF AfterUnstall
<1> HIDE DEF w, b
<1>5. /\ AfterUnstall \in Writer /\ AfterUnstall.fd = w.fd /\ AfterUnstall.seg = w.seg
      /\ AfterUnstall.last = w.last /\ AfterUnstall.buf = w.buf
  BY <1>2, <1>3, <1>4 DEF Writer
<1> QED BY <1>1, <1>2, <1>5

\* A header is checked: the invariant holds on, whatever comes next.
LEMMA CheckedInv ==
    ASSUME WriterInv, TypeOK', WriterControl', pc = "check",
           writer' = AfterUnstall, DropOnReset, pc' = "flush" \/ failures' = failures,
           wal' = wal, files' = files, sent' = sent, accepted' = accepted, cut' = cut
    PROVE  WriterInv'
<1>1. CASE ~ResetDetected
  <2>1. writer'.buf = writer.buf /\ writer'.last = writer.last /\ writer'.fd = writer.fd
        /\ writer'.seg = writer.seg /\ writer.fd # "absent"
    BY <1>1, AfterUnstallFacts DEF WriterInv, WriterControl
  <2>2. dropped' = dropped
    BY <1>1 DEF DropOnReset
  <2>3. FlushedUnlessFailed'
    BY <2>1 DEF WriterInv, FlushedUnlessFailed
  <2> QED BY <2>1, <2>2, <2>3, KeepBuffer
<1>2. CASE ResetDetected
  <2>1. writer'.buf = <<>> /\ writer'.last = 0 /\ GetLastWrittenPartitionLSN = 0
    BY <1>2, AfterUnstallFacts DEF ResetDetected
  <2>2. sent' = 0
    BY DEF WriterInv, WriterControl
  <2>3. accepted' \subseteq Stored \cup dropped'
    BY <1>2 DEF WriterInv, AcceptedThere, DropOnReset
  <2> QED BY <2>1, <2>2, <2>3, EmptyBuffer
<1> QED BY <1>1, <1>2

\* The types after the check.
LEMMA CheckedType ==
    ASSUME WriterInv, pc = "check", writer' = AfterUnstall, DropOnReset,
           pc' \in WorkerPc, then' \in {"read", "open", "buffer", "destroy", "exited"},
           UNCHANGED <<wal, pos, hdr, sent, files, serverVars, failures, accepted, cut>>
    PROVE  TypeOK'
<1>1. TypeOK /\ sent = 0
  BY DEF WriterInv, WriterControl
<1>2. writer' \in Writer
  BY AfterUnstallFacts
<1>3. sent' \in 0..Len(writer'.buf)
  <2>1. Len(writer'.buf) \in Nat
    BY <1>2 DEF Writer
  <2> QED BY <1>1, <2>1
<1>4. dropped' \in SUBSET Lsn
  <2>1. Range(writer.buf) \in SUBSET Lsn
    BY <1>1, WriterFields, RangeFacts
  <2> QED BY <1>1, <2>1 DEF TypeOK, DropOnReset
<1> QED BY <1>1, <1>2, <1>3, <1>4 DEF TypeOK, serverVars

\* The header is skipped.
LEMMA DemuxSkipInv ==
    ASSUME WriterInv, DemuxSkip
    PROVE  WriterInv'
<1> USE DEF DemuxSkip, serverVars
<1>1. TypeOK'
  BY CheckedType DEF WorkerPc, WriterInv, TypeOK
<1>2. WriterControl'
  BY AfterUnstallFacts DEF WriterInv, WriterControl, Writing
<1> QED BY <1>1, <1>2, CheckedInv

\* The header is to be written: the file is flushed, opened or there already.
LEMMA DemuxWriteInv ==
    ASSUME WriterInv, DemuxWrite
    PROVE  WriterInv'
<1> USE DEF DemuxWrite, serverVars
<1> DEFINE w == AfterUnstall
<1>1. TypeOK'
  BY CheckedType DEF WorkerPc, WriterInv, TypeOK
<1>2. /\ w.fd \in {"closed", "open"} /\ w.buf \in Seq(Lsn) /\ sent = 0
      /\ w.buf # <<>> => w.fd = "open"
      /\ w.fd = "open" => w.seg # 0
      /\ hdr \in Range(wal) /\ w.last < hdr /\ writer' = w
  BY AfterUnstallFacts DEF WriterInv, WriterControl, BufferHasFile, Writer
<1>3. w.buf # <<>> => 0 < Len(w.buf)
  BY <1>2, RangeFacts
<1>4. ASSUME SegmentChanges(w) /\ MustFlush(w) PROVE WriterControl'
  <2>1. pc' = "flush" /\ then' = "open" /\ writer'.buf # <<>>
    BY <1>4 DEF MustFlush
  <2> HIDE DEF w
  <2> QED BY <1>2, <1>3, <2>1 DEF WriterControl, Writing
<1>5. ASSUME ~(SegmentChanges(w) /\ MustFlush(w)) PROVE WriterControl'
  <2>1. pc' = IF SegmentChanges(w) \/ w.fd = "closed" THEN "open" ELSE "buffer"
    BY <1>5
  <2>2. pc' = "open" => w.buf = <<>>
    BY <1>2, <1>5, <2>1 DEF MustFlush
  <2>3. pc' = "buffer" => w.fd = "open" /\ w.seg = FileSeg(hdr)
    BY <1>2, <2>1 DEF SegmentChanges
  <2>4. pc' \in {"open", "buffer"}
    BY <2>1
  <2> HIDE DEF w
  <2> QED BY <1>2, <2>2, <2>3, <2>4 DEF WriterControl, Writing
<1> QED BY <1>1, <1>4, <1>5, CheckedInv

\* The file of the header is opened.
LEMMA OpenWriterSegmentInv ==
    ASSUME WriterInv, OpenWriterSegment
    PROVE  WriterInv'
<1> USE DEF OpenWriterSegment, serverVars
<1>1. TypeOK /\ writer.buf = <<>> /\ hdr \in Range(wal) /\ writer.last < hdr
      /\ writer.fd # "absent" /\ sent = 0
  BY DEF WriterInv, WriterControl, Writing
<1>2. hdr \in Lsn /\ FileSeg(hdr) \in Segment
  BY <1>1, RangeFacts, FileSegFacts DEF TypeOK
<1>3. /\ writer' \in Writer /\ writer'.buf = writer.buf /\ writer'.last = writer.last
      /\ writer'.fd = "open" /\ writer'.seg = FileSeg(hdr)
  BY <1>1, <1>2 DEF TypeOK, Writer
<1>4. TypeOK'
  BY <1>1, <1>3 DEF TypeOK, WorkerPc
<1>5. FileSeg(hdr) # 0
  BY <1>2, FileSegFacts DEF Segment
<1>6. WriterControl'
  BY <1>1, <1>3, <1>5 DEF WriterControl, Writing
<1>7. FlushedUnlessFailed'
  BY <1>1, <1>3 DEF FlushedUnlessFailed
<1> QED BY <1>1, <1>3, <1>4, <1>6, <1>7, KeepBuffer

\* The file cannot be opened.
LEMMA OpenFailsInv ==
    ASSUME WriterInv, OpenFails
    PROVE  WriterInv'
<1> USE DEF OpenFails, serverVars
<1>1. TypeOK /\ writer.buf = <<>> /\ writer.fd # "absent" /\ sent = 0
  BY DEF WriterInv, WriterControl, Writing
<1>2. /\ writer' \in Writer /\ writer'.buf = writer.buf /\ writer'.last = writer.last
      /\ writer'.fd = "closed" /\ writer'.seg = writer.seg
  BY <1>1 DEF TypeOK, Writer
<1>3. failures' \in 0..MaxFailures
  BY <1>1, SizeFacts DEF TypeOK, Fail
<1>4. TypeOK'
  BY <1>1, <1>2, <1>3 DEF TypeOK, WorkerPc
<1>5. WriterControl'
  BY <1>1, <1>2 DEF WriterControl, Writing
<1>6. FlushedUnlessFailed'
  BY <1>1, <1>2 DEF FlushedUnlessFailed
<1> QED BY <1>1, <1>2, <1>4, <1>5, <1>6, KeepBuffer

\* The buffer is full and flushed before the header is put into it.
LEMMA FlushFullBufferInv ==
    ASSUME WriterInv, FlushFullBuffer
    PROVE  WriterInv'
<1> USE DEF FlushFullBuffer, serverVars
<1>1. TypeOK'
  BY DEF WriterInv, TypeOK, WorkerPc
<1>2. 0 < Len(writer.buf)
  BY WriterFields, SizeFacts DEF WriterInv
<1>3. WriterControl'
  BY <1>2 DEF WriterInv, WriterControl, Writing
<1>4. FlushedUnlessFailed'
  BY DEF FlushedUnlessFailed
<1> QED BY <1>1, <1>3, <1>4, KeepBuffer

\* SIGTERM.
LEMMA DemuxStopInv ==
    ASSUME WriterInv, DemuxStop
    PROVE  WriterInv'
<1> USE DEF DemuxStop, serverVars
<1>1. TypeOK'
  BY DEF WriterInv, TypeOK, WorkerPc
<1>2. writer.buf # <<>> => 0 < Len(writer.buf)
  BY WriterFields, RangeFacts DEF WriterInv
<1>3. WriterControl'
  BY <1>2 DEF WriterInv, WriterControl, Writing, MustFlush
<1>4. FlushedUnlessFailed'
  BY DEF WriterInv, FlushedUnlessFailed, MustFlush
<1> QED BY <1>1, <1>3, <1>4, KeepBuffer

\* The writer is destroyed, after a flush when there is something to flush.
LEMMA DestroyInv ==
    ASSUME WriterInv, DestroyPartitionWALWriter
    PROVE  WriterInv'
<1> USE DEF DestroyPartitionWALWriter, serverVars
<1>0. TypeOK /\ sent = 0
  BY DEF WriterInv, WriterControl
<1>1. CASE MustFlush(writer)
  <2>1. TypeOK'
    BY <1>1 DEF WriterInv, TypeOK, WorkerPc
  <2>2. 0 < Len(writer.buf)
    BY <1>1, WriterFields, RangeFacts DEF WriterInv, MustFlush
  <2>3. WriterControl'
    BY <1>1, <2>2 DEF WriterInv, WriterControl, Writing, MustFlush
  <2>4. FlushedUnlessFailed'
    BY <1>1 DEF FlushedUnlessFailed
  <2> QED BY <1>1, <2>1, <2>3, <2>4, KeepBuffer
<1>2. CASE ~MustFlush(writer)
  <2>1. writer.buf = <<>>
    BY <1>2 DEF WriterInv, BufferHasFile, MustFlush
  <2>2. writer' = NoWriter /\ pc' = "exited" /\ then' = then
    BY <1>2
  <2>3. Len(writer'.buf) = 0
    BY <2>2, NoWriterType, EmptyFacts
  <2>4. TypeOK'
    BY <1>0, <2>2, <2>3, NoWriterType DEF TypeOK, WorkerPc
  <2>5. WriterControl'
    BY <1>0, <2>2, NoWriterType DEF WriterControl, Writing
  <2>6. accepted' \subseteq Stored \cup dropped'
    BY <2>1, EmptyFacts DEF WriterInv, AcceptedThere
  <2> QED BY <1>0, <2>2, <2>4, <2>5, <2>6, NoWriterType, EmptyBuffer
<1> QED BY <1>1, <1>2

(***************************************************************************)
(* Steps that fill or write the buffer                                     *)
(***************************************************************************)

\* The header is put into the buffer.
LEMMA BufferHeaderInv ==
    ASSUME WriterInv, BufferHeader
    PROVE  WriterInv'
<1> USE DEF BufferHeader, serverVars
<1> DEFINE b == writer.buf
           n == Len(writer.buf)
<1>1. /\ TypeOK /\ hdr \in Range(wal) /\ writer.last < hdr /\ writer.fd = "open"
      /\ writer.seg = FileSeg(hdr) /\ sent = 0
  BY DEF WriterInv, WriterControl, Writing
<1>2. hdr \in Lsn /\ FileSeg(hdr) \in Segment /\ b \in Seq(Lsn) /\ n \in Nat /\ hdr \in Int
  BY <1>1, RangeFacts, FileSegFacts, WriterFields DEF TypeOK
<1>3. /\ writer' \in Writer /\ writer'.buf = Append(b, hdr) /\ writer'.last = hdr
      /\ writer'.fd = "open" /\ writer'.seg = writer.seg
  <2>1. Append(b, hdr) \in Seq(Lsn)
    BY <1>2
  <2>2. PICK a \in Seq(Lsn) : a = Append(b, hdr)
    BY <2>1
  <2>3. writer' = [writer EXCEPT !.buf = a, !.last = hdr] /\ writer \in Writer
    BY <1>1, <2>2 DEF TypeOK
  <2> QED BY <1>1, <1>2, <2>2, <2>3 DEF Writer
<1>4. /\ Len(writer'.buf) = n + 1 /\ writer'.buf[n + 1] = hdr /\ writer'.buf # <<>>
      /\ \A i \in 1..n : writer'.buf[i] = b[i]
      /\ Range(writer'.buf) = Range(b) \cup {hdr}
  BY <1>2, <1>3, AppendFacts
<1>5. \A i \in 1..n + 1 : i \in 1..n \/ i = n + 1
  BY <1>2
<1>6. TypeOK'
  <2>1. sent' \in 0..Len(writer'.buf)
    BY <1>1, <1>2, <1>4
  <2> QED BY <1>1, <1>2, <1>3, <2>1 DEF TypeOK, WorkerPc
<1>7. WriterControl'
  <2>1. sent' < Len(writer'.buf)
    BY <1>1, <1>2, <1>4
  <2> QED BY <1>1, <1>3, <2>1 DEF WriterInv, WriterControl, Writing
<1>8. FilesInPlace' /\ AscendingUnlessCut'
  BY KeepFiles
<1>9. Stored' = Stored /\ NonEmpty' = NonEmpty
      /\ GetLastWrittenPartitionLSN' = GetLastWrittenPartitionLSN
  BY FilesState
<1>10. \A i \in 1..n : b[i] \in Lsn /\ b[i] \in Int /\ b[i] <= writer.last /\ b[i] < hdr
                       /\ b[i] \in Range(wal) /\ FileSeg(b[i]) = writer.seg
  <2>1. \A i \in 1..n : b[i] \in Lsn /\ b[i] \in Int /\ writer.last \in Int
    BY <1>1, WriterFields
  <2>2. \A i \in 1..n : b[i] <= writer.last /\ b[i] \in Range(wal)
    BY DEF WriterInv, BufferAscends
  <2>3. \A i \in 1..n : FileSeg(b[i]) = writer.seg
    BY <1>2, RangeFacts DEF WriterInv, BufferHasFile
  <2> QED BY <1>1, <1>2, <2>1, <2>2, <2>3
<1>11. BufferHasFile'
  <2>1. Len(writer'.buf) <= BufferSize
    BY <1>2, <1>4, SizeFacts
  <2>2. \A i \in 1..Len(writer'.buf) : FileSeg(writer'.buf[i]) = writer'.seg
    BY <1>1, <1>3, <1>4, <1>5, <1>10
  <2> QED BY <1>3, <2>1, <2>2 DEF BufferHasFile
<1>12. AcceptedThere'
  BY <1>4, <1>9 DEF WriterInv, AcceptedThere
<1>13. BufferAscends'
  <2>1. \A i \in 1..Len(writer'.buf) :
           writer'.buf[i] <= writer'.last /\ writer'.buf[i] \in Range(wal')
    BY <1>1, <1>2, <1>3, <1>4, <1>5, <1>10
  <2>2. ASSUME NEW i \in 1..Len(writer'.buf), NEW j \in 1..Len(writer'.buf), i < j
        PROVE  writer'.buf[i] < writer'.buf[j]
    <3>1. i \in 1..n
      BY <1>2, <1>4, <2>2
    <3>2. CASE j = n + 1
      BY <1>4, <1>10, <3>1, <3>2
    <3>3. CASE j \in 1..n
      BY <1>4, <2>2, <3>1, <3>3 DEF WriterInv, BufferAscends
    <3> QED BY <1>4, <1>5, <3>2, <3>3
  <2> QED BY <2>1, <2>2 DEF BufferAscends
<1>14. /\ GetLastWrittenPartitionLSN \in {0} \cup Lsn
       /\ GetLastWrittenPartitionLSN <= writer.last /\ GetLastWrittenPartitionLSN < hdr
  <2>1. GetLastWrittenPartitionLSN \in {0} \cup Lsn
    BY <1>1, FilesState, FilesFacts, WriterFields
  <2>2. GetLastWrittenPartitionLSN <= writer.last
    BY <1>1 DEF WriterInv, WatermarkAbove
  <2>3. GetLastWrittenPartitionLSN \in Int /\ writer.last \in Int
    BY <1>1, <2>1, WriterFields
  <2> QED BY <1>1, <1>2, <2>1, <2>2, <2>3
<1>15. \A s \in NonEmpty : s <= writer.seg
  <2>1. InPlace(files) /\ files \in Files
    BY <1>1, WriterFields DEF WriterInv, FilesInPlace, InPlace
  <2> TAKE s \in NonEmpty
  <2>2. GetLastWrittenPartitionLSN \in Lsn /\ s <= FileSeg(GetLastWrittenPartitionLSN) /\ s \in Segment
    BY <2>1, FilesState, FilesFacts DEF NonEmpty
  <2>3. FileSeg(GetLastWrittenPartitionLSN) <= FileSeg(hdr)
        /\ FileSeg(GetLastWrittenPartitionLSN) \in Segment
    BY <1>2, <1>14, <2>2, FileSegFacts DEF Lsn
  <2>4. \A u \in Segment : u \in Int
    BY FileSegFacts DEF Segment
  <2> QED BY <1>1, <1>2, <2>2, <2>3, <2>4
<1>16. WatermarkAbove'
  <2>1. GetLastWrittenPartitionLSN <= hdr
    BY <1>2, <1>14, SizeFacts DEF Lsn
  <2> QED BY <1>3, <1>9, <1>15, <2>1 DEF WatermarkAbove
<1>17. BufferAboveFiles'
  <2>1. 1..sent' = {}
    BY <1>1
  <2>2. \A i \in 1..Len(writer'.buf) :
           writer'.buf[i] \in Stored' \/ GetLastWrittenPartitionLSN' < writer'.buf[i]
    BY <1>4, <1>5, <1>9, <1>14 DEF WriterInv, BufferAboveFiles
  <2>3. ASSUME ~cut', NEW i \in sent' + 1..Len(writer'.buf), NEW l \in Stored'
        PROVE  l < writer'.buf[i]
    <3>1. ~cut /\ i \in 1..n + 1 /\ l \in Stored
      BY <1>1, <1>4, <1>9, <2>3
    <3>2. CASE i \in 1..n
      BY <1>1, <1>4, <3>1, <3>2 DEF WriterInv, BufferAboveFiles
    <3>3. CASE i = n + 1
      <4>1. l <= GetLastWrittenPartitionLSN
        BY <3>1, LastIsHighest DEF WriterInv
      <4>2. l \in Lsn
        BY <1>1, <3>1, FilesState, FilesFacts, WriterFields
      <4> QED BY <1>2, <1>4, <1>14, <3>3, <4>1, <4>2, SizeFacts DEF Lsn
    <3> QED BY <1>5, <3>1, <3>2, <3>3
  <2> QED BY <2>1, <2>2, <2>3 DEF BufferAboveFiles
<1>18. FlushedUnlessFailed'
  BY DEF FlushedUnlessFailed
<1> QED BY <1>6, <1>7, <1>8, <1>11, <1>12, <1>13, <1>16, <1>17, <1>18 DEF WriterInv

\* Ascending records t of segment s are appended to its file, the highest one
\* that is not empty.
LEMMA FilesGrow ==
    ASSUME WriterInv, NEW s \in Segment, NEW t \in Seq(Lsn), t # <<>>,
           AtTop(files, s),
           \A i \in 1..Len(t) : FileSeg(t[i]) = s /\ t[i] \in Range(wal),
           \A i, j \in 1..Len(t) : i < j => t[i] < t[j],
           ~cut => \A i \in 1..Len(t) : \A l \in Stored : l < t[i],
           files' \in Files, Appended(files, files', s, t), wal' = wal, cut' = cut
    PROVE  /\ files' \in Files /\ FilesInPlace' /\ AscendingUnlessCut'
           /\ Stored' = Stored \cup Range(t)
           /\ NonEmpty' = NonEmpty \cup {s}
           /\ GetLastWrittenPartitionLSN' = t[Len(t)]
<1>1. files \in Files /\ InPlace(files)
  BY WriterFields DEF WriterInv, FilesInPlace, InPlace
<1>2. PICK g \in Files : g = files' /\ Appended(files, g, s, t)
  OBVIOUS
<1>3. /\ StoredOf(g) = StoredOf(files) \cup Range(t)
      /\ NonEmptyOf(g) = NonEmptyOf(files) \cup {s}
      /\ LastOf(g) = t[Len(t)]
  BY <1>1, <1>2, AppendAtTop
<1>4. InPlace(g)
  BY <1>1, <1>2, AppendInPlace
<1>5. files' = g
  BY <1>2
<1>6. FilesInPlace'
  <2>1. \A l \in StoredOf(files) : l \in Range(wal)
    <3> TAKE l \in StoredOf(files)
    <3>1. \E u \in Segment : \E i \in 1..Len(files[u]) : files[u][i] = l
      BY <1>1, FilesFacts
    <3> QED BY <3>1 DEF WriterInv, FilesInPlace
  <2>2. \A l \in Range(t) : l \in Range(wal)
    BY RangeFacts
  <2>3. \A u \in Segment : \A i \in 1..Len(g[u]) : g[u][i] \in StoredOf(g)
    BY <1>3, FilesFacts
  <2> QED BY <1>3, <1>4, <1>5, <2>1, <2>2, <2>3 DEF FilesInPlace, InPlace
<1>7. AscendingUnlessCut'
  <2>1. ~cut => Ascends(files)
    BY DEF WriterInv, AscendingUnlessCut, Ascends
  <2>2. ~cut => Ascends(g)
    BY <1>1, <1>2, <2>1, FilesState, AppendAscends
  <2>3. \A u, v \in Segment : u < v =>
           \A i \in 1..Len(g[u]), j \in 1..Len(g[v]) : g[u][i] < g[v][j]
    BY <1>3, <1>4, InPlaceOrdered
  <2> QED BY <1>5, <2>2, <2>3 DEF AscendingUnlessCut, Ascends
<1> QED BY <1>3, <1>5, <1>6, <1>7, FilesState

\* A call of write(2) appends the next records of the buffer: what they are.
LEMMA FlushWriteFiles ==
    ASSUME WriterInv, NEW n \in 1..BufferSize, FlushWrite(n)
    PROVE  /\ files' \in Files /\ FilesInPlace' /\ AscendingUnlessCut'
           /\ Stored \subseteq Stored'
           /\ \A i \in 1..sent + n : writer.buf[i] \in Stored'
           /\ \A l \in Stored' \ Stored : \E i \in sent + 1..sent + n : l = writer.buf[i]
           /\ \A s \in NonEmpty' : s <= writer.seg
           /\ GetLastWrittenPartitionLSN' = writer.buf[sent + n]
           /\ sent + n \in 1..Len(writer.buf) /\ sent \in Nat /\ n \in Nat \ {0}
<1> USE DEF FlushWrite
<1> DEFINE b == writer.buf
           t == SubSeq(writer.buf, sent + 1, sent + n)
<1>1. /\ TypeOK /\ writer.fd # "absent" /\ b \in Seq(Lsn) /\ Len(b) \in Nat
      /\ sent \in Nat /\ sent < Len(b)
  BY WriterFields DEF WriterInv, WriterControl, TypeOK
<1>2. n \in Nat \ {0} /\ sent + n <= Len(b)
  BY SizeFacts
<1>3. /\ t \in Seq(Lsn) /\ Len(t) = n
      /\ \A i \in 1..n : sent + i \in 1..Len(b) /\ t[i] = b[sent + i]
  BY <1>1, <1>2, SubSeqFacts
<1>4. t # <<>> /\ b # <<>> /\ n \in 1..n
  BY <1>1, <1>2, <1>3, RangeFacts
<1>5. writer.fd = "open" /\ writer.seg \in Segment
  <2>1. writer.fd = "open"
    BY <1>4 DEF WriterInv, BufferHasFile
  <2>2. writer.seg # 0
    BY <2>1 DEF WriterInv, WriterControl
  <2> QED BY <1>1, <2>1, <2>2, WriterFields
<1>6. \A i \in 1..Len(t) : FileSeg(t[i]) = writer.seg /\ t[i] \in Range(wal)
  BY <1>3, <1>4 DEF WriterInv, BufferHasFile, BufferAscends
<1>7. ASSUME NEW i \in 1..Len(t), NEW j \in 1..Len(t), i < j PROVE t[i] < t[j]
  <2>1. sent + i < sent + j
    BY <1>1, <1>2, <1>3, <1>7
  <2> QED BY <1>3, <2>1 DEF WriterInv, BufferAscends
<1>8. ASSUME ~cut, NEW i \in 1..Len(t), NEW l \in Stored PROVE l < t[i]
  <2>1. sent + i \in sent + 1..Len(b)
    BY <1>1, <1>2, <1>3
  <2> QED BY <1>3, <1>8, <2>1 DEF WriterInv, BufferAboveFiles
<1>9. \A u \in NonEmpty : u <= writer.seg
  BY <1>4 DEF WriterInv, WatermarkAbove
<1>10. files' = [files EXCEPT ![writer.seg] = @ \o t] /\ wal' = wal /\ cut' = cut
  OBVIOUS
<1> HIDE DEF t, FlushWrite
<1>a. files' \in Files /\ Appended(files, files', writer.seg, t)
  BY <1>1, <1>3, <1>5, <1>10, WriterFields, AppendedFacts
<1>b. AtTop(files, writer.seg)
  BY <1>9, FilesState DEF AtTop
<1>11. /\ files' \in Files /\ FilesInPlace' /\ AscendingUnlessCut'
       /\ Stored' = Stored \cup Range(t)
       /\ NonEmpty' = NonEmpty \cup {writer.seg}
       /\ GetLastWrittenPartitionLSN' = t[Len(t)]
  BY <1>3, <1>4, <1>5, <1>6, <1>7, <1>8, <1>10, <1>a, <1>b, FilesGrow
<1>12. ASSUME NEW i \in 1..sent + n PROVE b[i] \in Stored'
  <2>1. CASE i \in 1..sent
    BY <1>11, <2>1 DEF WriterInv, BufferAboveFiles
  <2>2. CASE i \notin 1..sent
    <3>1. i - sent \in 1..n /\ i = sent + (i - sent)
      BY <1>1, <1>2, <2>2
    <3>2. b[i] = t[i - sent]
      BY <1>3, <3>1
    <3> QED BY <1>3, <1>11, <3>1, <3>2, RangeFacts
  <2> QED BY <2>1, <2>2
<1>13. ASSUME NEW l \in Stored' \ Stored PROVE \E i \in sent + 1..sent + n : l = b[i]
  <2>1. PICK i \in 1..n : l = t[i]
    BY <1>3, <1>11, <1>13, RangeFacts
  <2>2. sent + i \in sent + 1..sent + n /\ l = b[sent + i]
    BY <1>1, <1>2, <1>3, <2>1
  <2> QED BY <2>2
<1>14. \A s \in NonEmpty' : s <= writer.seg
  <2>1. writer.seg <= writer.seg
    BY <1>5, FileSegFacts DEF Segment
  <2> QED BY <1>9, <1>11, <2>1
<1>15. GetLastWrittenPartitionLSN' = b[sent + n]
  BY <1>3, <1>4, <1>11
<1>16. sent + n \in 1..Len(b)
  BY <1>1, <1>2
<1>17. Stored \subseteq Stored'
  BY <1>11
<1> QED BY <1>1, <1>2, <1>11, <1>12, <1>13, <1>14, <1>15, <1>16, <1>17

\* write(2) takes some records of the buffer, perhaps the rest of it.
LEMMA FlushWriteInv ==
    ASSUME WriterInv, NEW n \in 1..BufferSize, FlushWrite(n)
    PROVE  WriterInv'
<1> DEFINE b == writer.buf
<1>1. /\ files' \in Files /\ FilesInPlace' /\ AscendingUnlessCut'
      /\ Stored \subseteq Stored'
      /\ \A i \in 1..sent + n : b[i] \in Stored'
      /\ \A l \in Stored' \ Stored : \E i \in sent + 1..sent + n : l = b[i]
      /\ \A s \in NonEmpty' : s <= writer.seg
      /\ GetLastWrittenPartitionLSN' = b[sent + n]
      /\ sent + n \in 1..Len(b) /\ sent \in Nat /\ n \in Nat \ {0}
  BY FlushWriteFiles
<1>2. /\ TypeOK /\ b \in Seq(Lsn) /\ Len(b) \in Nat /\ writer.fd # "absent" /\ pc = "flush"
      /\ \A i \in 1..Len(b) : b[i] \in Lsn /\ b[i] \in Int /\ b[i] <= writer.last
  BY WriterFields DEF WriterInv, WriterControl, FlushWrite, BufferAscends
<1>3. /\ UNCHANGED <<wal, pos, hdr, then, serverVars, failures, accepted, dropped, cut>>
      /\ sent' = IF sent + n = Len(b) THEN 0 ELSE sent + n
  BY DEF FlushWrite, SentAfter
<1>4. CASE sent + n = Len(b)
  <2>1. sent' = 0 /\ pc' = then /\ writer' = FlushEnd(writer)
    BY <1>4 DEF FlushWrite, SentAfter
  <2>2. /\ writer' \in Writer /\ writer'.buf = <<>>
        /\ then = "exited" => writer' = NoWriter
        /\ then # "exited" => writer'.fd = writer.fd /\ writer'.seg = writer.seg /\ writer'.last = writer.last
    <3>1. CASE then = "exited"
      BY <2>1, <3>1, NoWriterType DEF FlushEnd
    <3>2. CASE then # "exited"
      <4>1. writer' = [writer EXCEPT !.buf = <<>>] /\ writer \in Writer
        BY <1>2, <2>1, <3>2 DEF FlushEnd, TypeOK
      <4>2. <<>> \in Seq(Lsn)
        OBVIOUS
      <4> QED BY <3>2, <4>1, <4>2 DEF Writer
    <3> QED BY <3>1, <3>2
  <2>3. Len(writer'.buf) = 0 /\ 1..Len(writer'.buf) = {} /\ 1..sent' = {}
        /\ sent' + 1..Len(writer'.buf) = {}
    BY <2>1, <2>2, EmptyFacts
  <2>4. TypeOK'
    BY <1>1, <1>2, <1>3, <2>1, <2>2, <2>3 DEF TypeOK, WorkerPc, Files, serverVars
  <2>5. WriterControl'
    BY <1>2, <1>3, <2>1, <2>2, NoWriterType DEF WriterInv, WriterControl, Writing, TypeOK
  <2>6. BufferHasFile'
    BY <2>2, <2>3, SizeFacts DEF BufferHasFile
  <2>7. AcceptedThere'
    <3>1. Range(b) \subseteq Stored'
      BY <1>1, <1>2, <1>4, RangeFacts
    <3> QED BY <1>1, <1>3, <3>1 DEF WriterInv, AcceptedThere
  <2>8. BufferAscends'
    BY <2>3 DEF BufferAscends
  <2>9. WatermarkAbove'
    BY <1>1, <1>2, <2>2, NoWriterType DEF WatermarkAbove
  <2>10. BufferAboveFiles'
    BY <2>3 DEF BufferAboveFiles
  <2>11. FlushedUnlessFailed'
    BY <2>2 DEF FlushedUnlessFailed
  <2> QED BY <1>1, <2>4, <2>5, <2>6, <2>7, <2>8, <2>9, <2>10, <2>11 DEF WriterInv
<1>5. CASE sent + n # Len(b)
  <2>1. sent' = sent + n /\ pc' = pc /\ writer' = writer
    BY <1>5 DEF FlushWrite, SentAfter
  <2>2. sent' < Len(b) /\ sent' \in 0..Len(b)
    BY <1>1, <1>2, <1>5, <2>1
  <2>3. TypeOK'
    BY <1>1, <1>2, <1>3, <2>1, <2>2 DEF TypeOK, Files, serverVars
  <2>4. WriterControl'
    BY <1>2, <1>3, <2>1, <2>2 DEF WriterInv, WriterControl, Writing
  <2>5. BufferHasFile'
    BY <2>1 DEF WriterInv, BufferHasFile
  <2>6. AcceptedThere'
    BY <1>1, <1>3, <2>1 DEF WriterInv, AcceptedThere
  <2>7. BufferAscends'
    BY <1>3, <2>1 DEF WriterInv, BufferAscends
  <2>8. WatermarkAbove'
    BY <1>1, <1>2, <2>1 DEF WatermarkAbove
  <2>9. \A i \in 1..Len(b), j \in 1..Len(b) : i < j => b[i] < b[j]
    BY DEF WriterInv, BufferAscends
  <2>10. \A i \in sent' + 1..Len(b) : i \in 1..Len(b) /\ sent + n < i
    BY <1>1, <1>2, <2>1
  <2>11. \A i \in 1..Len(b) : i \in 1..sent + n \/ i \in sent' + 1..Len(b)
    BY <1>1, <1>2, <2>1
  <2>12. BufferAboveFiles'
    <3>1. \A i \in 1..Len(b) : b[i] \in Stored' \/ GetLastWrittenPartitionLSN' < b[i]
      BY <1>1, <2>9, <2>10, <2>11
    <3>2. ASSUME ~cut', NEW i \in sent' + 1..Len(b), NEW l \in Stored' PROVE l < b[i]
      <4>1. CASE l \in Stored
        <5>1. i \in sent + 1..Len(b)
          BY <1>1, <1>2, <2>1
        <5> QED BY <1>3, <3>2, <4>1, <5>1 DEF WriterInv, BufferAboveFiles
      <4>2. CASE l \notin Stored
        <5>1. PICK j \in sent + 1..sent + n : l = b[j]
          BY <1>1, <4>2
        <5>2. j \in 1..Len(b) /\ j < i
          BY <1>1, <1>2, <2>10, <5>1
        <5> QED BY <2>9, <2>10, <5>1, <5>2
      <4> QED BY <4>1, <4>2
    <3> QED BY <1>1, <2>1, <3>1, <3>2 DEF BufferAboveFiles
  <2>13. FlushedUnlessFailed'
    BY <1>2, <2>1 DEF FlushedUnlessFailed
  <2> QED BY <1>1, <2>3, <2>4, <2>5, <2>6, <2>7, <2>8, <2>12, <2>13 DEF WriterInv
<1> QED BY <1>4, <1>5

\* write(2) fails.
LEMMA FlushFailsInv ==
    ASSUME WriterInv, FlushFails
    PROVE  WriterInv'
<1>0. TypeOK /\ pc = "flush" /\ writer.fd # "absent" /\ Len(writer.buf) \in Nat /\ sent \in Nat
  BY WriterFields DEF WriterInv, WriterControl, FlushFails, TypeOK
<1>1. failures' \in 0..MaxFailures /\ failures' # 0
  BY <1>0, SizeFacts DEF TypeOK, FlushFails, Fail
<1>2. /\ sent' = 0 /\ cut' \in BOOLEAN /\ (cut => cut') /\ (sent > 0 => cut')
      /\ UNCHANGED <<wal, pos, hdr, then, files, serverVars>>
  BY <1>0 DEF FlushFails, TypeOK
<1>3. CASE then = "exited"
  <2>1. pc' = "down" /\ writer' = NoWriter /\ accepted' = {} /\ dropped' = {}
    BY <1>3 DEF FlushFails
  <2>2. Len(writer'.buf) = 0
    BY <2>1, NoWriterType, EmptyFacts
  <2>3. TypeOK'
    BY <1>0, <1>1, <1>2, <2>1, <2>2, NoWriterType DEF TypeOK, WorkerPc, serverVars
  <2>4. WriterControl'
    BY <1>2, <2>1, NoWriterType DEF WriterControl, Writing
  <2> QED BY <1>2, <2>1, <2>3, <2>4, NoWriterType, EmptyBuffer
<1>4. CASE then # "exited"
  <2>1. /\ pc' \in {"destroy", "read"}
        /\ writer' = [writer EXCEPT !.stalled = TRUE, !.buf = writer.buf]
        /\ accepted' = accepted /\ dropped' = dropped
    BY <1>4 DEF FlushFails, BufferAfterError
  <2>2. /\ writer' \in Writer /\ writer'.buf = writer.buf /\ writer'.last = writer.last
        /\ writer'.fd = writer.fd /\ writer'.seg = writer.seg
    BY <1>0, <2>1 DEF TypeOK, Writer
  <2>3. TypeOK'
    BY <1>0, <1>1, <1>2, <2>1, <2>2 DEF TypeOK, WorkerPc, serverVars
  <2>4. WriterControl'
    BY <1>0, <1>2, <2>1, <2>2 DEF WriterInv, WriterControl, Writing
  <2>5. FlushedUnlessFailed'
    BY <1>1 DEF FlushedUnlessFailed
  <2>6. sent' # sent => cut'
    BY <1>0, <1>2
  <2> QED BY <1>0, <1>2, <2>1, <2>2, <2>3, <2>4, <2>5, <2>6, KeepBuffer
<1> QED BY <1>3, <1>4

(***************************************************************************)
(* Crash and recovery                                                      *)
(***************************************************************************)

\* The server crashes.
LEMMA CrashInv ==
    ASSUME WriterInv, Crash
    PROVE  WriterInv'
<1>0. TypeOK /\ wal \in Seq(Lsn)
  BY DEF WriterInv, TypeOK
<1>1. /\ crashes' \in 0..MaxCrashes /\ pc' = "redo" /\ replayed' = 0 /\ pos' = 0 /\ hdr' = 0
      /\ then' = "read" /\ sent' = 0 /\ writer' = NoWriter /\ accepted' = {} /\ dropped' = {}
      /\ cut' \in BOOLEAN /\ (cut => cut') /\ UNCHANGED <<wal, files, failures>>
  BY <1>0, SizeFacts DEF Crash, TypeOK
<1>2. floor' \in {0} \cup Lsn
  <2>1. MaxLsn \in Nat /\ Range(wal) \in SUBSET Lsn
    BY <1>0, RangeFacts, SizeFacts
  <2>2. {0} \cup Range(wal) \in SUBSET (0..MaxLsn)
    BY <2>1 DEF Lsn
  <2>3. Max({0} \cup Range(wal)) \in {0} \cup Range(wal)
    BY <2>1, <2>2, MaxFacts
  <2> QED BY <2>1, <2>3 DEF Crash
<1>3. Len(writer'.buf) = 0 /\ Len(wal) \in Nat
  BY <1>0, <1>1, NoWriterType, EmptyFacts, WriterFields
<1>4. TypeOK'
  BY <1>0, <1>1, <1>2, <1>3, NoWriterType DEF TypeOK, WorkerPc
<1>5. WriterControl'
  BY <1>1, NoWriterType DEF WriterControl, Writing
<1> QED BY <1>1, <1>4, <1>5, NoWriterType, EmptyBuffer

\* A header is replayed: it is skipped, or appended above the last record.
LEMMA PartdistRedoInv ==
    ASSUME WriterInv, PartdistRedo
    PROVE  /\ WriterInv'
           /\ \/ files' = files
              \/ \E l \in Range(wal) : /\ GetLastWrittenPartitionLSN < l
                                       /\ Stored' = Stored \cup {l}
                                       /\ GetLastWrittenPartitionLSN' = l
<1> DEFINE l == wal[replayed + 1]
<1>0. /\ TypeOK /\ wal \in Seq(Lsn) /\ Len(wal) \in Nat /\ replayed \in Nat
      /\ replayed + 1 \in 1..Len(wal) /\ writer.fd = "absent" /\ sent = 0
      /\ writer = NoWriter /\ writer.buf = <<>>
  BY WriterFields, NoWriterType DEF WriterInv, WriterControl, TypeOK, PartdistRedo
<1>1. /\ replayed' = replayed + 1
      /\ files' = IF RedoAlreadyWritten(l) THEN files
                  ELSE [files EXCEPT ![FileSeg(l)] = Append(@, l)]
      /\ UNCHANGED <<wal, pc, pos, hdr, then, sent, writer, floor, failures, crashes,
                     accepted, dropped, cut>>
  BY DEF PartdistRedo
<1>2. PICK m \in Lsn : m = l /\ m \in Range(wal)
  BY <1>0, RangeFacts
<1>3. replayed' \in 0..Len(wal')
  BY <1>0, <1>1
<1>4. WriterControl'
  BY <1>1 DEF WriterInv, WriterControl, Writing
<1>5. CASE RedoAlreadyWritten(l)
  <2>1. files' = files
    BY <1>1, <1>5
  <2>2. TypeOK'
    BY <1>0, <1>1, <1>3, <2>1 DEF TypeOK
  <2>3. FlushedUnlessFailed'
    BY <1>1 DEF WriterInv, FlushedUnlessFailed
  <2>4. WriterInv'
    BY <1>1, <1>4, <2>1, <2>2, <2>3, KeepBuffer
  <2> QED BY <2>1, <2>4
<1>6. CASE ~RedoAlreadyWritten(l)
  <2> DEFINE t == <<m>>
             last == GetLastWrittenPartitionLSN
  <2>1. FileSeg(m) \in Segment /\ t \in Seq(Lsn) /\ t # <<>> /\ Len(t) = 1 /\ t[1] = m
        /\ \A i \in 1..Len(t) : i = 1 /\ t[i] = m
    BY FileSegFacts
  <2>2. last \in {0} \cup Lsn /\ last < m
    <3>1. last \in {0} \cup Lsn
      BY <1>0, FilesState, FilesFacts, WriterFields
    <3> QED BY <1>2, <1>6, <3>1, SizeFacts DEF RedoAlreadyWritten, Lsn
  <2>3. files' = [files EXCEPT ![FileSeg(m)] = @ \o t]
    <3>1. files[FileSeg(m)] \in Seq(Lsn)
      BY <1>0, <2>1 DEF TypeOK
    <3>2. Append(files[FileSeg(m)], m) = files[FileSeg(m)] \o t
      BY <3>1
    <3> QED BY <1>0, <1>1, <1>2, <1>6, <2>1, <3>2 DEF TypeOK
  <2>4. \A u \in NonEmpty : u <= FileSeg(m)
    <3>1. InPlace(files) /\ files \in Files
      BY <1>0, WriterFields DEF WriterInv, FilesInPlace, InPlace
    <3> TAKE u \in NonEmpty
    <3>2. last \in Lsn /\ u <= FileSeg(last) /\ u \in Segment
      BY <3>1, FilesState, FilesFacts DEF NonEmpty
    <3>3. FileSeg(last) <= FileSeg(m) /\ FileSeg(last) \in Segment
      BY <2>2, <3>2, FileSegFacts DEF Lsn
    <3>4. \A v \in Segment : v \in Int
      BY FileSegFacts DEF Segment
    <3> QED BY <2>1, <3>2, <3>3, <3>4
  <2>5. ASSUME ~cut, NEW k \in Stored PROVE k < m
    <3>1. k <= last /\ k \in Lsn
      BY <1>0, <2>5, LastIsHighest, FilesState, FilesFacts, WriterFields DEF WriterInv
    <3> QED BY <2>2, <3>1, SizeFacts DEF Lsn
  <2>6. \A i, j \in 1..Len(t) : i < j => t[i] < t[j]
    BY <2>1
  <2> HIDE DEF t
  <2>a. files' \in Files /\ Appended(files, files', FileSeg(m), t)
    BY <1>0, <2>1, <2>3, WriterFields, AppendedFacts
  <2>b. AtTop(files, FileSeg(m))
    BY <2>4, FilesState DEF AtTop
  <2>c. \A i \in 1..Len(t) : FileSeg(t[i]) = FileSeg(m) /\ t[i] \in Range(wal)
    BY <1>2, <2>1
  <2>d. ~cut => \A i \in 1..Len(t) : \A k \in Stored : k < t[i]
    BY <2>1, <2>5
  <2>7. /\ files' \in Files /\ FilesInPlace' /\ AscendingUnlessCut'
        /\ Stored' = Stored \cup Range(t)
        /\ NonEmpty' = NonEmpty \cup {FileSeg(m)}
        /\ GetLastWrittenPartitionLSN' = t[Len(t)]
    BY <1>1, <2>1, <2>6, <2>a, <2>b, <2>c, <2>d, FilesGrow
  <2>8. Range(t) = {m}
    BY <2>1, RangeFacts
  <2>9. TypeOK'
    BY <1>0, <1>1, <1>3, <2>7 DEF TypeOK, Files
  <2>10. Len(writer'.buf) = 0 /\ 1..Len(writer'.buf) = {} /\ 1..sent' = {}
         /\ sent' + 1..Len(writer'.buf) = {}
    BY <1>0, <1>1, EmptyFacts
  <2>11. BufferHasFile' /\ BufferAscends' /\ BufferAboveFiles' /\ FlushedUnlessFailed'
    BY <1>0, <1>1, <2>10, SizeFacts
       DEF BufferHasFile, BufferAscends, BufferAboveFiles, FlushedUnlessFailed
  <2>12. WatermarkAbove'
    BY <1>0, <1>1 DEF WatermarkAbove
  <2>13. AcceptedThere'
    BY <1>1, <2>7 DEF WriterInv, AcceptedThere
  <2>14. WriterInv'
    BY <1>4, <2>7, <2>9, <2>11, <2>12, <2>13 DEF WriterInv
  <2> QED BY <1>2, <2>1, <2>2, <2>7, <2>8, <2>14
<1> QED BY <1>5, <1>6

\* Recovery ends with an error and begins again.
LEMMA RedoFailsInv ==
    ASSUME WriterInv, RedoFails
    PROVE  WriterInv'
<1> USE DEF RedoFails
<1>1. failures' \in 0..MaxFailures /\ failures' # 0 /\ replayed' = 0
  BY SizeFacts DEF WriterInv, TypeOK, Fail
<1>2. TypeOK'
  BY <1>1, WriterFields DEF WriterInv, TypeOK
<1>3. WriterControl'
  BY DEF WriterInv, WriterControl, Writing
<1>4. FlushedUnlessFailed'
  BY <1>1 DEF FlushedUnlessFailed
<1> QED BY <1>2, <1>3, <1>4, KeepBuffer

\* Recovery is complete.
LEMMA EndRecoveryInv ==
    ASSUME WriterInv, EndRecovery
    PROVE  WriterInv'
<1> USE DEF EndRecovery
<1>1. TypeOK'
  BY WriterFields DEF WriterInv, TypeOK, WorkerPc
<1>2. WriterControl'
  BY DEF WriterInv, WriterControl, Writing
<1>3. FlushedUnlessFailed'
  BY NoWriterType DEF WriterInv, FlushedUnlessFailed, WriterControl
<1> QED BY <1>1, <1>2, <1>3, KeepBuffer

(***************************************************************************)
(* The theorems                                                            *)
(***************************************************************************)

\* The invariant holds when the worker starts for the first time.
LEMMA WriterInit == Init => WriterInv
<1> SUFFICES ASSUME Init PROVE WriterInv
  OBVIOUS
<1> USE DEF Init
<1>1. \A s \in Segment : files[s] = <<>> /\ Len(files[s]) = 0 /\ 1..Len(files[s]) = {}
  BY EmptyFacts
<1>2. /\ Len(wal) = 0 /\ Len(writer.buf) = 0 /\ 1..Len(writer.buf) = {} /\ 1..sent = {}
      /\ sent + 1..Len(writer.buf) = {} /\ writer.buf = <<>> /\ writer.fd = "absent"
  BY EmptyFacts, NoWriterType
<1>3. TypeOK
  <2>1. wal \in Seq(Lsn) /\ files \in [Segment -> Seq(Lsn)]
    OBVIOUS
  <2>2. /\ pos \in 0..Len(wal) /\ replayed \in 0..Len(wal) /\ sent \in 0..Len(writer.buf)
        /\ failures \in 0..MaxFailures /\ crashes \in 0..MaxCrashes
    BY <1>2, SizeFacts
  <2> QED BY <2>1, <2>2, NoWriterType DEF TypeOK, WorkerPc
<1>4. BufferHasFile /\ AcceptedThere /\ BufferAscends /\ BufferAboveFiles /\ FlushedUnlessFailed
  BY <1>2, SizeFacts DEF BufferHasFile, AcceptedThere, BufferAscends, BufferAboveFiles,
                         FlushedUnlessFailed
<1>5. AscendingUnlessCut /\ FilesInPlace
  BY <1>1 DEF AscendingUnlessCut, FilesInPlace
<1>6. WriterControl
  BY NoWriterType DEF WriterControl, Writing
<1>7. WatermarkAbove
  BY <1>2 DEF WatermarkAbove
<1> QED BY <1>3, <1>4, <1>5, <1>6, <1>7 DEF WriterInv

\* Every step preserves the invariant.
LEMMA WriterNext == WriterInv /\ [Next]_vars => WriterInv'
<1> SUFFICES ASSUME WriterInv, [Next]_vars PROVE WriterInv'
  OBVIOUS
<1>1. CASE UNCHANGED vars
  <2> USE <1>1 DEF vars
  <2>1. TypeOK'
    BY DEF WriterInv, TypeOK
  <2>2. WriterControl'
    BY DEF WriterInv, WriterControl, Writing
  <2>3. FlushedUnlessFailed'
    BY DEF WriterInv, FlushedUnlessFailed
  <2> QED BY <2>1, <2>2, <2>3, KeepBuffer
<1>2. CASE \E l \in Lsn : InsertHeader(l)
  BY <1>2, InsertHeaderInv
<1>3. CASE \E n \in 1..BufferSize : FlushWrite(n)
  BY <1>3, FlushWriteInv
<1>4. CASE DemuxStart \/ DemuxCaughtUp \/ DemuxRead \/ DemuxStop
  BY <1>4, DemuxStartInv, DemuxCaughtUpInv, DemuxReadInv, DemuxStopInv
<1>5. CASE CreatePartitionWALWriter \/ CreateFails \/ DestroyPartitionWALWriter
  BY <1>5, CreateInv, CreateFailsInv, DestroyInv
<1>6. CASE DemuxSkip \/ DemuxWrite \/ OpenWriterSegment \/ OpenFails
  BY <1>6, DemuxSkipInv, DemuxWriteInv, OpenWriterSegmentInv, OpenFailsInv
<1>7. CASE FlushFullBuffer \/ BufferHeader \/ FlushFails
  BY <1>7, FlushFullBufferInv, BufferHeaderInv, FlushFailsInv
<1>8. CASE Crash \/ PartdistRedo \/ RedoFails \/ EndRecovery
  BY <1>8, CrashInv, PartdistRedoInv, RedoFailsInv, EndRecoveryInv
<1> QED BY <1>1, <1>2, <1>3, <1>4, <1>5, <1>6, <1>7, <1>8 DEF Next, DemuxLoop

\* The inductive invariant of the writer holds in every state.
THEOREM WriterInvariant == Spec => []WriterInv
<1>1. Init => WriterInv
  BY WriterInit
<1>2. WriterInv /\ [Next]_vars => WriterInv'
  BY WriterNext
<1> QED BY <1>1, <1>2, PTL DEF Spec

\* The variables of the worker, the writer, the files and the recovery keep
\* their types.
THEOREM WriterTypeCorrect == Spec => []TypeOK
<1>1. WriterInv => TypeOK
  BY DEF WriterInv
<1> QED BY <1>1, WriterInvariant, PTL

\* Headers are buffered only while their file is open, at most as many as fit:
\* FlushPartitionWALWriter's return without an open file and the switch of the
\* file lose nothing.
THEOREM BufferAlwaysHasFile == Spec => []BufferHasFile
<1>1. WriterInv => BufferHasFile
  BY DEF WriterInv
<1> QED BY <1>1, WriterInvariant, PTL

\* Reading and dropping: most steps leave the WAL and the reader alone, keep the
\* buffer or empty it, and drop nothing.
LEMMA KeepReadInOrder ==
    ASSUME ReadInOrder, UNCHANGED <<wal, pos>>,
           writer'.buf \in {writer.buf, <<>>}, dropped' \in {dropped, {}},
           pc' = "check" => pc = "check" \/ writer'.buf = <<>>,
           pc' \in {"create", "check"} \/ Writing' =>
               /\ pc \in {"create", "check"} \/ Writing
               /\ hdr' = hdr
    PROVE  ReadInOrder'
<1>1. (pc \in {"create", "check"} \/ Writing => pos > 0 /\ hdr = wal[pos])'
  BY DEF ReadInOrder
<1>2. (\A k \in 1..Len(writer.buf) :
          \E i \in 1..pos : wal[i] = writer.buf[k] /\ (pc = "check" => i < pos))'
  BY DEF ReadInOrder
<1>3. (dropped \subseteq OvertookFirst)'
  BY DEF ReadInOrder, OvertookFirst
<1> QED BY <1>1, <1>2, <1>3 DEF ReadInOrder

\* A backend inserts a header behind those that are there.
LEMMA InsertReadInOrder ==
    ASSUME WriterInv, ReadInOrder, NEW l \in Lsn, InsertHeader(l)
    PROVE  ReadInOrder'
<1>1. /\ wal \in Seq(Lsn) /\ pos \in 0..Len(wal) /\ Len(wal) \in Nat
      /\ Len(wal') = Len(wal) + 1 /\ \A i \in 1..Len(wal) : wal'[i] = wal[i]
      /\ UNCHANGED <<pc, pos, hdr, then, writer, dropped>>
  BY DEF WriterInv, TypeOK, InsertHeader
<1>2. (pc \in {"create", "check"} \/ Writing => pos > 0 /\ hdr = wal[pos])'
  BY <1>1 DEF ReadInOrder, Writing
<1>3. (\A k \in 1..Len(writer.buf) :
          \E i \in 1..pos : wal[i] = writer.buf[k] /\ (pc = "check" => i < pos))'
  <2> SUFFICES ASSUME NEW k \in 1..Len(writer.buf)
               PROVE  \E i \in 1..pos : wal'[i] = writer.buf[k] /\ (pc = "check" => i < pos)
    BY <1>1
  <2>1. PICK i \in 1..pos : wal[i] = writer.buf[k] /\ (pc = "check" => i < pos)
    BY DEF ReadInOrder
  <2> QED BY <1>1, <2>1
<1>4. OvertookFirst \subseteq OvertookFirst'
  <2> SUFFICES ASSUME NEW m \in OvertookFirst PROVE m \in OvertookFirst'
    OBVIOUS
  <2>1. PICK i, j \in 1..Len(wal) : i < j /\ wal[i] = m /\ wal[j] = 1
    BY DEF OvertookFirst
  <2>2. i \in 1..Len(wal') /\ j \in 1..Len(wal') /\ wal'[i] = m /\ wal'[j] = 1
    BY <1>1, <2>1
  <2> QED BY <2>1, <2>2 DEF OvertookFirst
<1> QED BY <1>1, <1>2, <1>3, <1>4 DEF ReadInOrder

\* The next header is read: those in the buffer were read before it.
LEMMA DemuxReadReadInOrder ==
    ASSUME WriterInv, ReadInOrder, DemuxRead
    PROVE  ReadInOrder'
<1> USE DEF DemuxRead
<1>1. pos \in 0..Len(wal) /\ Len(wal) \in Nat
  BY DEF WriterInv, TypeOK
<1>2. (pc \in {"create", "check"} \/ Writing => pos > 0 /\ hdr = wal[pos])'
  BY <1>1
<1>3. (\A k \in 1..Len(writer.buf) :
          \E i \in 1..pos : wal[i] = writer.buf[k] /\ (pc = "check" => i < pos))'
  <2> SUFFICES ASSUME NEW k \in 1..Len(writer.buf)
               PROVE  \E i \in 1..pos + 1 : wal[i] = writer.buf[k] /\ i < pos + 1
    BY <1>1
  <2>1. PICK i \in 1..pos : wal[i] = writer.buf[k]
    BY DEF ReadInOrder
  <2> QED BY <1>1, <2>1
<1>4. (dropped \subseteq OvertookFirst)'
  BY DEF ReadInOrder, OvertookFirst
<1> QED BY <1>2, <1>3, <1>4 DEF ReadInOrder

\* Header 1 is checked and the buffer dropped: what it holds was read before.
LEMMA CheckReadInOrder ==
    ASSUME WriterInv, ReadInOrder, DemuxSkip \/ DemuxWrite
    PROVE  ReadInOrder'
<1>1. /\ pc = "check" /\ writer' = AfterUnstall /\ DropOnReset
      /\ UNCHANGED <<wal, pos, hdr>> /\ pc' # "check" /\ pc' # "create"
  BY DEF DemuxSkip, DemuxWrite
<1>2. writer'.buf \in {writer.buf, <<>>}
  BY <1>1, AfterUnstallFacts
<1>3. (pc \in {"create", "check"} \/ Writing => pos > 0 /\ hdr = wal[pos])'
  BY <1>1 DEF ReadInOrder
<1>4. (\A k \in 1..Len(writer.buf) :
          \E i \in 1..pos : wal[i] = writer.buf[k] /\ (pc = "check" => i < pos))'
  BY <1>1, <1>2 DEF ReadInOrder
<1>5. OvertookFirst' = OvertookFirst
  BY <1>1 DEF OvertookFirst
<1>6. ResetDetected => Range(writer.buf) \subseteq OvertookFirst
  <2> SUFFICES ASSUME ResetDetected, NEW l \in Range(writer.buf)
               PROVE  l \in OvertookFirst
    OBVIOUS
  <2>1. writer.buf \in Seq(Lsn) /\ pos \in 0..Len(wal) /\ Len(wal) \in Nat
    BY WriterFields DEF WriterInv, TypeOK
  <2>2. l \in Lsn /\ \E k \in 1..Len(writer.buf) : writer.buf[k] = l
    BY <2>1, RangeFacts
  <2>3. PICK i \in 1..pos : wal[i] = l /\ i < pos
    BY <1>1, <2>2 DEF ReadInOrder
  <2>4. wal[pos] = 1
    BY <1>1 DEF ReadInOrder, ResetDetected
  <2> QED BY <2>1, <2>2, <2>3, <2>4 DEF OvertookFirst
<1>7. (dropped \subseteq OvertookFirst)'
  BY <1>1, <1>5, <1>6 DEF ReadInOrder, DropOnReset
<1> QED BY <1>3, <1>4, <1>7 DEF ReadInOrder

\* The header that is buffered is the one read last.
LEMMA BufferReadInOrder ==
    ASSUME WriterInv, ReadInOrder, BufferHeader
    PROVE  ReadInOrder'
<1>1. /\ pc = "buffer" /\ UNCHANGED <<wal, pos, hdr, dropped>>
      /\ pc' = "flush" /\ then' = "read"
      /\ writer'.buf = Append(writer.buf, hdr)
  BY WriterFields DEF BufferHeader, WriterInv, TypeOK
<1>2. writer.buf \in Seq(Lsn) /\ pos \in 0..Len(wal) /\ Len(wal) \in Nat
  BY WriterFields DEF WriterInv, TypeOK
<1>3. pos > 0 /\ hdr = wal[pos]
  BY <1>1 DEF ReadInOrder, Writing
<1>4. (pc \in {"create", "check"} \/ Writing => pos > 0 /\ hdr = wal[pos])'
  BY <1>1, <1>3
<1>5. (\A k \in 1..Len(writer.buf) :
          \E i \in 1..pos : wal[i] = writer.buf[k] /\ (pc = "check" => i < pos))'
  <2> SUFFICES ASSUME NEW k \in 1..Len(writer'.buf)
               PROVE  \E i \in 1..pos : wal[i] = writer'.buf[k]
    BY <1>1
  <2>1. CASE k = Len(writer.buf) + 1
    BY <1>1, <1>2, <1>3, <2>1
  <2>2. CASE k \in 1..Len(writer.buf) /\ writer'.buf[k] = writer.buf[k]
    BY <2>2 DEF ReadInOrder
  <2> QED BY <1>1, <1>2, <2>1, <2>2
<1>6. (dropped \subseteq OvertookFirst)'
  BY <1>1 DEF ReadInOrder, OvertookFirst
<1> QED BY <1>4, <1>5, <1>6 DEF ReadInOrder

\* Every step keeps the order of reading.
LEMMA ReadInOrderNext ==
    ASSUME WriterInv, ReadInOrder, [Next]_vars
    PROVE  ReadInOrder'
<1> USE DEF serverVars, Fail
<1>0. writer \in Writer /\ NoWriter.buf = <<>>
  BY DEF WriterInv, TypeOK, NoWriter
<1>1. CASE UNCHANGED vars
  BY <1>1, KeepReadInOrder DEF vars, Writing
<1>2. CASE \E l \in Lsn : InsertHeader(l)
  BY <1>2, InsertReadInOrder
<1>3. CASE DemuxRead
  BY <1>3, DemuxReadReadInOrder
<1>4. CASE DemuxSkip \/ DemuxWrite
  BY <1>4, CheckReadInOrder
<1>5. CASE BufferHeader
  BY <1>5, BufferReadInOrder
<1>6. CASE DemuxCaughtUp \/ DemuxStop \/ FlushFullBuffer
  BY <1>6, KeepReadInOrder DEF DemuxCaughtUp, DemuxStop, FlushFullBuffer, Writing
<1>7. CASE CreatePartitionWALWriter \/ CreateFails
  <2>1. writer'.buf \in {writer.buf, <<>>} /\ (pc' = "check" => writer'.buf = <<>>)
    BY <1>0, <1>7 DEF CreatePartitionWALWriter, CreateFails, NoWriter
  <2> QED BY <1>7, <2>1, KeepReadInOrder DEF CreatePartitionWALWriter, CreateFails, Writing
<1>8. CASE OpenWriterSegment \/ OpenFails
  <2>1. writer'.buf = writer.buf
    BY <1>0, <1>8 DEF OpenWriterSegment, OpenFails, Writer
  <2> QED BY <1>8, <2>1, KeepReadInOrder DEF OpenWriterSegment, OpenFails, Writing
<1>9. CASE \E n \in 1..BufferSize : FlushWrite(n)
  <2>1. PICK n \in 1..BufferSize : FlushWrite(n)
    BY <1>9
  <2>2. writer'.buf \in {writer.buf, <<>>}
    BY <1>0, <2>1 DEF FlushWrite, FlushEnd, Writer
  <2>3. pc = "flush" /\ pc' \in {"flush", then} /\ then \notin {"create", "check"}
    BY <2>1 DEF FlushWrite, WriterInv, TypeOK
  <2> QED BY <2>1, <2>2, <2>3, KeepReadInOrder DEF FlushWrite, Writing
<1>10. CASE FlushFails
  <2>1. writer'.buf \in {writer.buf, <<>>}
    BY <1>0, <1>10 DEF FlushFails, BufferAfterError, Writer
  <2> QED BY <1>10, <2>1, KeepReadInOrder DEF FlushFails, Writing
<1>11. CASE DestroyPartitionWALWriter
  BY <1>0, <1>11, KeepReadInOrder DEF DestroyPartitionWALWriter, Writing
<1>12. CASE DemuxStart \/ Crash
  <2>1. writer'.buf = <<>> /\ wal' = wal /\ dropped' \in {dropped, {}}
        /\ pc' \in {"read", "redo"}
    BY <1>0, <1>12 DEF DemuxStart, Crash, WriterInv, WriterControl
  <2>2. (dropped \subseteq OvertookFirst)'
    BY <2>1 DEF ReadInOrder, OvertookFirst
  <2> QED BY <2>1, <2>2 DEF ReadInOrder, Writing
<1>13. CASE PartdistRedo \/ RedoFails \/ EndRecovery
  BY <1>13, KeepReadInOrder DEF PartdistRedo, RedoFails, EndRecovery, Writing
<1> QED BY <1>1, <1>2, <1>3, <1>4, <1>5, <1>6, <1>7, <1>8, <1>9, <1>10, <1>11, <1>12, <1>13
        DEF Next, DemuxLoop

\* No failing write, open or creation loses a header that WritePartitionWAL has
\* taken, while the worker lives and when it has exited; reset detection, which
\* takes an empty disk for removed files, drops only headers that overtook the
\* first one.
THEOREM AcceptedNeverLost == Spec => []AcceptedKept
<1>1. Init => ReadInOrder
  BY DEF Init, ReadInOrder, NoWriter, Writing
<1>2. WriterInv /\ ReadInOrder /\ [Next]_vars => ReadInOrder'
  BY ReadInOrderNext
<1>3. WriterInv /\ ReadInOrder => AcceptedKept
  BY DEF WriterInv, ReadInOrder, AcceptedKept
<1> QED BY <1>1, <1>2, <1>3, WriterInvariant, PTL DEF Spec

\* As long as no system call has failed, the buffer is empty when the worker looks
\* for the next record.
THEOREM EmptyAtTheTop == Spec => []FlushedAtTop
<1>1. WriterInv => FlushedAtTop
  BY DEF WriterInv, FlushedUnlessFailed, FlushedAtTop
<1> QED BY <1>1, WriterInvariant, PTL

\* As long as no write was cut, the files hold no header twice, in ascending
\* order, through failures, restarts and crashes.
THEOREM FilesAscendUnlessCut == Spec => []AscendingUnlessCut
<1>1. WriterInv => AscendingUnlessCut
  BY DEF WriterInv
<1> QED BY <1>1, WriterInvariant, PTL

\* The files start empty, as the log does.
LEMMA LogInit == Init => Log!Init
<1> SUFFICES ASSUME Init PROVE Log!Init
  OBVIOUS
<1>1. NonEmpty = {} /\ Range(wal) = {}
  BY EmptyFacts DEF Init, NonEmpty
<1>2. GetLastWrittenPartitionLSN = 0
  BY <1>1 DEF GetLastWrittenPartitionLSN
<1>3. Stored = {}
  BY EmptyFacts DEF Init, Stored
<1> QED BY <1>1, <1>2, <1>3 DEF Log!Init

\* A step that changes neither the WAL nor the files is a stuttering step of the log.
LEMMA LogStutter ==
    ASSUME wal' = wal, files' = files
    PROVE  UNCHANGED Log!vars
BY FilesState DEF Log!vars

\* A header inserted by a backend is offered.
LEMMA LogOffer ==
    ASSUME WriterInv, NEW l \in Lsn, InsertHeader(l)
    PROVE  Log!Offer
<1>1. wal \in Seq(Lsn)
  BY DEF WriterInv, TypeOK
<1>2. Range(wal') = Range(wal) \cup {l} /\ l \notin Range(wal)
  BY <1>1, AppendFacts DEF InsertHeader
<1>3. Stored' = Stored /\ GetLastWrittenPartitionLSN' = GetLastWrittenPartitionLSN
  BY FilesState DEF InsertHeader
<1> QED BY <1>2, <1>3 DEF Log!Offer

\* What write(2) appends is new and above the last record, or there already; then
\* the last record may go back.
LEMMA LogWrite ==
    ASSUME WriterInv, NEW n \in 1..BufferSize, FlushWrite(n)
    PROVE  Log!Store \/ Log!Rewind
<1> DEFINE b == writer.buf
           last == GetLastWrittenPartitionLSN
           top == writer.buf[sent + n]
           new == Stored' \ Stored
<1>1. /\ files' \in Files /\ FilesInPlace'
      /\ Stored \subseteq Stored'
      /\ \A i \in 1..sent + n : b[i] \in Stored'
      /\ \A l \in Stored' \ Stored : \E i \in sent + 1..sent + n : l = b[i]
      /\ GetLastWrittenPartitionLSN' = top
      /\ sent + n \in 1..Len(b) /\ sent \in Nat /\ n \in Nat \ {0}
  BY FlushWriteFiles
<1>2. wal' = wal
  BY DEF FlushWrite
<1>3. /\ TypeOK /\ Len(b) \in Nat
      /\ \A i \in 1..Len(b) : b[i] \in Lsn /\ b[i] \in Int
      /\ \A i, j \in 1..Len(b) : i < j => b[i] < b[j]
      /\ \A i \in 1..Len(b) : b[i] \in Range(wal)
      /\ \A i \in 1..Len(b) : b[i] \in Stored \/ last < b[i]
  BY WriterFields DEF WriterInv, BufferAscends, BufferAboveFiles
<1>4. last \in {0} \cup Lsn /\ last \in Int /\ (last = 0 => Stored = {})
  BY <1>3, FilesState, FilesFacts, WriterFields
<1>5. ASSUME NEW l \in new PROVE l \in Range(wal) /\ last < l /\ l <= top
  <2>1. PICK i \in sent + 1..sent + n : l = b[i]
    BY <1>1
  <2>2. i \in 1..Len(b) /\ (i < sent + n \/ i = sent + n)
    BY <1>1, <1>3, <2>1
  <2>3. l \in Range(wal) /\ last < l
    BY <1>3, <2>1, <2>2
  <2>4. l <= top
    BY <1>1, <1>3, <2>1, <2>2
  <2> QED BY <2>3, <2>4
<1>6. top \in Stored' /\ top \in Int
  BY <1>1, <1>3
<1>7. Stored' = Stored \cup new /\ new \in SUBSET (Range(wal) \ Stored) /\ top \in Stored \cup new
  BY <1>1, <1>5, <1>6
<1>8. Range(wal') = Range(wal)
  BY <1>2
<1> HIDE DEF top, new, last
<1>9. CASE last <= top
  <2>1. Log!Store
    <3>1. \E x \in SUBSET (Range(wal) \ Stored) : \E y \in Stored \cup x :
             /\ last <= y
             /\ \A l \in x : last < l /\ l <= y
             /\ Stored' = Stored \cup x /\ GetLastWrittenPartitionLSN' = y
      BY <1>1, <1>5, <1>7, <1>9
    <3> QED BY <1>8, <3>1 DEF Log!Store, last
  <2> QED BY <2>1
<1>10. CASE top < last
  <2>1. new = {}
    <3> SUFFICES ASSUME NEW l \in new PROVE FALSE
      OBVIOUS
    <3>1. l \in Int
      BY <1>5, <1>7, RangeFacts, WriterFields, <1>3 DEF TypeOK
    <3> QED BY <1>4, <1>5, <1>6, <1>10, <3>1
  <2>2. Stored' = Stored /\ top \in Stored
    BY <1>7, <2>1
  <2>3. Log!Rewind
    BY <1>1, <1>8, <1>10, <2>2 DEF Log!Rewind, last
  <2> QED BY <2>3
<1> QED BY <1>4, <1>6, <1>9, <1>10

\* A replayed header is above the last record, or skipped.
LEMMA LogRedo ==
    ASSUME WriterInv, PartdistRedo
    PROVE  Log!Store \/ UNCHANGED Log!vars
<1>1. wal' = wal
  BY DEF PartdistRedo
<1>2. CASE files' = files
  BY <1>1, <1>2, LogStutter
<1>3. CASE files' # files
  <2>1. PICK l \in Range(wal) : /\ GetLastWrittenPartitionLSN < l
                                /\ Stored' = Stored \cup {l}
                                /\ GetLastWrittenPartitionLSN' = l
    BY <1>3, PartdistRedoInv
  <2> DEFINE last == GetLastWrittenPartitionLSN
             new == {l} \ Stored
  <2>2. last \in Int /\ l \in Int
    <3>1. TypeOK /\ l \in Lsn
      BY RangeFacts DEF WriterInv, TypeOK
    <3> QED BY <3>1, FilesState, FilesFacts, WriterFields
  <2>3. last <= l /\ \A k \in new : last < k /\ k <= l
    BY <2>1, <2>2
  <2>4. new \in SUBSET (Range(wal) \ Stored) /\ l \in Stored \cup new /\ Stored' = Stored \cup new
    BY <2>1
  <2> HIDE DEF new, last
  <2>5. \E x \in SUBSET (Range(wal) \ Stored) : \E y \in Stored \cup x :
             /\ last <= y
             /\ \A k \in x : last < k /\ k <= y
             /\ Stored' = Stored \cup x /\ GetLastWrittenPartitionLSN' = y
    BY <2>1, <2>3, <2>4
  <2>6. Range(wal') = Range(wal)
    BY <1>1
  <2> QED BY <2>5, <2>6 DEF Log!Store, last
<1> QED BY <1>2, <1>3

\* Every step is a step of the log or leaves it alone.
LEMMA LogNext == WriterInv /\ [Next]_vars => [Log!Next]_(Log!vars)
<1> SUFFICES ASSUME WriterInv, [Next]_vars PROVE [Log!Next]_(Log!vars)
  OBVIOUS
<1>1. CASE \E l \in Lsn : InsertHeader(l)
  BY <1>1, LogOffer DEF Log!Next
<1>2. CASE \E n \in 1..BufferSize : FlushWrite(n)
  BY <1>2, LogWrite DEF Log!Next
<1>3. CASE PartdistRedo
  BY <1>3, LogRedo DEF Log!Next
<1>4. CASE wal' = wal /\ files' = files
  BY <1>4, LogStutter
<1>5. CASE UNCHANGED vars
  BY <1>4, <1>5 DEF vars
<1>6. CASE DemuxStart \/ DemuxCaughtUp \/ DemuxRead \/ DemuxStop
  BY <1>4, <1>6 DEF DemuxStart, DemuxCaughtUp, DemuxRead, DemuxStop
<1>7. CASE CreatePartitionWALWriter \/ CreateFails \/ DestroyPartitionWALWriter
  BY <1>4, <1>7 DEF CreatePartitionWALWriter, CreateFails, DestroyPartitionWALWriter
<1>8. CASE DemuxSkip \/ DemuxWrite \/ OpenWriterSegment \/ OpenFails
  BY <1>4, <1>8 DEF DemuxSkip, DemuxWrite, OpenWriterSegment, OpenFails
<1>9. CASE FlushFullBuffer \/ BufferHeader \/ FlushFails
  BY <1>4, <1>9 DEF FlushFullBuffer, BufferHeader, FlushFails
<1>10. CASE Crash \/ RedoFails \/ EndRecovery
  BY <1>4, <1>10 DEF Crash, RedoFails, EndRecovery
<1> QED BY <1>1, <1>2, <1>3, <1>5, <1>6, <1>7, <1>8, <1>9, <1>10 DEF Next, DemuxLoop

\* The writer, with its failures, restarts and crashes, implements the log: what is
\* in pg_parwal was in the WAL, stays there, and every new header lies above the
\* last record.
THEOREM WriterImplementsLog == Spec => ImplementsMonotoneLog
<1>1. Init => Log!Init
  BY LogInit
<1>2. WriterInv /\ [Next]_vars => [Log!Next]_(Log!vars)
  BY LogNext
<1> QED BY <1>1, <1>2, WriterInvariant, PTL DEF Spec, ImplementsMonotoneLog, Log!Spec
=============================================================================

---------------------------- MODULE PartitionLog ----------------------------
(***************************************************************************)
(* What the partition WAL of a node promises a client that works alone and *)
(* never stops the worker, whatever crashes.  The headers of a partition   *)
(* are 1, 2, 3, ... without a gap: those in the WAL, of these those that   *)
(* are flushed, and of these those in the files.  A crash takes away some  *)
(* of the headers that are not flushed and nothing else, and the server    *)
(* runs again only when all the headers that are left are in the files.    *)
(***************************************************************************)
EXTENDS Integers

CONSTANT Partition

VARIABLES
    mode,       \* "run", or "recover" after a crash
    inserted,   \* the LSNs of the headers of each partition in the node's WAL
    durable,    \* of these, the ones a crash cannot take away
    stored      \* the LSNs of the headers in pg_parwal

vars == <<mode, inserted, durable, stored>>

\* The LSNs that may come next in a log without gaps that holds S.
Following(S) == {1} \cup {l + 1 : l \in S}

NoGaps(S) == S \subseteq Following(S)

Init ==
    /\ mode = "run"
    /\ inserted = [p \in Partition |-> {}]
    /\ durable = [p \in Partition |-> {}]
    /\ stored = [p \in Partition |-> {}]

\* A client writes a header.
Insert(p) ==
    /\ mode = "run"
    /\ \E l \in Following(inserted[p]) \ inserted[p] :
          inserted' = [inserted EXCEPT ![p] = @ \cup {l}]
    /\ UNCHANGED <<mode, durable, stored>>

\* T keeps, without gaps, all that is durable.
Keeps(T) ==
    /\ DOMAIN T = Partition
    /\ \A p \in Partition : durable[p] \subseteq T[p] /\ T[p] \subseteq inserted[p] /\ NoGaps(T[p])

\* The WAL is flushed up to some record, for all partitions at once.
Flush ==
    /\ mode = "run"
    /\ Keeps(durable')
    /\ UNCHANGED <<mode, inserted, stored>>

\* The demux or redo appends a header to its file.
Store(p) ==
    /\ \E l \in (Following(stored[p]) \cap durable[p]) \ stored[p] :
          stored' = [stored EXCEPT ![p] = @ \cup {l}]
    /\ UNCHANGED <<mode, inserted, durable>>

Crash ==
    /\ mode' = "recover"
    /\ Keeps(inserted') /\ durable' = inserted'
    /\ UNCHANGED stored

\* Recovery ends.
Recovered ==
    /\ mode = "recover" /\ stored = inserted
    /\ mode' = "run"
    /\ UNCHANGED <<inserted, durable, stored>>

Next == (\E p \in Partition : Insert(p) \/ Store(p)) \/ Flush \/ Crash \/ Recovered

Spec == Init /\ [][Next]_vars
=============================================================================

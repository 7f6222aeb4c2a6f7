---------------------------- MODULE MonotoneLog ----------------------------
(***************************************************************************)
(* What the log of one partition promises, whatever stores it: headers are *)
(* offered with a partition_lsn, in any order; what is stored was offered, *)
(* stays stored, and every new header lies above the last record.  The     *)
(* last record is the highest until a buffer whose write was cut is        *)
(* written again: then it goes back to a header that is stored already.    *)
(* As long as that does not happen, a header that has been overtaken is    *)
(* never stored.                                                           *)
(***************************************************************************)
EXTENDS Integers

CONSTANT Lsn    \* the partition_lsn that may be used

VARIABLES
    offered,    \* the LSNs of the headers in the node's WAL
    stored,     \* the LSNs of the headers in pg_parwal
    last        \* the LSN of the last record of the last file, 0 = none

vars == <<offered, stored, last>>

TypeOK == offered \in SUBSET Lsn /\ stored \in SUBSET offered /\ last \in {0} \cup stored

Init == offered = {} /\ stored = {} /\ last = 0

\* A backend inserts a header into the node's WAL.
Offer == \E l \in Lsn \ offered : offered' = offered \cup {l} /\ UNCHANGED <<stored, last>>

\* One or several headers are appended, up to top.
Store ==
    \E new \in SUBSET (offered \ stored) : \E top \in stored \cup new :
        /\ last <= top
        /\ \A l \in new : last < l /\ l <= top
        /\ stored' = stored \cup new /\ last' = top
        /\ UNCHANGED offered

\* The beginning of a buffer is appended for the second time.
Rewind == \E l \in stored : l < last /\ last' = l /\ UNCHANGED <<offered, stored>>

Next == Offer \/ Store \/ Rewind

Spec == Init /\ [][Next]_vars
=============================================================================

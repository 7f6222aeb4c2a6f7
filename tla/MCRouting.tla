----------------------------- MODULE MCRouting -----------------------------
(***************************************************************************)
(* Routing for TLC.  Every partition begins on the local node, the other   *)
(* nodes are down.  Backends and partitions are interchangeable; nodes are *)
(* not, one of them is the local node.                                     *)
(***************************************************************************)
EXTENDS Routing, TLC

AllLocal == [p \in Partition |-> Local]
OthersDown == [n \in Node |-> IF n = Local THEN "up" ELSE "down"]

Symmetry == Permutations(Backend) \cup Permutations(Partition)
=============================================================================

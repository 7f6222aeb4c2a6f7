----------------------------- MODULE MCPartWal -----------------------------
(***************************************************************************)
(* PartWal for TLC: the symmetry of the backends and of the partitions.    *)
(***************************************************************************)
EXTENDS PartWal

Symmetry == Permutations(Backend) \cup Permutations(Partition)
=============================================================================

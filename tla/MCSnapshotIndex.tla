-------------------------- MODULE MCSnapshotIndex --------------------------
(* Small instances of SnapshotIndex. *)
EXTENDS SnapshotIndex, TLC

Symmetry == Permutations(Reader)
=============================================================================

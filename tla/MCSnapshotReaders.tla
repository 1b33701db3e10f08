------------------------- MODULE MCSnapshotReaders --------------------------
(***************************************************************************)
(* An instance of SnapshotReaders for TLC.  LMDB does not know of readers, *)
(* so one of them sees all that any of them can see.                       *)
(***************************************************************************)
EXTENDS SnapshotReaders

ThreeCommitsLater == 5
=============================================================================

---------------------------- MODULE MCSnapshotFile ----------------------------
(* Model-checking instance of SnapshotFile. *)
EXTENDS SnapshotFile
===============================================================================

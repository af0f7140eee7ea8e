------------------------------ MODULE MCBackups ------------------------------
(* Two snapshots and two restores into the same folder. *)
EXTENDS Backups
=============================================================================

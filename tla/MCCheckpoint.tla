---------------------------- MODULE MCCheckpoint ----------------------------
(* Model-checking instance of Checkpoint.                                   *)
EXTENDS Checkpoint
=============================================================================

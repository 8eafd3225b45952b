------------------------------- MODULE MCBatch -------------------------------
(***************************************************************************)
(* Files of three statements, of which the guards refuse none, the second   *)
(* or the last.                                                             *)
(***************************************************************************)
EXTENDS Batch
=============================================================================

------------------------------- MODULE MCStream -------------------------------
(***************************************************************************)
(* Two streams that compete for one connection and one slot, or for one     *)
(* connection only; a buffer of one row and results of two rows or none.   *)
(***************************************************************************)
EXTENDS Stream

CONSTANTS s1, s2
=============================================================================

---------------------------- MODULE MCTransaction ----------------------------
(***************************************************************************)
(* Small instances of Transaction: an insert the guards let pass, a SELECT  *)
(* and a DROP they refuse; sessions with and without a QueryTimeout.        *)
(***************************************************************************)
EXTENDS Transaction

CONSTANTS c1, c2, insert, select, drop
=============================================================================

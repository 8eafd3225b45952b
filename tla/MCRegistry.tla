------------------------------ MODULE MCRegistry ------------------------------
(***************************************************************************)
(* Two goroutines, two names and two sessions: an Open that races with an   *)
(* Open of the same name, with Close and with CloseAll.  No symmetry: the   *)
(* run checks liveness too.                                                 *)
(***************************************************************************)
EXTENDS Registry

CONSTANTS g1, g2, n1, n2, s1, s2
=============================================================================

------------------------------- MODULE MCPaging -------------------------------
(***************************************************************************)
(* Tables of up to four rows, limits around them and around each other, and *)
(* limits of zero and below.                                                *)
(***************************************************************************)
EXTENDS Paging

Negative == -1
SmallDefaults == {Negative, 0, 1, 2}
SmallMaxima   == {Negative, 0, 1, 3}
SmallLimits   == {Negative, 0, 1, 2, 4}
=============================================================================

--------------------------- MODULE MCPatherState ----------------------------
(***************************************************************************)
(* PatherState with two cells and a version of two bits.                   *)
(***************************************************************************)
EXTENDS PatherState

MCCell     == {1, 2}
MCDistance == {0, 1, INFINITY}
=============================================================================

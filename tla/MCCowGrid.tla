----------------------------- MODULE MCCowGrid ------------------------------
(***************************************************************************)
(* CowGrid with threads, grids and blocks that are alike.                  *)
(***************************************************************************)
EXTENDS CowGrid, TLC

Symmetry == Permutations(Thread) \cup Permutations(Grid) \cup Permutations(Block)
=============================================================================

------------------------------- MODULE MCRepl -------------------------------
(***************************************************************************)
(* The repl on the maps of a small grid, with a door in one corner or not. *)
(***************************************************************************)
EXTENDS Repl

MCPlaces == {[row |-> 0, col |-> 1, layer |-> 0]}
=============================================================================

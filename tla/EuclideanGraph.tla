--------------------------- MODULE EuclideanGraph ---------------------------
(***************************************************************************)
(* graph::EuclideanGraph and the helpers of util.hh it is searched with:   *)
(* the cells of a grid of layers, their neighbours, and the cost of a move *)
(* under given costs of the cells.                                         *)
(*                                                                         *)
(* Lengths, floats in the code, are in tenths of a straight move over a    *)
(* cell of cost 1, rounded down.                                           *)
(***************************************************************************)
EXTENDS Integers, FiniteSets

CONSTANTS Rows, Cols, Layers

STRAIGHT == 10
DIAGONAL == 14
PATH_COST_INFINITE == 255

Coord == [row : 0..(Rows - 1), col : 0..(Cols - 1), layer : 0..(Layers - 1)]

Gap(i, j) == IF i < j THEN j - i ELSE i - j

\* The first six of ADJ_DELTA: four in the layer and one in each next layer.
IsManhattan(a, b) == Gap(a.row, b.row) + Gap(a.col, b.col) + Gap(a.layer, b.layer) = 1

\* The last four.
IsDiagonal(a, b) ==
  a.layer = b.layer /\ Gap(a.row, b.row) = 1 /\ Gap(a.col, b.col) = 1

\* get_adjacent(cell, true).
Neighbors(a) == {b \in Coord : IsManhattan(a, b) \/ IsDiagonal(a, b)}

IsPassable(cost, a) == cost[a] # PATH_COST_INFINITE

\* A diagonal move needs one of the two cells it passes between.
MayCut(cost, a, b) ==
  \/ IsPassable(cost, [row |-> a.row, col |-> b.col, layer |-> a.layer])
  \/ IsPassable(cost, [row |-> b.row, col |-> a.col, layer |-> a.layer])

\* move_cost of a cell and a neighbour of it; -1 if there is no such move.
MoveCost(cost, a, b) ==
  IF ~IsPassable(cost, a) \/ ~IsPassable(cost, b) THEN -1
  ELSE IF IsManhattan(a, b) THEN STRAIGHT * cost[b]
  ELSE IF MayCut(cost, a, b) THEN DIAGONAL * cost[b]
  ELSE -1

\* manhattan(): in fact the straight distance, without regard to layers.
Manhattan(a, b) ==
  LET square == (STRAIGHT * STRAIGHT) * (Gap(a.row, b.row) * Gap(a.row, b.row)
                                           + Gap(a.col, b.col) * Gap(a.col, b.col))
  IN  CHOOSE n \in 0..(STRAIGHT * (Rows + Cols)) :
        n * n <= square /\ (n + 1) * (n + 1) > square
=============================================================================

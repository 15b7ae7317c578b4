-------------------------------- MODULE Repl --------------------------------
(***************************************************************************)
(* The repl tool, built with MICROPATHER_DELTA_TEST: commands that change  *)
(* a map and ask for paths in it, each path being asked of MicroPather     *)
(* too, over a MicropatherGraph.                                           *)
(*                                                                         *)
(* A MapView is given by what it shows (see Views.tla), and a path by its  *)
(* length (see Search.tla).  The commands that only print are left out.    *)
(* CheckedMutator is not in the repository: it is taken to refuse to       *)
(* toggle what is not a door and to change the cost of what is one.        *)
(***************************************************************************)
EXTENDS EuclideanGraph, FiniteSetsExt, SequencesExt

CONSTANTS
  Costs,    \* the costs of a map, which has one layer
  Places    \* the cells that may be doors

VARIABLES
  interactive,            \* started with a map alone
  my_map,                 \* the view that the commands change
  mgraph,                 \* the view in the MicropatherGraph
  door_index_to_coords,
  said,                   \* the two lengths last printed, or Nothing
  running

vars == <<interactive, my_map, mgraph, door_index_to_coords, said, running>>

Nothing == [alex |-> -1, micropather |-> 0]

Before(a, b) == a.row < b.row \/ (a.row = b.row /\ a.col < b.col)

Terrain == [Coord -> Costs]

Doors(places) == [places -> [open : BOOLEAN, cost : Costs \ {PATH_COST_INFINITE}]]

\* What move_cost sees of a view.
CostsIn(view) ==
  [c \in Coord |-> IF c \notin DOMAIN view.doors THEN view.cost[c]
                   ELSE IF view.doors[c].open THEN view.doors[c].cost
                   ELSE PATH_COST_INFINITE]

\* AdjacentCost: the cells it lists, each with the move_cost to it.
AdjacentCost(cost, cell) ==
  {n \in Neighbors(cell) : /\ IsPassable(cost, n) /\ IsPassable(cost, cell)
                           /\ MoveCost(cost, cell, n) # -1}

\* The lengths of the shortest walks from start, by the number of their moves;
\* none is as long as Far.
Far == 1 + (DIAGONAL * PATH_COST_INFINITE) * Cardinality(Coord)

Lengths(cost, start) ==
  LET by[n \in 0..Cardinality(Coord)] ==
        IF n = 0 THEN [c \in Coord |-> IF c = start THEN 0 ELSE Far]
        ELSE [c \in Coord |->
                Min({by[n - 1][c]}
                      \cup {by[n - 1][p] + MoveCost(cost, p, c) :
                              p \in {p \in Coord : c \in AdjacentCost(cost, p)}})]
  IN  by[Cardinality(Coord)]

\* MapView::path: -1 if there is none.
PathLength(view, start, finish) ==
  LET cost   == CostsIn(view)
      length == Lengths(cost, start)[finish]
  IN  IF IsPassable(cost, start) /\ IsPassable(cost, finish) /\ length < Far
      THEN length ELSE -1

\* MicroPather::Solve: the cost it leaves is 0 if there is no path.
Solve(view, start, finish) ==
  LET length == Lengths(CostsIn(view), start)[finish]
  IN  IF length < Far THEN length ELSE 0

Init ==
  /\ interactive \in BOOLEAN
  /\ \E places \in SUBSET Places, terrain \in Terrain : \E doors \in Doors(places) :
       my_map = [cost |-> terrain, doors |-> doors]
  /\ mgraph = my_map
  /\ door_index_to_coords = SetToSortSeq(DOMAIN my_map.doors, Before)
  /\ said = Nothing
  /\ running = TRUE

\* AdjacentCost asserts that the first cell it is asked of is passable.
Ask(start, finish) ==
  /\ start # finish => IsPassable(CostsIn(mgraph), start)
  /\ said' = [alex        |-> PathLength(my_map, start, finish),
              micropather |-> Solve(mgraph, start, finish)]
  /\ UNCHANGED <<interactive, my_map, mgraph, door_index_to_coords>>

\* With two more arguments: one path, from (1, 1), and the end.
Once(finish) ==
  /\ running /\ ~interactive
  /\ Ask([row |-> 1, col |-> 1, layer |-> 0], finish)
  /\ running' = FALSE

CommandP(start, finish) ==
  /\ running /\ interactive
  /\ Ask(start, finish)
  /\ UNCHANGED running

Become(doors, cost) ==
  /\ my_map' = [cost |-> cost, doors |-> doors]
  /\ UNCHANGED <<interactive, mgraph, door_index_to_coords, said, running>>

CommandD(index) ==
  /\ running /\ interactive
  /\ LET door_coord == door_index_to_coords[index]
     IN  Become([my_map.doors EXCEPT ![door_coord].open = ~@], my_map.cost)

CommandW(cell) ==
  /\ running /\ interactive
  /\ cell \notin DOMAIN my_map.doors
  /\ Become(my_map.doors, [my_map.cost EXCEPT ![cell] = PATH_COST_INFINITE])

CommandX ==
  /\ running /\ interactive
  /\ running' = FALSE
  /\ UNCHANGED <<interactive, my_map, mgraph, door_index_to_coords, said>>

Next ==
  \/ \E finish \in Coord : Once(finish)
  \/ \E start, finish \in Coord : CommandP(start, finish)
  \/ \E index \in DOMAIN door_index_to_coords : CommandD(index)
  \/ \E cell \in Coord : CommandW(cell)
  \/ CommandX

Spec == Init /\ [][Next]_vars

\* platform.hh: the repl deltas its paths against MicroPather for sanity, so the
\* two lengths it prints are of the same walks.
LengthsAgree ==
  \/ said.alex = said.micropather
  \/ said.alex = -1 /\ said.micropather = 0
=============================================================================

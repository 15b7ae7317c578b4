------------------------------ MODULE MCMapImpl ------------------------------
(***************************************************************************)
(* MapImpl on a one-layer grid of Rows by Cols cells, numbered row by row. *)
(* In a floor plan some cells stay clear, some stay walls, and the others  *)
(* are built and changed in every way.                                     *)
(***************************************************************************)
EXTENDS MapImpl

CONSTANTS Rows, Cols

VARIABLE changing   \* the cells that are built and mutated

MCCell == 0..(Rows * Cols - 1)

\* Left, up, right, down: the order of util::get_adjacent.
MCAdjacent ==
  [c \in MCCell |->
     (IF c % Cols # 0        THEN <<c - 1>>    ELSE <<>>) \o
     (IF c >= Cols           THEN <<c - Cols>> ELSE <<>>) \o
     (IF c % Cols # Cols - 1 THEN <<c + 1>>    ELSE <<>>) \o
     (IF c < (Rows - 1) * Cols THEN <<c + Cols>> ELSE <<>>)]

Infinite == {PATH_COST_INFINITE}

Five == -5
Seven == -7

\* Two plans of a 2x3 grid.  In the square four cells change and a wall is beside
\* them; in the junction cell 1 has three neighbours, of which 0 stays clear.
Square   == [changing |-> {0, 1, 3, 4}, solid |-> {2, 5}, most |-> 5]
Junction == [changing |-> {1, 2, 4}, solid |-> {3, 5}]

\* The builders that differ from the plan in the cells of changing only.
BuiltOn(plan) ==
  \E places \in SUBSET plan.changing :
    \E terrain \in [plan.changing \ places -> Costs], doors \in [places -> BuiltDoor] :
      LET all == [c \in Cell \ places |->
                    IF c \in plan.changing THEN terrain[c]
                    ELSE IF c \in plan.solid THEN PATH_COST_INFINITE ELSE 1]
      IN  map = Rebuild(Built(all, doors))

MCInit ==
  \E plan \in {Square, Junction} : changing = plan.changing /\ BuiltOn(plan)

\* The square has more cells to change and is given fewer colours.
MCColorsLeft(mutation) ==
  changing = Square.changing =>
    map.next_component_color + Len(Adjacent[mutation.cell]) < Square.most

MCNext ==
  /\ \/ \E mutation \in {m \in Mutation : m.cell \in changing /\ MCColorsLeft(m)} :
           UpdateIncremental(mutation) \/ UpdateAndRebuild(mutation)
     \/ UpdateEmpty
  /\ UNCHANGED changing

\* Every builder and every update, with all cells changing.
MCFreeSpec ==
  (Init /\ changing = Cell) /\ [][Next /\ UNCHANGED changing]_<<map, changing>>

MCSpec == MCInit /\ [][MCNext]_<<map, changing>>
=============================================================================

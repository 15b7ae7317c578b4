------------------------------- MODULE MapImpl -------------------------------
(***************************************************************************)
(* pathfinder::MapImpl: the costs, colours and doors of a map, and the two *)
(* union-finds over the colours that answer path_exists in constant time   *)
(* while the map changes.                                                  *)
(*                                                                         *)
(* The state of the class is one record, map.  Every helper of MapImpl.cc  *)
(* is an operator of the same name from a map to the map it leaves; every  *)
(* public call is an action.                                               *)
(***************************************************************************)
EXTENDS Partition, Sequences

CONSTANTS
  Cell,            \* the coordinates, numbered in the order domain() visits
                   \* them, which is also the order of the doors' std::map
  Adjacent,        \* Adjacent[c]: get_adjacent(c, false), in its order
  Costs,           \* the traversal costs callers use
  ClosedCosts,     \* the cost_closed arguments given to the builder's add_door
  COLOR_MULTIPLE,  \* the least colour (-2^31 in the code)
  MaxColor         \* the greatest colour (2^31 - 1 in the code)

PATH_COST_INFINITE == 255

COLOR_UNKNOWN      == COLOR_MULTIPLE + 1
COLOR_IMPASSABLE   == COLOR_UNKNOWN + 1
COLOR_LOWEST_VALID == COLOR_IMPASSABLE + 1

Nbrs == [c \in Cell |-> {Adjacent[c][i] : i \in DOMAIN Adjacent[c]}]

Edges == {e \in Cell \X Cell : e[2] \in Nbrs[e[1]]}

ASSUME CellAssumption == Cell \subseteq Nat /\ IsFiniteSet(Cell)

ASSUME AdjacentAssumption ==
  /\ Adjacent \in [Cell -> Seq(Cell)]
  /\ \A c, d \in Cell : d \in Nbrs[c] => c \in Nbrs[d]
  /\ \A c \in Cell : c \notin Nbrs[c]

ASSUME CostAssumption ==
  /\ Costs \subseteq 0..255
  /\ PATH_COST_INFINITE \in Costs
  /\ ClosedCosts \subseteq Costs

ASSUME ColorAssumption ==
  /\ COLOR_MULTIPLE \in Int
  /\ MaxColor \in Nat
  /\ COLOR_LOWEST_VALID < 0

VARIABLE map

-----------------------------------------------------------------------------
(***************************************************************************)
(* Types.                                                                  *)
(***************************************************************************)
Door == [open : BOOLEAN, cost_open : Costs, cost_closed : Costs]

\* One entry of a MapMutator: make_normal or make_door.
Mutation ==
  [cell : Cell, door : {FALSE}, open : {FALSE}, cost : Costs]
    \cup [cell : Cell, door : {TRUE}, open : BOOLEAN,
          cost : Costs \ {PATH_COST_INFINITE}]

-----------------------------------------------------------------------------
(***************************************************************************)
(* Queries.                                                                *)
(***************************************************************************)
IsDoorColor(k) == k < 0 /\ k >= COLOR_LOWEST_VALID

IsDoor(m, c) == m.color[c] # COLOR_IMPASSABLE /\ IsDoorColor(m.color[c])

IsTransparent(m, c) == ~IsDoor(m, c) /\ m.cost[c] # PATH_COST_INFINITE

IsPassable(m, c) == m.cost[c] # PATH_COST_INFINITE

PathExists(m, a, b) ==
  /\ IsPassable(m, a)
  /\ IsPassable(m, b)
  /\ m.dynamic_component[m.color[a]] = m.dynamic_component[m.color[b]]

-----------------------------------------------------------------------------
(***************************************************************************)
(* The area a flood fill over the cells of G reaches from each of them,     *)
(* moving in Manhattan directions only.                                    *)
(***************************************************************************)
EdgesIn(G) == {e \in Edges : e[1] \in G /\ e[2] \in G}

Areas(G) == Classes(G, EdgesIn(G))

-----------------------------------------------------------------------------
(***************************************************************************)
(* Helpers of the incremental mutations.                                   *)
(***************************************************************************)

\* (A mutation of OpenDoorEdges: two open doors side by side are not joined.)
OpenDoorEdgesToRooms(m) ==
  {e \in Cell \X (DOMAIN m.doors) :
     m.doors[e[2]].open /\ e[1] \in Nbrs[e[2]] /\ IsTransparent(m, e[1])}

\* The passable neighbours of open doors, each paired with its door.
OpenDoorEdges(m) ==
  {e \in Cell \X (DOMAIN m.doors) :
     m.doors[e[2]].open /\ e[1] \in Nbrs[e[2]] /\ IsPassable(m, e[1])}

ColorsOf(m, edges) == {<<m.color[e[1]], m.color[e[2]]>> : e \in edges}

\* (A mutation of RegenerateDynamic: the open doors are forgotten.)
RegenerateDynamicWithoutDoors(m) ==
  [m EXCEPT !.dynamic_component = m.static_component]

RegenerateDynamic(m) ==
  [m EXCEPT !.dynamic_component =
     Unite(m.static_component, ColorsOf(m, OpenDoorEdges(m)))]

\* A former wall takes the colour of its first transparent neighbour, or a new
\* one.  The caller sets the cost of the cell afterwards.
WallToTransparent(m, cell) ==
  LET transparent == {i \in DOMAIN Adjacent[cell] :
                        IsTransparent(m, Adjacent[cell][i])}
      alone  == transparent = {}
      color  == IF alone THEN m.next_component_color
                         ELSE m.color[Adjacent[cell][Least(transparent)]]
      room   == {<<color, m.color[Adjacent[cell][i]]>> : i \in transparent}
      beside == {<<color, m.color[n]>> :
                   n \in {n \in Nbrs[cell] : IsPassable(m, n)}}
  IN  [m EXCEPT
         !.color[cell] = color,
         !.static_component = Unite(Touch(m.static_component, color), room),
         !.dynamic_component =
            Unite(Touch(m.dynamic_component, color), room \cup beside),
         !.next_component_color = IF alone THEN color + 1 ELSE @]

\* (A mutation of ClosedDoorToOpenDoor: the door opens, nothing is linked.)
ClosedDoorToOpenDoorUnlinked(m, cell) == [m EXCEPT !.doors[cell].open = TRUE]

\* The neighbours' static representatives are united, not their colours.
ClosedDoorToOpenDoor(m, cell) ==
  LET room  == m.static_component[m.color[cell]]
      links == {<<m.static_component[m.color[n]], room>> :
                  n \in {n \in Nbrs[cell] : IsPassable(m, n)}}
  IN  [m EXCEPT !.dynamic_component = Unite(@, links),
                !.doors[cell].open = TRUE]

\* (A mutation of ClosedDoorToWall: the cell keeps the colour of the door.)
ClosedDoorToWallKeepingColor(m, cell, cost) ==
  [m EXCEPT !.doors = [d \in DOMAIN @ \ {cell} |-> @[d]],
            !.cost[cell] = cost]

ClosedDoorToWall(m, cell, cost) ==
  [m EXCEPT !.color[cell] = COLOR_IMPASSABLE,
            !.doors = [d \in DOMAIN @ \ {cell} |-> @[d]],
            !.cost[cell] = cost]

\* (A mutation of OpenDoorToClosedDoor: the components are not recomputed.)
OpenDoorToClosedDoorStale(m, cell) ==
  [m EXCEPT !.doors[cell].open = FALSE, !.cost[cell] = PATH_COST_INFINITE]

OpenDoorToClosedDoor(m, cell) ==
  RegenerateDynamic([m EXCEPT !.doors[cell].open = FALSE,
                              !.cost[cell] = PATH_COST_INFINITE])

\* (A mutation of FillStarts: a neighbour already filled is filled again.)
FillStartsEverywhere(room, seed) == {i \in DOMAIN seed : seed[i] \in room}

\* The places in seed that start a fill of room: no earlier fill reached them.
FillStarts(room, seed) ==
  LET area == Areas(room)
  IN  {i \in DOMAIN seed :
         /\ seed[i] \in room
         /\ \A j \in DOMAIN seed :
              j < i /\ seed[j] \in room => seed[i] \notin area[seed[j]]}

\* The room the cell was in is filled again from each neighbour that no earlier
\* fill has reached; the i-th fill takes the i-th new colour.
TransparentToWall(m, cell) ==
  LET walled == [m EXCEPT !.cost[cell]  = PATH_COST_INFINITE,
                          !.color[cell] = COLOR_IMPASSABLE]
      old    == m.static_component[m.color[cell]]
      room   == {c \in Cell : /\ IsTransparent(walled, c)
                              /\ m.static_component[walled.color[c]] = old}
      area   == Areas(room)
      seed   == Adjacent[cell]
      starts == FillStarts(room, seed)
      fresh(i)  == m.next_component_color + Rank(starts, i)
      filled(c) == {i \in starts : c \in area[seed[i]]}
      added  == {fresh(i) : i \in starts}
      touched(uf) == [k \in DOMAIN uf \cup added |->
                        IF k \in DOMAIN uf THEN uf[k] ELSE k]
  IN  RegenerateDynamic(
        [walled EXCEPT
           !.color = [c \in Cell |-> IF filled(c) = {} THEN walled.color[c]
                                     ELSE fresh(Least(filled(c)))],
           !.static_component = touched(@),
           !.next_component_color = @ + Cardinality(starts)])

\* The new door is written with its two costs exchanged, as in the code; its
\* only caller, CreateDoor, writes the door again.
WallToClosedDoor(m, cell, cost_closed, cost_open) ==
  LET color == m.next_door_color
      door  == [open |-> FALSE, cost_open |-> cost_closed,
                cost_closed |-> cost_open]
  IN  [m EXCEPT
         !.cost[cell] = PATH_COST_INFINITE,
         !.dynamic_component = Touch(@, color),
         !.static_component  = Touch(@, color),
         !.color[cell] = color,
         !.next_door_color = @ - 1,
         !.doors = [d \in DOMAIN @ \cup {cell} |->
                      IF d = cell THEN door ELSE @[d]]]

-----------------------------------------------------------------------------
(***************************************************************************)
(* The four mutations of update, and rebuild.                              *)
(***************************************************************************)

\* (A mutation of AsWall: the room is not filled again around the cell.)
AsWallUnfilled(m, cell) == m

\* Create a wall, if cell is not already one.
AsWall(m, cell) ==
  IF IsPassable(m, cell) THEN TransparentToWall(m, cell) ELSE m

\* (A mutation of RecordDoor: the door stays as WallToClosedDoor wrote it.)
RecordDoorCostOnly(m, cell, open, cost) ==
  [m EXCEPT !.cost[cell] = IF open THEN cost ELSE PATH_COST_INFINITE]

\* What CreateDoor writes last.
RecordDoor(m, cell, open, cost) ==
  [m EXCEPT !.doors[cell] = [open |-> open, cost_open |-> cost,
                             cost_closed |-> PATH_COST_INFINITE],
            !.cost[cell] = IF open THEN cost ELSE PATH_COST_INFINITE]

CreateDoor(m, cell, open, cost) ==
  LET closed == WallToClosedDoor(AsWall(m, cell), cell, PATH_COST_INFINITE, cost)
      linked == IF open THEN ClosedDoorToOpenDoor(closed, cell) ELSE closed
  IN  RecordDoor(linked, cell, open, cost)

RemoveDoor(m, cell, cost) ==
  LET closed == IF m.doors[cell].open THEN OpenDoorToClosedDoor(m, cell) ELSE m
      wall   == ClosedDoorToWall(closed, cell, IF m.doors[cell].open THEN cost
                                               ELSE PATH_COST_INFINITE)
  IN  IF cost = PATH_COST_INFINITE
      THEN wall
      ELSE [WallToTransparent(wall, cell) EXCEPT !.cost[cell] = cost]

SetCost(m, cell, cost) ==
  LET opaque  == m.cost[cell] = PATH_COST_INFINITE
      changed == IF opaque /\ cost # PATH_COST_INFINITE
                   THEN WallToTransparent(m, cell)
                 ELSE IF ~opaque /\ cost = PATH_COST_INFINITE
                   THEN TransparentToWall(m, cell)
                 ELSE m
  IN  [changed EXCEPT !.cost[cell] = cost]

UpdateDoor(m, cell, open, cost) ==
  LET priced == [m EXCEPT !.doors[cell].cost_open = cost,
                          !.cost[cell] = IF open THEN cost
                                         ELSE PATH_COST_INFINITE]
      moved  == [priced EXCEPT !.doors[cell].open = open]
  IN  IF m.doors[cell].open = open THEN priced
      ELSE IF open THEN ClosedDoorToOpenDoor(moved, cell)
      ELSE OpenDoorToClosedDoor(moved, cell)

\* One iteration of the loop of update.
Mutate(m, mutation) ==
  LET cell == mutation.cell
  IN  IF IsDoor(m, cell)
      THEN IF mutation.door
           THEN UpdateDoor(m, cell, mutation.open, mutation.cost)
           ELSE RemoveDoor(m, cell, mutation.cost)
      ELSE IF mutation.door
           THEN CreateDoor(m, cell, mutation.open, mutation.cost)
           ELSE SetCost(m, cell, mutation.cost)

\* Colours the areas of transparent cells 0, 1, ... in the order of their first
\* cells, and the doors -1, -2, ... in their own order.
Rebuild(m) ==
  LET doors   == DOMAIN m.doors
      clear   == {c \in Cell \ doors : IsPassable(m, c)}
      area    == Areas(clear)
      firsts  == {c \in clear : \A d \in area[c] : c <= d}
      color   == [c \in Cell |->
                    IF c \in doors THEN -1 - Rank(doors, c)
                    ELSE IF c \in clear THEN Rank(firsts, Least(area[c]))
                    ELSE COLOR_IMPASSABLE]
  IN  RegenerateDynamic(
        [m EXCEPT
           !.color = color,
           !.static_component = [k \in {color[c] : c \in clear \cup doors} |-> k],
           !.next_component_color = Cardinality(firsts),
           !.next_door_color = -1 - Cardinality(doors)])

-----------------------------------------------------------------------------
(***************************************************************************)
(* The states of a map.  A builder holds any costs and any doors, a door's *)
(* cell having the cost of its state; the constructor rebuilds from it.    *)
(***************************************************************************)
BuiltDoor == [open : BOOLEAN, cost_open : Costs \ {PATH_COST_INFINITE},
              cost_closed : ClosedCosts]

CostOf(door) == IF door.open THEN door.cost_open ELSE door.cost_closed

\* What MapImpl(MapBuilder&&) starts to rebuild.
Built(terrain, doors) ==
  [cost  |-> [c \in Cell |-> IF c \in DOMAIN doors THEN CostOf(doors[c])
                                                   ELSE terrain[c]],
   color |-> [c \in Cell |-> COLOR_UNKNOWN],
   doors |-> doors,
   static_component     |-> EmptyPartition,
   dynamic_component    |-> EmptyPartition,
   next_component_color |-> 0,
   next_door_color      |-> -1]

Init ==
  \E places \in SUBSET Cell :
    \E terrain \in [Cell \ places -> Costs], doors \in [places -> BuiltDoor] :
      map = Rebuild(Built(terrain, doors))

\* The colours a mutation of the cell may take (one per neighbour, or one for
\* the cell itself, or one for a door) are within the type's range; the code
\* counts on it and does not check.
ColorsLeft(cell) ==
  /\ map.next_component_color + Len(Adjacent[cell]) < MaxColor
  /\ map.next_door_color >= COLOR_LOWEST_VALID

\* update({mutation}, true); a longer mutator is a sequence of these steps.
UpdateIncremental(mutation) ==
  /\ ColorsLeft(mutation.cell)
  /\ map' = Mutate(map, mutation)

\* update({mutation}, false); a longer mutator is a sequence of incremental
\* steps and then this one.
UpdateAndRebuild(mutation) ==
  /\ ColorsLeft(mutation.cell)
  /\ map' = Rebuild(Mutate(map, mutation))

\* update({}, false).
UpdateEmpty == map' = Rebuild(map)

Next ==
  \/ \E mutation \in Mutation :
        UpdateIncremental(mutation) \/ UpdateAndRebuild(mutation)
  \/ UpdateEmpty

Spec == Init /\ [][Next]_map

-----------------------------------------------------------------------------
(***************************************************************************)
(* Properties.                                                             *)
(***************************************************************************)
PassableCells(m)    == {c \in Cell : IsPassable(m, c)}
TransparentCells(m) == {c \in Cell : IsTransparent(m, c)}
NotWalls(m)         == {c \in Cell : m.color[c] # COLOR_IMPASSABLE}

\* The record has its fields, in their ranges; static_component is a partition
\* of the colours handed out so far, and every cell has one of them or is a wall.
WellFormed(m) ==
  /\ m = [cost |-> m.cost, color |-> m.color, doors |-> m.doors,
          static_component |-> m.static_component,
          dynamic_component |-> m.dynamic_component,
          next_component_color |-> m.next_component_color,
          next_door_color |-> m.next_door_color]
  /\ m.cost \in [Cell -> Costs]
  /\ DOMAIN m.doors \subseteq Cell
  /\ m.doors \in [DOMAIN m.doors -> Door]
  /\ m.next_component_color \in Nat
  /\ m.next_door_color \in COLOR_IMPASSABLE..-1
  /\ DOMAIN m.static_component
       \subseteq (m.next_door_color + 1)..(m.next_component_color - 1)
  /\ IsPartition(m.static_component)
  /\ m.color \in [Cell -> DOMAIN m.static_component \cup {COLOR_IMPASSABLE}]

\* The map is well-formed, its dynamic_component is a partition of the same
\* colours, and no colour is beyond the range of its type.
TypeOK ==
  /\ WellFormed(map)
  /\ IsPartition(map.dynamic_component)
  /\ DOMAIN map.dynamic_component = DOMAIN map.static_component
  /\ map.next_component_color <= MaxColor

DoorsMatch(m) ==
  \A c \in Cell :
    /\ IsDoor(m, c) <=> c \in DOMAIN m.doors
    /\ c \in DOMAIN m.doors => (IsPassable(m, c) <=> m.doors[c].open)
    /\ c \notin DOMAIN m.doors =>
         (IsPassable(m, c) <=> m.color[c] # COLOR_IMPASSABLE)

\* The assertions of is_passable, and those of the mutations that is_door (which
\* reads the colour) and the doors' map agree: a cell is a door by its colour iff
\* it is registered, a door is passable iff it is open, and any other cell is
\* passable iff it has a colour.
DoorsAgree == DoorsMatch(map)

\* The colours' static components name the areas of transparent cells, a door
\* being alone.
StaticLabels(m) ==
  Labels(NotWalls(m), EdgesIn(TransparentCells(m)),
         [c \in NotWalls(m) |-> m.static_component[m.color[c]]])

\* Their dynamic components name the areas of passable cells, a closed door
\* being alone.
DynamicLabels(m) ==
  Labels(NotWalls(m), EdgesIn(PassableCells(m)),
         [c \in NotWalls(m) |-> m.dynamic_component[m.color[c]]])

\* A dynamic component is a union of static ones: closed_door_to_open_door
\* unites the dynamic components of static representatives, and counts on it.
Coarsens(m) ==
  /\ IsPartition(m.dynamic_component)
  /\ DOMAIN m.dynamic_component = DOMAIN m.static_component
  /\ \A k \in DOMAIN m.static_component :
       m.dynamic_component[m.static_component[k]] = m.dynamic_component[k]

Consistent(m) ==
  /\ WellFormed(m)
  /\ DoorsMatch(m)
  /\ StaticLabels(m)
  /\ Coarsens(m)
  /\ DynamicLabels(m)

\* The inductive invariant: the colours, the doors' map, the costs and both
\* union-finds tell one story after every mutation.
IInv == Consistent(map) /\ map.next_component_color <= MaxColor

\* Two cells are in one static component exactly when transparent cells connect
\* them; a door is in a component of its own.
StaticExact ==
  LET area == Areas(TransparentCells(map))
  IN  \A a, b \in NotWalls(map) :
        map.static_component[map.color[a]] = map.static_component[map.color[b]]
          <=> a = b \/ (IsTransparent(map, a) /\ b \in area[a])

\* path_exists answers, in constant time and after any sequence of changes,
\* whether passable cells connect the two cells.
PathExistsExact ==
  LET area == Areas(PassableCells(map))
  IN  \A a, b \in Cell :
        PathExists(map, a, b) <=> IsPassable(map, a) /\ b \in area[a]

\* DeltaMap::check_invariant, the oracle of the tests: after any history the
\* map differs from one rebuilt from scratch only in the names of its colours,
\* several of which may stand for one colour of the rebuilt map.
AgreesWithRebuild ==
  LET simple == Rebuild(map)
      Same(component, m, a, b) ==
        m[component][m.color[a]] = m[component][m.color[b]]
  IN  /\ NotWalls(map) = {c \in Cell : simple.color[c] # COLOR_IMPASSABLE}
      /\ \A c \in NotWalls(map) : IsDoor(map, c) <=> IsDoor(simple, c)
      /\ \A a, b \in NotWalls(map) :
           /\ map.color[a] = map.color[b] => simple.color[a] = simple.color[b]
           /\ \A component \in {"static_component", "dynamic_component"} :
                Same(component, map, a, b) <=> Same(component, simple, a, b)

\* What get_cost and get_doors tell of each cell: all that callers know of a map
\* besides the paths there are.
Shown(m) ==
  [c \in Cell |-> [cost |-> m.cost[c],
                   door |-> {m.doors[d] : d \in DOMAIN m.doors \cap {c}}]]

\* What a mutation says its cell shall be.
Asked(mutation) ==
  LET passable == ~mutation.door \/ mutation.open
  IN  [cost |-> IF passable THEN mutation.cost ELSE PATH_COST_INFINITE,
       door |-> IF mutation.door
                THEN {[open |-> mutation.open, cost_open |-> mutation.cost,
                       cost_closed |-> PATH_COST_INFINITE]}
                ELSE {}]

\* MapMutator.hh: a mutation specifies the final state of its cell.  Whatever the
\* cell was, the helpers that update strings together for the change (closing,
\* walling, clearing, opening) leave the cell what was asked for, all of it, and
\* every other cell as it was.
MutationsShow ==
  \A mutation \in Mutation :
    ColorsLeft(mutation.cell) =>
      Shown(Mutate(map, mutation)) =
        [Shown(map) EXCEPT ![mutation.cell] = Asked(mutation)]

\* Colours are a bounded supply that only a rebuild refills, so a step leaves
\* none unused: each component colour it takes is the colour of some cell.
NoColorWasted ==
  [][\A k \in map.next_component_color..(map'.next_component_color - 1) :
       \E c \in Cell : map'.color[c] = k]_map
=============================================================================

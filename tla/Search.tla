------------------------------- MODULE Search -------------------------------
(***************************************************************************)
(* MapView::path: A* from src to dst over a map nobody changes.  A map is  *)
(* given by what the search asks of it: its passable cells, the pairs of   *)
(* cells path_exists links, and the cost of each move.  One turn of the    *)
(* loop is one step.                                                       *)
(***************************************************************************)
EXTENDS Integers, Sequences, FiniteSets, Functions

CONSTANTS
  Cell,
  Map,
  Passable,   \* Passable[m]: the passable cells of map m
  Linked,     \* Linked[m][a]: the cells path_exists links with cell a
  Adjacent,   \* Adjacent[c]: the neighbours of a cell, diagonals included
  Move,       \* Move[m][a][b]: move_cost, -1 if a move cannot be made
  Estimate,   \* Estimate[a][b]: manhattan(a, b)
  INFINITY    \* more than the length of any path

\* No move of map m leaves the cells S.
IsClosed(m, S) == \A a \in S : \A b \in Adjacent[a] : Move[m][a][b] # -1 => b \in S

ASSUME CellAssumption ==
  /\ IsFiniteSet(Cell)
  /\ \A c \in Cell : Adjacent[c] \subseteq Cell
  /\ \A a, b \in Cell : Estimate[a][b] \in Nat

\* A move joins passable cells.
ASSUME MapAssumption ==
  \A m \in Map :
    /\ Passable[m] \subseteq Cell
    /\ \A a, b \in Cell : \/ Move[m][a][b] = -1
                          \/ Move[m][a][b] \in Nat /\ {a, b} \subseteq Passable[m]

\* The cells path_exists links with a passable cell are those moves lead to:
\* no move leaves them, and every set with the cell that no move leaves has them.
ASSUME LinkedAssumption ==
  \A m \in Map : \A a \in Passable[m] :
    /\ a \in Linked[m][a] /\ IsClosed(m, Linked[m][a])
    /\ Linked[m][a] \subseteq Cell
    /\ \A S \in SUBSET Cell : a \in S /\ IsClosed(m, S) => Linked[m][a] \subseteq S

\* Some bound of the moves, taken once for every cell, is less than INFINITY.
ASSUME InfinityAssumption ==
  /\ INFINITY \in Nat
  /\ \E most \in 0..INFINITY :
       /\ \A m \in Map : \A a, b \in Cell : Move[m][a][b] <= most
       /\ most * Cardinality(Cell) < INFINITY

\* No move gains more on the target than it costs.  (A map with a cell cheaper
\* than 1 need not have such estimates: this is no assumption of the module.)
Consistent ==
  \A m \in Map : \A a, t \in Cell : \A b \in Adjacent[a] :
    Move[m][a][b] # -1 => Estimate[a][t] <= Move[m][a][b] + Estimate[b][t]

VARIABLES
  map, src, dst,
  pc,
  expanded, distance, previous,   \* of each cell
  fringe,                         \* the priority queue
  result                          \* the path returned

vars == <<map, src, dst, pc, expanded, distance, previous, fringe, result>>

Path(points, length) == [points |-> points, length |-> length]
NoPath == Path(<<>>, -1)

Init ==
  /\ map \in Map
  /\ src \in Cell
  /\ dst \in Cell
  /\ pc = "start"
  /\ expanded = [c \in Cell |-> FALSE]
  /\ distance = [c \in Cell |-> INFINITY]
  /\ previous = [c \in Cell |-> c]   \* never read before it is set
  /\ fringe = {}
  /\ result = NoPath

Passes(a, b) == {a, b} \subseteq Passable[map]

\* (A mutation of MayConnect: the components are not asked.)
MayConnectBlindly(a, b) == Passes(a, b)

MayConnect(a, b) == Passes(a, b) /\ b \in Linked[map][a]

\* path_helper: no path, and a path of one cell, are answered at once.
AnswerAtOnce ==
  /\ pc = "start"
  /\ MayConnect(src, dst) => src = dst
  /\ result' = IF MayConnect(src, dst) THEN Path(<<src>>, 0) ELSE NoPath
  /\ pc' = "done"
  /\ UNCHANGED <<map, src, dst, expanded, distance, previous, fringe>>

Begin ==
  /\ pc = "start"
  /\ MayConnect(src, dst)
  /\ src # dst
  /\ distance' = [distance EXCEPT ![src] = 0]
  /\ fringe' = {[pos |-> src, cost |-> Estimate[src][dst]]}
  /\ pc' = "search"
  /\ UNCHANGED <<map, src, dst, expanded, previous, result>>

\* (A mutation of Top: costs compared the way priority_queue does by itself.)
TopOfMax == {e \in fringe : \A f \in fringe : e.cost >= f.cost}

\* The queue gives an entry of the least cost, whichever it likes.
Top == {e \in fringe : \A f \in fringe : e.cost <= f.cost}

Popped(e) == pc = "search" /\ e \in Top

\* (A mutation of Drop: the entry is looked at and left in the queue.)
DropWithoutPop(e) == Popped(e) /\ expanded[e.pos] /\ UNCHANGED vars

\* The cell was expanded after the entry was pushed.
Drop(e) ==
  /\ Popped(e)
  /\ expanded[e.pos]
  /\ fringe' = fringe \ {e}
  /\ UNCHANGED <<map, src, dst, pc, expanded, distance, previous, result>>

\* (A mutation of Trail: the walk back stops one cell early.)
TrailFromSecond(c) ==
  LET trail[d \in {a \in Cell : expanded[a] \/ a = c}] ==
        IF previous[d] = src THEN <<d>> ELSE Append(trail[previous[d]], d)
  IN  trail[c]

\* The cells from src to c, found from c backwards: all but c are expanded.
Trail(c) ==
  LET trail[d \in {a \in Cell : expanded[a] \/ a = c}] ==
        IF d = src THEN <<src>> ELSE Append(trail[previous[d]], d)
  IN  trail[c]

Finish(e) ==
  /\ Popped(e)
  /\ ~expanded[e.pos]
  /\ e.pos = dst
  /\ expanded' = [expanded EXCEPT ![dst] = TRUE]
  /\ fringe' = fringe \ {e}
  /\ result' = Path(Trail(dst), distance[dst])
  /\ pc' = "done"
  /\ UNCHANGED <<map, src, dst, distance, previous>>

\* (A mutation of Nearer: a cell that has a distance keeps it.)
NearerOnce(c) ==
  {n \in Adjacent[c] : Move[map][c][n] # -1 /\ distance[n] = INFINITY}

\* The neighbours a path by way of c is a better path to.
Nearer(c) ==
  {n \in Adjacent[c] : /\ ~expanded[n]
                       /\ n # c
                       /\ Move[map][c][n] # -1
                       /\ distance[c] + Move[map][c][n] < distance[n]}

Expand(e) ==
  LET c      == e.pos
      via(n) == distance[c] + Move[map][c][n]
      near   == Nearer(c)
  IN  /\ Popped(e)
      /\ ~expanded[c]
      /\ c # dst
      /\ expanded' = [expanded EXCEPT ![c] = TRUE]
      /\ distance' = [n \in Cell |-> IF n \in near THEN via(n) ELSE distance[n]]
      /\ previous' = [n \in Cell |-> IF n \in near THEN c ELSE previous[n]]
      /\ fringe' = (fringe \ {e}) \cup
                     {[pos |-> n, cost |-> Estimate[n][dst] + via(n)] : n \in near}
      /\ UNCHANGED <<map, src, dst, pc, result>>

Next ==
  \/ AnswerAtOnce \/ Begin
  \/ \E e \in fringe : Drop(e)
  \/ \E e \in fringe : Finish(e)
  \/ \E e \in fringe : Expand(e)

\* A call runs to its end: nothing in the loop waits.
Spec == Init /\ [][Next]_vars /\ WF_vars(Next)

-----------------------------------------------------------------------------
(***************************************************************************)
(* Properties.                                                             *)
(***************************************************************************)

\* The walks, as end and length, that go one move further than those of walks.
Longer(m, walks) ==
  UNION {{<<n, w[2] + Move[m][w[1]][n]>> :
            n \in {a \in Adjacent[w[1]] : Move[m][w[1]][a] # -1}} : w \in walks}

\* The walks that no other walk to the same end is shorter than.
ShortestOf(walks) == {w \in walks : \A v \in walks : v[1] = w[1] => w[2] <= v[2]}

\* The shortest walks of map m from s, as pairs of an end and a length.
Shortest(m, s) ==
  LET within[n \in 0..Cardinality(Cell)] ==   \* of at most n moves
        IF n = 0 THEN {<<c, 0>> : c \in {s} \cap Passable[m]}
        ELSE LET less == within[n - 1] IN ShortestOf(less \cup Longer(m, less))
  IN  within[Cardinality(Cell)]

\* Neither assertion of path() fails: the queue never runs empty, because what
\* path_exists answers, by components kept along Manhattan moves, the search with
\* diagonals can reach; and it never holds an impassable cell.
NeverLost ==
  pc = "search" => fringe # {} /\ \A e \in fringe : e.pos \in Passable[map]

\* An expanded cell has its final distance, so that the search may skip the
\* entries the queue still holds for it and need not open it again.
ExpandedIsSettled ==
  LET shortest == Shortest(map, src)
  IN  \A c \in Cell : expanded[c] => <<c, distance[c]>> \in shortest

\* "Compute the shortest path between two points if one exists."
ReturnsShortest ==
  pc = "done" =>
    LET lengths == {w[2] : w \in {v \in Shortest(map, src) : v[1] = dst}}
    IN  lengths = IF result = NoPath THEN {} ELSE {result.length}

\* The path that is returned goes from src to dst by moves of the map, over
\* no cell twice, and is as long as it says.
ReturnsWalk ==
  LET points == result.points
      moves  == {i \in 1..Len(points) : i > 1}
      cost(i) == Move[map][points[i - 1]][points[i]]
      length[i \in 1..Len(points)] == IF i = 1 THEN 0 ELSE length[i - 1] + cost(i)
  IN  result # NoPath =>
        /\ points[1] = src /\ points[Len(points)] = dst
        /\ IsInjective(points)
        /\ \A i \in moves : points[i] \in Adjacent[points[i - 1]] /\ cost(i) # -1
        /\ result.length = length[Len(points)]

\* Each call returns, although a cell may be queued many times.
PathReturns == <>(pc = "done")
=============================================================================

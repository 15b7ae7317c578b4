------------------------------ MODULE MCSearch ------------------------------
(***************************************************************************)
(* Instances of Search: every map of a small grid with the given costs.    *)
(***************************************************************************)
EXTENDS Search, EuclideanGraph

CONSTANT Costs

MCMap == [Coord -> Costs]

MCPassable == [m \in MCMap |-> {a \in Coord : IsPassable(m, a)}]

\* path_exists: reached from a by Manhattan moves over passable cells.
Room(m, a) ==
  LET passable == MCPassable[m]
      room[n \in 0..Cardinality(Coord)] ==   \* by at most n moves
        IF n = 0 THEN {a} \cap passable
        ELSE LET less == room[n - 1]
             IN  less \cup {b \in passable : \E c \in less : IsManhattan(c, b)}
  IN  room[Cardinality(Coord)]

MCLinked   == [m \in MCMap |-> [a \in Coord |-> Room(m, a)]]
MCAdjacent == [a \in Coord |-> Neighbors(a)]
MCMove     ==
  [m \in MCMap |-> [a \in Coord |-> [b \in Coord |-> MoveCost(m, a, b)]]]
MCEstimate == [a \in Coord |-> [b \in Coord |-> Manhattan(a, b)]]

\* The estimates are consistent where no cell is cheaper than 1.
ASSUME ConsistentAssumption == 0 \notin Costs => Consistent
=============================================================================

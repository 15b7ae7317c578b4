SPECIFICATION Spec
CONSTANTS
  Rows = 2
  Cols = 3
  Layers = 1
  Costs = {0, 1}
  Cell <- Coord
  Map <- MCMap
  Passable <- MCPassable
  Linked <- MCLinked
  Adjacent <- MCAdjacent
  Move <- MCMove
  Estimate <- MCEstimate
  INFINITY = 10000
CHECK_DEADLOCK FALSE
INVARIANT ReturnsShortest

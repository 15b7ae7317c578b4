SPECIFICATION Spec
CONSTANTS
  WIDTH = 4
  NOTHING_READ = NOTHING_READ
INVARIANTS ReadInStep StaysInside EachCellItsCharacter NeighborsExact ToNumberTellsApart
PROPERTY ReadsWholeMap
CHECK_DEADLOCK FALSE

----------------------------- MODULE MapReader ------------------------------
(***************************************************************************)
(* The EuclideanGraphBuilder that reads a map: a grid of chunks is made in *)
(* the sizes the stream gives, and the range of its cells gone through,    *)
(* one character of the stream for each.  Every loop over the cells of a   *)
(* map, rebuild's included, goes through them in this way.                 *)
(*                                                                         *)
(* A cell holds the number of the character it was given, whatever cost    *)
(* and door that stands for, and the stream has a character for every cell *)
(* (the code asserts as much).                                             *)
(***************************************************************************)
EXTENDS Coordinates, FiniteSets

CONSTANT NOTHING_READ  \* what a place no character was read for holds

ASSUME NothingAssumption == NOTHING_READ \notin Nat

VARIABLES
  chunks,     \* how many chunks the grid has each way
  chunkSize,  \* how many cells a chunk has each way
  pos,        \* the iterator
  read,       \* how many characters have been read
  data        \* what each place of the grid holds

vars == <<chunks, chunkSize, pos, read, data>>

size == FullSize(chunks, chunkSize)

Init ==
  /\ chunks \in Coord
  /\ chunkSize \in Coord
  /\ pos = Begin
  /\ read = 0
  /\ data = [p \in Places(chunks, chunkSize) |-> NOTHING_READ]

ReadCell ==
  /\ ~Same(pos, End(size))
  /\ data' = [data EXCEPT ![Place(pos, chunks, chunkSize)] = read]
  /\ read' = read + 1
  /\ pos' = Advance(pos, size)
  /\ UNCHANGED <<chunks, chunkSize>>

Next == ReadCell

\* The loop runs: a constructor is not left before its end.
Spec == Init /\ [][Next]_vars /\ WF_vars(Next)

-----------------------------------------------------------------------------
Cells == {a \in Coord : InBounds(a, size)}

\* The iterator is at a cell of the grid until it is at the end, and the place
\* of the cell is one of the chunk arrays': the loop touches nothing else, even
\* of a range that is empty or as wide as a coordinate can say.
StaysInside ==
  ~Same(pos, End(size)) =>
    /\ InBounds(pos, size)
    /\ Place(pos, chunks, chunkSize) \in DOMAIN data

\* The n-th character is that of the cell with index n: the iterator agrees with
\* get_coord_by_index and get_index_by_coord, leaves out no cell and comes to
\* none twice, and no two cells share a place in the chunks.
EachCellItsCharacter ==
  /\ Cells # {} => pos = CoordByIndex(read, size)
  /\ \A a \in Cells :
       LET n == IndexByCoord(a, size)
       IN  /\ CoordByIndex(n, size) = a
           /\ data[Place(a, chunks, chunkSize)] = (IF n < read THEN n ELSE NOTHING_READ)

\* What get_adjacent gives for a cell is the cells one step from it in the same
\* layer, and the one above and the one below: a step off the edge of the grid,
\* which wraps around, never lands in the grid.
NeighborsExact ==
  LET gap(i, j) == IF i < j THEN j - i ELSE i - j
      near(a) == /\ a # pos
                 /\ gap(a.row, pos.row) <= 1 /\ gap(a.col, pos.col) <= 1
                 /\ gap(a.layer, pos.layer) <= 1
      straight(a) == gap(a.row, pos.row) + gap(a.col, pos.col) + gap(a.layer, pos.layer) = 1
  IN  pos \in Cells =>
        /\ Adjacent(pos, FALSE, size) = {a \in Cells : near(a) /\ straight(a)}
        /\ Adjacent(pos, TRUE, size) =
             {a \in Cells : near(a) /\ (straight(a) \/ a.layer = pos.layer)}

\* Although the base of to_number is one too small, it tells the cells of a grid
\* and the end of its range apart, and orders them as the iterator does.
ToNumberTellsApart ==
  \A a \in Cells :
    /\ Same(a, pos) <=> a = pos
    /\ pos \in Cells => (ToNumber(a) < ToNumber(pos) <=> IndexByCoord(a, size) < read)

\* The inductive invariant: until the loop is at the end, as many characters have
\* been read as there are cells before the iterator, each into its own place.
ReadInStep ==
  /\ chunks \in Coord
  /\ chunkSize \in Coord
  /\ pos \in Coord
  /\ data \in [Places(chunks, chunkSize) -> Nat \cup {NOTHING_READ}]
  /\ InBounds(pos, size) \/ pos = End(size)
  /\ read = IndexByCoord(pos, size)
  /\ \A a \in Cells :
       data[Place(a, chunks, chunkSize)] =
         (IF IndexByCoord(a, size) < read THEN IndexByCoord(a, size) ELSE NOTHING_READ)

\* The loop ends, and has then read a character for every cell.
ReadsWholeMap == <>[](Same(pos, End(size)) /\ read = Cardinality(Cells))
=============================================================================

---------------------------- MODULE Coordinates -----------------------------
(***************************************************************************)
(* The arithmetic of cells: EuclideanCoord, with its three unsigned        *)
(* numbers, EuclideanCoordRange, and where Grid and CowGrid keep a cell.   *)
(*                                                                         *)
(* WIDTH is the number of values of a coordinate, 65536 in the code, which *)
(* every conversion to a coordinate reduces modulo WIDTH.  Indices are     *)
(* computed in int and size_t, taken to be wide enough here.               *)
(***************************************************************************)
EXTENDS Integers

CONSTANT WIDTH

ASSUME WidthAssumption == WIDTH \in Nat /\ WIDTH > 1

\* The greatest coordinate; also what -1 converts to.
MAX == WIDTH - 1

Coord == [row : 0..MAX, col : 0..MAX, layer : 0..MAX]

\* EuclideanCoord(r, c, l).
At(r, c, l) == [row |-> r % WIDTH, col |-> c % WIDTH, layer |-> l % WIDTH]

\* (A mutation of Plus: the sum is cut off at the greatest coordinate.)
PlusSaturating(a, b) ==
  LET cut(n) == IF n > MAX THEN MAX ELSE n
  IN  At(cut(a.row + b.row), cut(a.col + b.col), cut(a.layer + b.layer))

Plus(a, b) == At(a.row + b.row, a.col + b.col, a.layer + b.layer)

\* (A mutation of ToNumber: the layer is left out, as in the hash.)
ToNumberOfLayer(a) == a.col + MAX * a.row

\* to_number: the base is the greatest coordinate, not the number of them.
ToNumber(a) == a.col + MAX * (a.row + MAX * a.layer)

\* operator==.
Same(a, b) == ToNumber(a) = ToNumber(b)

InBounds(a, size) == a.row < size.row /\ a.col < size.col /\ a.layer < size.layer

Area(size) == size.row * size.col * size.layer

-----------------------------------------------------------------------------
(* get_adjacent.                                                           *)

ManhattanDeltas ==
  {At(0, MAX, 0), At(MAX, 0, 0), At(0, 1, 0), At(1, 0, 0), At(0, 0, 1), At(0, 0, MAX)}

DiagonalDeltas == {At(1, 1, 0), At(MAX, 1, 0), At(1, MAX, 0), At(MAX, MAX, 0)}

Adjacent(a, diagonals, size) ==
  LET deltas == ManhattanDeltas \cup (IF diagonals THEN DiagonalDeltas ELSE {})
  IN  {b \in {Plus(d, a) : d \in deltas} : InBounds(b, size)}

-----------------------------------------------------------------------------
(* EuclideanCoordRange(size) and its iterator.                             *)

Begin == At(0, 0, 0)

\* (A mutation of End: a range without cells is not told apart.)
EndOfLayers(size) == At(0, 0, size.layer)

\* (A mutation of End: it is in the last layer instead of after it.)
EndInLastLayer(size) ==
  IF size.row = 0 \/ size.col = 0 \/ size.layer = 0 THEN Begin ELSE At(0, 0, size.layer - 1)

End(size) ==
  IF size.row = 0 \/ size.col = 0 \/ size.layer = 0 THEN Begin ELSE At(0, 0, size.layer)

\* (A mutation of Advance: the column is not reset.)
AdvanceKeepingCol(a, size) ==
  LET col == (a.col + 1) % WIDTH
      row == (a.row + 1) % WIDTH
  IN  IF col # size.col THEN At(a.row, col, a.layer)
      ELSE IF row # size.row THEN At(row, a.col, a.layer)
      ELSE At(0, 0, a.layer + 1)

\* operator++.
Advance(a, size) ==
  LET col == (a.col + 1) % WIDTH
      row == (a.row + 1) % WIDTH
  IN  IF col # size.col THEN At(a.row, col, a.layer)
      ELSE IF row # size.row THEN At(row, 0, a.layer)
      ELSE At(0, 0, a.layer + 1)

IndexByCoord(a, size) == (a.layer * size.row + a.row) * size.col + a.col

CoordByIndex(n, size) ==
  LET left == n % (size.row * size.col)
  IN  At(left \div size.col, left % size.col, n \div (size.row * size.col))

-----------------------------------------------------------------------------
(* Where a CowGrid of chunks keeps a cell: the position of the chunk in    *)
(* the grid of chunks, and that of the cell in its chunk.                  *)

FullSize(chunks, chunkSize) ==
  At(chunks.row * chunkSize.row, chunks.col * chunkSize.col, chunks.layer * chunkSize.layer)

Chunk(a, chunkSize) ==
  At(a.row \div chunkSize.row, a.col \div chunkSize.col, a.layer \div chunkSize.layer)

\* (A mutation of Inner: every layer is kept in the first.)
InnerOfFirstLayer(a, chunkSize) == At(a.row % chunkSize.row, a.col % chunkSize.col, 0)

Inner(a, chunkSize) ==
  At(a.row % chunkSize.row, a.col % chunkSize.col, a.layer % chunkSize.layer)

\* Grid::at: the place of a cell in the backing array.
GridIndex(a, size) == a.col + size.col * (a.row + size.row * a.layer)

Place(a, chunks, chunkSize) ==
  <<GridIndex(Chunk(a, chunkSize), chunks), GridIndex(Inner(a, chunkSize), chunkSize)>>

Places(chunks, chunkSize) == (0..(Area(chunks) - 1)) \X (0..(Area(chunkSize) - 1))
=============================================================================

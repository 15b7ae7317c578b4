SPECIFICATION Spec
CONSTANTS
  Thread = {t1, t2}
  Shared = Shared
  Grid = {g1, g2, g3}
  Index = {1}
  Inner = {1, 2}
  Value = {0, 1}
  Block = {b1, b2, b3, b4, b5}
SYMMETRY Symmetry
INVARIANTS TypeOK WritesUnique
PROPERTY IndependentGrids

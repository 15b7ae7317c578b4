CONSTANTS
  Object = {o1, o2}
  Elem = {e1, e2, e3}
  Buffer = {b1, b2, b3, b4, b5}
  NoBuffer = NoBuffer
  Lists <- MCLists
SYMMETRY Symmetry
SPECIFICATION Spec
INVARIANTS PointersOwn CountSetsExact ShallowForest
PROPERTY IndependentPartitions

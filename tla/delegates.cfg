CONSTANTS
  Graph = {g, h}
  Domain = {d, e}
  Iterator = {i, j, k}
  State = {s, t}
  IteratorClass <- MCIteratorClass
  Range = d
  First = i
  Last = j
  Address = {1, 2, 3, 4, 5}
  Size = {1, 2}
  Content = {0, 1}
SPECIFICATION Spec
INVARIANTS OwnedOnce LoopVisitsDomain
PROPERTY IndependentValues
SYMMETRY Symmetry
VIEW UpToAddresses

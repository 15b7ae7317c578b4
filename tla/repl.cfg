CONSTANTS
  Rows = 2
  Cols = 2
  Layers = 1
  Costs = {1, 255}
  Places <- MCPlaces
SPECIFICATION Spec
INVARIANT LengthsAgree
CHECK_DEADLOCK FALSE

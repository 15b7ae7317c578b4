CONSTANTS
  Rows = 1
  Cols = 2
  Cell <- MCCell
  Adjacent <- MCAdjacent
  Costs = {1, 255}
  ClosedCosts = {1, 255}
  COLOR_MULTIPLE <- Five
  MaxColor = 4
SPECIFICATION MCFreeSpec
INVARIANTS DoorsAgree

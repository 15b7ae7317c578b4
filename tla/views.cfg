CONSTANTS
  Length = 2
  Cell <- MCCell
  Adjacent <- MCAdjacent
  Costs = {1, 255}
  ClosedCosts <- Infinite
  COLOR_MULTIPLE <- Five
  MaxColor = 3
  View = {v, w}
  Batch <- MCBatch
SPECIFICATION ViewsSpec
INVARIANTS PrefixShown ViewsAnswer
PROPERTY ViewsShowWorlds

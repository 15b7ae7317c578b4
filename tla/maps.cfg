CONSTANTS
  Rows = 2
  Cols = 3
  Cell <- MCCell
  Adjacent <- MCAdjacent
  Costs = {1, 255}
  ClosedCosts <- Infinite
  COLOR_MULTIPLE <- Seven
  MaxColor = 8
SPECIFICATION MCSpec
INVARIANTS DoorsAgree StaticExact PathExistsExact IInv AgreesWithRebuild MutationsShow
PROPERTY NoColorWasted

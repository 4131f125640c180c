SPECIFICATION Spec
CONSTANTS
  MaxLen = 3
  Classes <- Squared
  Thresholds = {0}
  Items <- LargeItems
  Blocks <- LargeBlocks
  Drift = 0
  AbsTol = 0
  MaxOps = 7
  MaxFinite = 30
INVARIANT MeanFollowsItems

SPECIFICATION StatsSpec
CONSTANTS
  MaxLen = 3
  Classes <- BothClasses
  Thresholds = {0, 3}
  Items <- MixedItems
  Blocks <- MixedBlocks
  AbsGate = 1
  RelNum = 1
  RelDen = 2
  GatedItems <- MixedGatedItems
  GatedBlocks <- MixedGatedBlocks
  Drift = 1
  AbsTol = 1
  MaxOps = 5
  MaxFinite = 999
INVARIANT StatsTypeOK MeansFollowItems MeansDriftBounded SquaresWithinTolerance GatedCountsExact GatedMeansFollowItems

SPECIFICATION AnySpec
CONSTANTS
  MaxLen = 3
  Zero = zero
  None = None
  MaxSsize = 7
  a = a
  b = b
  Value = {a, b}
  Policies = {"never", "always", "conditional"}
  Blocks <- MixedBlocks
  Targets <- MixedTargets
  Slices <- AllSlices
  KeptSlices <- FirstSlice
INVARIANT TypeOK RefFollowsBuffer SlicesInOrder IndexInOrder IterationInOrder
PROPERTY ImplementsWindow

SPECIFICATION ViewSpec
CONSTANTS
  MaxLen = 3
  Zero = zero
  None = None
  MaxSsize = 9
  a = a
  b = b
  Value = {a, b}
  Policies = {"never"}
  Blocks <- ShortBlocks
  Targets <- RemoveOne
  Slices <- FirstSlice
  KeptSlices <- FirstSlice
PROPERTY ReturnedArraysKeepTheirItems

SPECIFICATION Spec
CONSTANTS
  DefaultL3 = 64
  Host <- Hosts
  Times = {0, 1}
  PySsizeMax = 99
  DefaultRam = 1500
  RamShare = 10
  BudgetCap = 200
  MinRuns = 4
  RunsPerCalc = 2
  Programs = {"raw_blocking_buf"}
  InUse = {}
  RawLimit = 200
  MaxlenBytes = 32
  BlockBytes = 16
  UtilMaxlens <- OneMaxlen
  UtilBlocks <- TwoBlocks
  UtilCalcEvery = 1
  SpareRam = 2184
  SweepMaxlens <- WideMaxlens
  SweepBlocks <- WideBlocks
  SweepCalcs <- TwoCalcs
  EvictBytes = {20, 64}
  FocusArgs <- ManyFocusArgs
  AppJobs <- ManyJobs
  Questions <- ManyQuestions
  MaxCalls = 3
INVARIANT NothingLeftBehind
CHECK_DEADLOCK FALSE

SPECIFICATION FairSpec
CONSTANTS
  DefaultL3 = 64
  Host <- Hosts
  Times = {0, 1, 2}
  PySsizeMax = 99
  DefaultRam = 1500
  RamShare = 10
  BudgetCap = 200
  MinRuns = 4
  RunsPerCalc = 2
  Programs = {"raw_overwrite_buf", "raw_blocking_buf", "raw_util_buffers", "bench_raw_buf", "bench_op_f", "application"}
  InUse = {"offset"}
  RawLimit = 200
  MaxlenBytes = 32
  BlockBytes = 16
  UtilMaxlens <- OneMaxlen
  UtilBlocks <- TwoBlocks
  UtilCalcEvery = 1
  SpareRam = 2184
  SweepMaxlens <- WideMaxlens
  SweepBlocks <- WideBlocks
  SweepCalcs <- TwoCalcs
  EvictBytes = {20, 64}
  FocusArgs <- ManyFocusArgs
  AppJobs <- ManyJobs
  Questions <- ManyQuestions
  MaxCalls = 3
INVARIANT BenchTypeOK FilesRemoved UsedDataStaysOpen FootprintFits PlanLeavesLessThanARun ValuesInRange EvictArrayFillsCache OwnDataWraps TimesAreMeasured CalcsEvenly CollectorBackOn FocusAnswers RowsTellTheirTask

PROPERTY ProgramEnds
CHECK_DEADLOCK FALSE

-------------------------------- MODULE MCBench --------------------------------
(***************************************************************************)
(* Instances of BenchScripts for TLC.                                      *)
(***************************************************************************)
EXTENDS BenchProperties

Cache(level, size) == [level |-> level, size |-> size]

\* A host with room for small benchmarks, one that knows nothing of itself, and one
\* with less memory than the sweeps spare.
Hosts ==
  { [platform |-> "linux", ram |-> 2400,
     caches |-> <<Cache(2, 8), Cache(3, Broken), Cache(3, 32)>>],
    [platform |-> "other", ram |-> 5000, caches |-> <<>>],
    [platform |-> "darwin", ram |-> 900, caches |-> <<Cache(2, 40)>>] }

OneMaxlen == <<4>>
TwoBlocks == <<2, 6>>

\* Data for blocks of 6, used for smaller ones, too.
WideMaxlens == <<6>>
WideBlocks  == <<2, 6>>
TwoCalcs    == <<1, 2>>

FocusCall(buffer_type, dtype, maxlen, calc_every, verbose) ==
  [buffer_type |-> buffer_type, dtype |-> dtype, buffer_maxlen |-> maxlen, block_size |-> 2,
   calc_every |-> calc_every, verbose |-> verbose, fallback |-> "calculation"]

\* A plain call for each dtype, one with a report, one with too few runs for its
\* calc_every, and two that are refused.
ManyFocusArgs ==
  { FocusCall("mean", "float32", 4, 1, FALSE), FocusCall("mean", "float64", 4, 1, FALSE),
    FocusCall("mean_square", "float32", 4, 1, TRUE),
    FocusCall("mean", "float32", 4, 6, FALSE),
    FocusCall("mean", "float32", 2, 1, FALSE), FocusCall("other", "float32", 4, 1, FALSE) }

\* Rows that do not fit the number of runs, and some that do.
ManyJobs ==
  { Job(kind, "rewinds", 2, 4, 4, 2, Rows(blocks, 4, offset, 3), offset = 2) :
      kind \in {"raw_bench", "raw_bench_with_calc"}, blocks \in 3 .. 5, offset \in 1 .. 2 }

PlanQuestions ==
  { [op |-> "determine_num_runs",
     args |-> [elem_bytes |-> 4, total_byte_limit |-> limit, maxlen_byte_limit |-> 20,
               block_byte_limit |-> block_bytes, maxlen |-> maxlen, block_size |-> Omitted,
               with_fill |-> with_fill]] :
      limit \in 0 .. 200, block_bytes \in {3, 4, 8, 12, 28}, maxlen \in {Omitted, 2, 3, 6},
      with_fill \in BOOLEAN }

\* Factors and offsets of the type itself: NumPy raises for a Python integer beyond it.
\* (A negative factor for an unsigned type is asked for, too.)
RandQuestions ==
  { [op |-> "generate_rand_memmap_arr", info |-> info, mul |-> mul, sub |-> sub] :
      info \in {[min |-> -8, max |-> 7]}, mul \in -8 .. 7, sub \in -8 .. 7 }
  \cup
  { [op |-> "generate_rand_memmap_arr", info |-> info, mul |-> mul, sub |-> sub] :
      info \in {[min |-> 0, max |-> 15]}, mul \in -2 .. 15, sub \in 0 .. 15 }

ManyQuestions == PlanQuestions \cup RandQuestions
===============================================================================

----------------------------- MODULE OperationFocus -----------------------------
(***************************************************************************)
(* determine_operation_focus of utils.py: plan a benchmark within a tenth  *)
(* of the memory, generate its data under names of its own, measure the    *)
(* two focuses one after the other, return the faster one.  After the      *)
(* arguments are accepted nothing raises: whatever fails, the fallback is  *)
(* returned.                                                               *)
(***************************************************************************)
EXTENDS RawBench

CONSTANTS
  PySsizeMax,     \* PY_SSIZE_T_MAX
  DefaultRam,     \* assumed where get_available_ram knows nothing (1 GiB)
  RamShare,       \* one part in so many is used (10)
  BudgetCap,      \* and no more than this (512 MiB)
  MinRuns,        \* runs aimed at (128)
  RunsPerCalc     \* runs aimed at for each calc_every (10)

ASSUME FocusAssumption ==
  {PySsizeMax, DefaultRam, RamShare, BudgetCap, MinRuns, RunsPerCalc} \subseteq Nat \ {0}

VARIABLE focus      \* the call in progress, or the last one

Focus == {"calculation", "extend/append"}

\* Arguments: "other" stands for whatever is none of the accepted values.
FocusCalls ==
  [buffer_type : {"mean", "mean_square", "other"}, dtype : Dtype \cup {"other"},
   buffer_maxlen : Int, block_size : Int, calc_every : Int, verbose : BOOLEAN,
   fallback : Focus \cup {"other"}]

NoArgs == [buffer_type |-> "mean", dtype |-> "float32", buffer_maxlen |-> 3,
           block_size |-> 1, calc_every |-> 1, verbose |-> FALSE,
           fallback |-> "extend/append"]

FocusInit ==
  focus = [at |-> "idle", args |-> NoArgs, n_runs |-> 0,
           times |-> [f \in Focus |-> Absent], failed |-> FALSE, result |-> "none"]

InvalidFocus(a) ==
  \/ a.calc_every <= 0 \/ a.block_size <= 0
  \/ a.buffer_maxlen > PySsizeMax \/ a.buffer_maxlen <= 2
  \/ a.dtype \notin Dtype
  \/ a.fallback \notin Focus
  \/ a.buffer_type \notin {"mean", "mean_square"}

\* The memory a focus benchmark may take.
Budget ==
  LET ram == IF GetAvailableRam(host) # Absent THEN GetAvailableRam(host) ELSE DefaultRam
  IN IF ram \div RamShare < BudgetCap THEN ram \div RamShare ELSE BudgetCap

FocusPlan(a) ==
  [elem_bytes |-> ItemSize[a.dtype], total_byte_limit |-> Budget,
   maxlen_byte_limit |-> Omitted, block_byte_limit |-> Omitted,
   maxlen |-> a.buffer_maxlen, block_size |-> a.block_size, with_fill |-> TRUE]

\* Every divisor but 1 is even.
PowerOfTwo(n) == \A d \in 2 .. n : n % d = 0 => d % 2 = 0

\* 1 << (n.bit_length() - 1)
PowerBelow(n) ==
  CHOOSE p \in 1 .. n : PowerOfTwo(p) /\ \A q \in 1 .. n : PowerOfTwo(q) => q <= p

FocusRuns(a) ==
  LET possible == DetermineNumRuns(FocusPlan(a)).n_runs
      wanted   == IF a.calc_every * RunsPerCalc > MinRuns THEN a.calc_every * RunsPerCalc
                  ELSE MinRuns
  IN IF possible = 0 THEN 0 ELSE PowerBelow(IF wanted < possible THEN wanted ELSE possible)

\* The call, up to the point where the data is asked for.
CallFocus(a) ==
  /\ focus.at \in {"idle", "raised", "returned"}
  /\ LET new == [focus EXCEPT !.args = a, !.n_runs = 0, !.failed = FALSE,
                              !.times = [f \in Focus |-> Absent], !.result = "none"]
     IN IF InvalidFocus(a)
        THEN /\ focus' = [new EXCEPT !.at = "raised"]
             /\ UNCHANGED fileVars
        ELSE IF FocusRuns(a) < a.calc_every
        THEN /\ focus' = [new EXCEPT !.at = "returned", !.n_runs = FocusRuns(a),
                                     !.result = a.fallback]
             /\ UNCHANGED fileVars
        ELSE /\ focus' = [new EXCEPT !.at = "generating", !.n_runs = FocusRuns(a)]
             /\ EnterData("inner", a.dtype, FocusRuns(a), a.block_size, a.buffer_maxlen, Kinds)
  /\ UNCHANGED benchVars

\* The arrays of a context as a benchmark in the same process gets them.
OwnRows(l) ==
  LET s == mgr[l].shapes
  IN Rows(s.data[1], s.fill[1], s.offset[1], s.offset[2])

FocusJob ==
  Job("raw_bench_with_calc", "rewinds", focus.args.block_size, focus.args.buffer_maxlen,
      focus.n_runs, focus.args.calc_every, OwnRows("inner"), TRUE)

Measure(f) ==
  /\ StartBench("main", FocusJob)
  /\ focus' = [focus EXCEPT !.at = f]
  /\ UNCHANGED fileVars

MeasureFirst == focus.at = "generating" /\ mgr["inner"].at = "open" /\ Measure("calculation")

\* The first result is kept, the other focus is measured.
MeasureSecond ==
  /\ focus.at = "calculation" /\ bench.at = "returned"
  /\ StartBench("main", FocusJob)
  /\ focus' = [focus EXCEPT !.at = "extend/append", !.times["calculation"] = bench.time]
  /\ UNCHANGED fileVars

Faster(times) ==
  IF times["calculation"] < times["extend/append"] THEN "calculation" ELSE "extend/append"

\* Both are known.  The verbose report divides by each of them.
Decide ==
  /\ focus.at = "extend/append" /\ bench.at = "returned"
  /\ LET times == [focus.times EXCEPT !["extend/append"] = bench.time]
         failed == focus.args.verbose /\ \E f \in Focus : times[f] = 0
     IN focus' = [focus EXCEPT !.at = "leaving", !.times = times, !.failed = failed,
                    !.result = IF failed THEN focus.args.fallback ELSE Faster(times)]
  /\ ExitData("inner")
  /\ bench' = NoBench /\ UNCHANGED gc

\* Faulty variant: what the first measurement said is returned.
FocusFails_PartialResult ==
  /\ focus.at \in Focus /\ bench.at = "raised"
  /\ focus' = [focus EXCEPT !.at = "leaving", !.failed = TRUE, !.result = focus.at]
  /\ ExitData("inner")
  /\ bench' = NoBench /\ UNCHANGED gc

\* An exception in a benchmark leaves the context, and ends in the fallback.
FocusFails ==
  /\ focus.at \in Focus /\ bench.at = "raised"
  /\ focus' = [focus EXCEPT !.at = "leaving", !.failed = TRUE,
                            !.result = focus.args.fallback]
  /\ ExitData("inner")
  /\ bench' = NoBench /\ UNCHANGED gc

\* So does one while the data is generated.
FocusWithoutData ==
  /\ focus.at = "generating" /\ mgr["inner"].raised
  /\ focus' = [focus EXCEPT !.at = "returned", !.failed = TRUE,
                            !.result = focus.args.fallback]
  /\ UNCHANGED <<fileVars, benchVars>>

FocusReturns ==
  /\ focus.at = "leaving" /\ mgr["inner"].at = "left"
  /\ focus' = [focus EXCEPT !.at = "returned"]
  /\ UNCHANGED <<fileVars, benchVars>>

FocusStep ==
  \/ MeasureFirst \/ MeasureSecond \/ Decide
  \/ FocusFails \/ FocusWithoutData \/ FocusReturns
===============================================================================

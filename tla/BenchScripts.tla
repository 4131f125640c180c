------------------------------ MODULE BenchScripts ------------------------------
(***************************************************************************)
(* The programs that use bench_utils.py and utils.py: the three scripts of *)
(* perf/raw_benchmarks, the two sweeps of perf/relative_benchmarks, and an *)
(* application that calls the library's functions itself.  A program goes  *)
(* through rounds: plan the runs, generate the data, measure, remove the   *)
(* data.                                                                   *)
(***************************************************************************)
EXTENDS BenchPool, SequencesExt

CONSTANTS
  Programs,                                 \* the programs to choose from
  RawLimit,                                 \* TOTAL_BYTE_LIMIT of perf/raw_benchmarks
  MaxlenBytes, BlockBytes,                  \* of raw_overwrite_buf and raw_blocking_buf
  UtilMaxlens, UtilBlocks, UtilCalcEvery,   \* of raw_util_buffers
  SpareRam,                                 \* GIB_SAFETY_BUFFER of the sweeps
  SweepMaxlens, SweepBlocks, SweepCalcs,    \* of the sweeps
  EvictBytes, FocusArgs, AppJobs, Questions,  \* what an application calls with
  MaxCalls                                  \* bound: its calls

\* The constants of the scripts.
ASSUME ScriptsAssumption ==
  /\ Programs \subseteq {"raw_overwrite_buf", "raw_blocking_buf", "raw_util_buffers",
                         "bench_raw_buf", "bench_op_f", "application"}
  /\ {RawLimit, MaxlenBytes, BlockBytes, SpareRam} \subseteq Nat
  /\ {UtilMaxlens, UtilBlocks} \subseteq Seq(Nat)
  /\ {SweepMaxlens, SweepBlocks} \subseteq Seq(Nat) \ {<<>>}
  /\ UtilCalcEvery \in Nat \ {0} /\ SweepCalcs \in Seq(Nat \ {0})

\* An application calls with arguments of the declared types, makes room for one number
\* at least, and asks for factors and offsets of the dtype.
ASSUME ApplicationAssumption ==
  /\ \A value \in EvictBytes : value \in Nat /\ value >= 8
  /\ FocusArgs \subseteq FocusCalls /\ AppJobs \subseteq JobArgs
  /\ MaxCalls \in Nat
  /\ \A q \in Questions :
       /\ q.op = "determine_num_runs" => q.args \in PlanArgs
       /\ q.op = "generate_rand_memmap_arr" =>
            IntegerType(q.info) /\ q.mul \in Int /\ q.sub \in q.info.min .. q.info.max

VARIABLES script, answer

scriptVars == <<script, answer>>
vars == <<host, evict, disk, mgr, bench, gc, focus, pool, script, answer>>

ByBytes(dtype, block_byte_limit, limit) ==
  [elem_bytes |-> ItemSize[dtype], total_byte_limit |-> limit,
   maxlen_byte_limit |-> MaxlenBytes, block_byte_limit |-> block_byte_limit,
   maxlen |-> Omitted, block_size |-> Omitted, with_fill |-> FALSE]

BySizes(dtype, block_size, maxlen, limit, with_fill) ==
  [elem_bytes |-> ItemSize[dtype], total_byte_limit |-> limit,
   maxlen_byte_limit |-> Omitted, block_byte_limit |-> Omitted,
   maxlen |-> maxlen, block_size |-> block_size, with_fill |-> with_fill]

\* A round: what is planned and generated, and the benchmarks, each on a buffer, some
\* after asking for its focus.
Round(dtype, plan, wanted, jobs) ==
  [dtype |-> dtype, plan |-> plan, wanted |-> wanted, jobs |-> jobs]

Measured(kind, ring, buffer_type) == [kind |-> kind, ring |-> ring, buffer_type |-> buffer_type]

Twice(s) == s \o s      \* for warm_cache in (False, True)

AllButFill == Kinds \ {"fill"}

OverwriteJobs ==
  Twice(<<Measured("raw_bench", "rewinds", "other"), Measured("raw_bench", "goes_on", "other"),
          Measured("raw_bench", "none", "other"), Measured("raw_bench", "none", "other")>>)

\* raw_overwrite_buf: whole blocks, then single items.
OverwriteRounds ==
  << Round("float64", ByBytes("float64", BlockBytes, RawLimit), AllButFill, OverwriteJobs),
     Round("float64", [ByBytes("float64", Omitted, RawLimit) EXCEPT !.block_size = 1],
           AllButFill, OverwriteJobs) >>

\* raw_blocking_buf: cold and warm, with read and with read_into.
BlockingRounds ==
  << Round("float64", ByBytes("float64", BlockBytes, RawLimit), AllButFill,
           Twice(Twice(<<Measured("raw_bench_write_read", "rewinds", "other")>>))) >>

UtilJobs ==
  LET each(type) == Measured("raw_bench_with_calc", "rewinds", type)
  IN Twice(<<each("mean_square"), each("mean"), each("other")>>)

\* params_for_dtype
Fitting(maxlens, blocks) ==
  FlattenSeq(FlattenSeq([m \in DOMAIN maxlens |-> [b \in DOMAIN blocks |->
    IF blocks[b] <= maxlens[m] THEN << <<blocks[b], maxlens[m]>> >> ELSE <<>>]]))

BothDtypes(roundsOf) == roundsOf["float32"] \o roundsOf["float64"]

UtilRounds ==
  LET pairs == Fitting(UtilMaxlens, UtilBlocks)
  IN BothDtypes([dtype \in Dtype |->
       [k \in DOMAIN pairs |->
          Round(dtype, BySizes(dtype, pairs[k][1], pairs[k][2], RawLimit, TRUE),
                Kinds, UtilJobs)]])

\* max(0, available_ram - GIB_SAFETY_BUFFER)
SweepLimit ==
  IF GetAvailableRam(host) < SpareRam THEN 0 ELSE GetAvailableRam(host) - SpareRam

Largest(s) == CHOOSE x \in {s[k] : k \in DOMAIN s} : \A k \in DOMAIN s : s[k] <= x

SweepRounds(with_fill) ==
  BothDtypes([dtype \in Dtype |->
    << Round(dtype, BySizes(dtype, Largest(SweepBlocks), Largest(SweepMaxlens),
                            SweepLimit, with_fill),
             IF with_fill THEN Kinds ELSE AllButFill, <<>>) >>])

\* combo_indices of bench_raw_buf, for the two classes, and of bench_op_f, whose modes
\* and classes make no difference to what is done.
SweepTasks(program) ==
  LET each(block_size, maxlen) ==
        IF block_size > maxlen THEN <<>>
        ELSE IF program = "bench_op_f"
        THEN [c \in DOMAIN SweepCalcs |-> Combo("rewinds", block_size, maxlen, SweepCalcs[c])]
        ELSE << Combo("goes_on", block_size, maxlen, 1), Combo("rewinds", block_size, maxlen, 1) >>
  IN FlattenSeq(FlattenSeq([b \in DOMAIN SweepBlocks |-> [m \in DOMAIN SweepMaxlens |->
                              each(SweepBlocks[b], SweepMaxlens[m])]]))

Sweeps == {"bench_raw_buf", "bench_op_f"}

Rounds ==
  CASE script.program = "raw_overwrite_buf" -> OverwriteRounds
    [] script.program = "raw_blocking_buf"  -> BlockingRounds
    [] script.program = "raw_util_buffers"  -> UtilRounds
    [] script.program = "bench_raw_buf"     -> SweepRounds(FALSE)
    [] script.program = "bench_op_f"        -> SweepRounds(TRUE)
    [] script.program = "application"       -> <<>>

CurrentRound == Rounds[script.round]
CurrentJob   == CurrentRound.jobs[script.job]

Init ==
  /\ FilesInit /\ BenchInit /\ FocusInit /\ PoolInit
  /\ \E program \in Programs :
       script = [program |-> program, round |-> 1, job |-> 1, saved |-> 0,
                 failed |-> FALSE, zero |-> FALSE, plan |-> Refused,
                 at |-> IF program = "application" THEN "calling" ELSE "planning"]
  /\ answer = [op |-> "none"]
-------------------------------------------------------------------------------
\* The plan of the round, and the context of its data.  A sweep without a limit is not
\* even imported: its assertion fails.
PlanRound ==
  /\ script.at = "planning" /\ script.round <= Len(Rounds)
  /\ LET noRam == script.program \in Sweeps /\ GetAvailableRam(host) = Absent
         plan  == DetermineNumRuns(CurrentRound.plan)
     IN IF noRam \/ plan = Refused
        THEN script' = [script EXCEPT !.at = "raised"] /\ UNCHANGED fileVars
        ELSE /\ EnterData("outer", CurrentRound.dtype, plan.n_runs, plan.block_size,
                          plan.maxlen, CurrentRound.wanted)
             /\ script' = [script EXCEPT !.at = "generating", !.plan = plan, !.job = 1]
  /\ UNCHANGED <<benchVars, focus, pool, answer>>

DataMissing ==
  /\ script.at = "generating" /\ mgr["outer"].raised
  /\ script' = [script EXCEPT !.at = "raised"]
  /\ UNCHANGED <<fileVars, benchVars, focus, pool, answer>>

DataReady ==
  /\ script.at = "generating" /\ mgr["outer"].at = "open"
  /\ IF script.program \in Sweeps
     THEN /\ OpenPool(script.program, SweepTasks(script.program), script.plan.n_runs)
          /\ script' = [script EXCEPT !.at = "sweeping"]
     ELSE /\ script' = [script EXCEPT !.at = "jobs"]
          /\ UNCHANGED pool
  /\ UNCHANGED <<fileVars, benchVars, focus, answer>>

\* raw_util_buffers asks for the focus of the two classes that have one.
AsksFocus == CurrentJob.buffer_type # "other"

ArgsOfJob ==
  [buffer_type |-> CurrentJob.buffer_type, dtype |-> CurrentRound.dtype,
   buffer_maxlen |-> script.plan.maxlen, block_size |-> script.plan.block_size,
   calc_every |-> UtilCalcEvery, verbose |-> FALSE, fallback |-> "extend/append"]

\* The results are printed after each benchmark, by raw_overwrite_buf after four of them,
\* and divide by the times: one of zero raises.
ReportRaises ==
  /\ script.at = "jobs" /\ script.zero
  /\ script.program = "raw_overwrite_buf" => script.job % 4 = 1

NextJob == script.at = "jobs" /\ script.job <= Len(CurrentRound.jobs) /\ ~ReportRaises

AskFocus ==
  /\ NextJob /\ AsksFocus
  /\ \E a \in {ArgsOfJob} : CallFocus(a)
  /\ script' = [script EXCEPT !.at = "focusing"]
  /\ UNCHANGED <<pool, answer>>

RunJob ==
  /\ \/ NextJob /\ ~AsksFocus
     \/ script.at = "focusing" /\ focus.at = "returned"
  /\ StartBench("main", Job(CurrentJob.kind, CurrentJob.ring, script.plan.block_size,
                            script.plan.maxlen, script.plan.n_runs, UtilCalcEvery,
                            OwnRows("outer"), TRUE))
  /\ script' = [script EXCEPT !.at = "measuring"]
  /\ UNCHANGED <<fileVars, focus, pool, answer>>

JobEnds ==
  /\ script.at = "measuring" /\ bench.at = "returned"
  /\ script' = [script EXCEPT !.at = "jobs", !.job = @ + 1, !.zero = @ \/ bench.time = 0]
  /\ bench' = NoBench
  /\ UNCHANGED <<fileVars, gc, focus, pool, answer>>

\* An exception, or the end of the body: the context closes and removes the data.
LeaveData ==
  /\ \/ script.at = "measuring" /\ bench.at = "raised"
     \/ ReportRaises
     \/ script.at = "jobs" /\ script.job > Len(CurrentRound.jobs)
     \/ script.at = "sweeping" /\ pool.at = "ended" /\ pool.failed
     \/ script.at = "saved"
  /\ script' = [script EXCEPT !.at = "leaving",
                  !.failed = script.at \in {"measuring", "sweeping"} \/ ReportRaises]
  /\ ExitData("outer")
  /\ bench' = IF script.at = "measuring" THEN NoBench ELSE bench
  /\ UNCHANGED <<gc, focus, pool, answer>>

\* to_csv, the only place where the rows of a sweep are kept; it may raise.
SaveRows ==
  /\ script.at = "sweeping" /\ pool.at = "ended" /\ ~pool.failed
  /\ \/ script' = [script EXCEPT !.at = "saved", !.saved = @ + 1] /\ UNCHANGED pool
     \/ pool' = [pool EXCEPT !.failed = TRUE] /\ UNCHANGED script
  /\ UNCHANGED <<fileVars, benchVars, focus, answer>>

NextRound ==
  /\ script.at = "leaving" /\ mgr["outer"].at = "left"
  /\ pool' = ClosedPool
  /\ script' = [script EXCEPT !.round = @ + 1,
                              !.at = IF script.failed THEN "raised" ELSE "planning"]
  /\ UNCHANGED <<fileVars, benchVars, focus, answer>>

RoundsEnd ==
  /\ script.at = "planning" /\ script.round > Len(Rounds)
  /\ script' = [script EXCEPT !.at = "done"]
  /\ UNCHANGED <<fileVars, benchVars, focus, pool, answer>>

\* A call of an application, when the one before has returned or raised.
AppCalls ==
  /\ script.at = "calling" /\ script.job <= MaxCalls
  /\ bench.at \notin Half
  /\ focus.at \in {"idle", "returned", "raised"}
  /\ script' = [script EXCEPT !.job = @ + 1]
  /\ \/ /\ \/ \E dtype \in Dtype : SetDtype(dtype)
           \/ \E value \in EvictBytes : SetBytes(value)
           \/ ReadShape
        /\ UNCHANGED <<benchVars, focus>>
     \/ \E a \in FocusArgs : CallFocus(a)
  /\ UNCHANGED <<pool, answer>>

\* An application that benchmarks a buffer of its own does nothing else (bound).
AppBenchmarks ==
  /\ script.at = "calling" /\ script.job = 1
  /\ \E j \in AppJobs : StartBench("main", j)
  /\ script' = [script EXCEPT !.job = MaxCalls + 1]
  /\ UNCHANGED <<fileVars, focus, pool, answer>>

AppEnds ==
  /\ script.at = "calling" /\ script.job > MaxCalls
  /\ bench.at \notin Half
  /\ focus.at \in {"idle", "returned", "raised"}
  /\ script' = [script EXCEPT !.at = "done"]
  /\ UNCHANGED <<fileVars, benchVars, focus, pool, answer>>

\* An application that asks how a function decides does nothing else (bound).
Ask ==
  /\ script.at = "calling" /\ script.job = 1
  /\ answer' \in Questions
  /\ script' = [script EXCEPT !.at = "done"]
  /\ UNCHANGED <<fileVars, benchVars, focus, pool>>

ScriptStep ==
  \/ PlanRound \/ DataMissing \/ DataReady
  \/ AskFocus \/ RunJob \/ JobEnds
  \/ SaveRows \/ LeaveData \/ NextRound \/ RoundsEnd
  \/ AppCalls \/ AppBenchmarks \/ AppEnds \/ Ask

\* The process the benchmark runs in goes on with it.
BenchGoesOn(p) == bench.by = p /\ BenchStep /\ UNCHANGED <<fileVars, focus, pool, scriptVars>>

MainStep ==
  \/ ScriptStep
  \/ FilesStep /\ UNCHANGED <<benchVars, focus, pool, scriptVars>>
  \/ FocusStep /\ UNCHANGED <<pool, scriptVars>>
  \/ PoolStep /\ UNCHANGED scriptVars
  \/ BenchGoesOn("main")

WorkersStep ==
  \/ WorkerStep /\ UNCHANGED scriptVars
  \/ BenchGoesOn("worker")

\* What may go wrong at any moment, and need not.
Failure ==
  \/ \E l \in Level : CreateRaises(l) /\ UNCHANGED <<benchVars, focus, pool, scriptVars>>
  \/ RaiseInBench /\ UNCHANGED <<fileVars, focus, pool, scriptVars>>
  \/ BodyRaises /\ UNCHANGED scriptVars
  \/ WorkerDies /\ UNCHANGED scriptVars

Next == MainStep \/ WorkersStep \/ Failure

Spec == Init /\ [][Next]_vars

\* Both processes go on as long as they can; nothing has to fail.
FairSpec == Spec /\ WF_vars(MainStep) /\ WF_vars(WorkersStep)
===============================================================================

---------------------------- MODULE BenchProperties ----------------------------
(***************************************************************************)
(* What the benchmark tools promise to those who read their results, and   *)
(* to the machine they run on.                                             *)
(***************************************************************************)
EXTENDS BenchScripts

\* Type invariant: an open context has mapped what it was asked for, a benchmark is never
\* further than its rows, and what was collected had finished.
BenchTypeOK ==
  /\ \A l \in Level :
       /\ mgr[l].at \in {"closed", "generating", "open", "removing", "left"}
       /\ mgr[l].next \in DOMAIN FileKind
       /\ mgr[l].at = "open" => mgr[l].open = mgr[l].wanted
  /\ bench.at \in Half \cup {"idle", "returned", "raised"} /\ bench.by \in Process
  /\ bench.at \in Half => bench.i \in 0 .. HalfRows(bench.job, bench.at)
  /\ gc \in [Process -> BOOLEAN]
  /\ focus.result \in Focus \cup {"none"}
  /\ pool.completed \subseteq Finished /\ pool.running \in Futures \cup {0}
-------------------------------------------------------------------------------
\* bench_utils.py, temporary_benchmark_data: "ensures all memmap files are closed and
\* deleted from the filesystem upon exit; However if the files could not be deleted
\* [...] it will log": a file that is still there was not to be removed, however the
\* body ended and whichever other file failed.
FilesRemoved ==
  \A l \in Level : mgr[l].at = "left" /\ ~mgr[l].raised =>
    \A k \in Kinds : disk[l][k] # NoFile => k \in mgr[l].kept

\* The first half of that sentence by itself: whatever was created is deleted on exit, if
\* it can be deleted, also when not everything could be created.
NothingLeftBehind ==
  \A l \in Level : mgr[l].at = "left" =>
    \A k \in Kinds : disk[l][k] # NoFile => k \in mgr[l].kept

\* The context whose data a benchmark of this process or of a worker reads.
DataLevel == IF focus.at \in Focus THEN "inner" ELSE "outer"

\* Data is never closed or deleted under a benchmark that reads it, nor under a task
\* that is still to map it in the worker.
UsedDataStaysOpen ==
  /\ bench.at \in Half /\ script.program # "application" => mgr[DataLevel].at = "open"
  /\ Futures # Finished => mgr["outer"].at = "open"

ItemsOnDisk(l) ==
  LET items(k) == disk[l][k][1] * disk[l][k][2]
  IN items("data") + items("warmup") + items("offset") + items("fill")

PlanOf(l) == IF l = "inner" THEN FocusPlan(focus.args) ELSE CurrentRound.plan

\* bench_utils.py, determine_num_runs: "ensuring that the total memory footprint of
\* generated datasets [...] stays within the specified byte limit": the files that are
\* really made, and the buffer, take no more.  (Blocks of one item are left out: their
\* offset rows are longer than planned.)
FootprintFits ==
  \A l \in Level : mgr[l].at = "open" =>
    LET plan == PlanOf(l)
        s    == Sizes(plan)
    IN s.block_size > 1 => (ItemsOnDisk(l) + s.maxlen) * plan.elem_bytes <= plan.total_byte_limit

\* determine_num_runs: for every limit and sizes a call is refused only when a run that
\* wraps and one that does not do not both fit, an answer fits, and it leaves less than a
\* run that wraps takes.  ("The number of benchmark iterations possible" it is not: one
\* more run that does not wrap may fit.)
PlanLeavesLessThanARun ==
  answer.op = "determine_num_runs" => LeavesLessThanARun(answer.args)

\* generate_rand_memmap_arr: "calculates safe bounds to prevent overflow after applying
\* multiply_by and subtract": for every factor and offset of the type no value leaves it,
\* and one that could have been drawn without leaving it is not lost.
ValuesInRange ==
  answer.op = "generate_rand_memmap_arr" => KeepsRange(answer.info, answer.mul, answer.sub)

\* EvictArrConfig: "This value is cached and automatically invalidated": after any mix of
\* set_dtype, set_bytes and reads the array generated is as large as configured, to the
\* item, and never empty.
EvictArrayFillsCache ==
  \A l \in Level : mgr[l].at = "open" =>
    LET size == disk[l]["evict"][2] * disk[l]["evict"][3]
    IN size > 0 /\ size <= evict.bytes /\ evict.bytes < size + disk[l]["evict"][3]
-------------------------------------------------------------------------------
\* A write of less than the capacity into cells.
Splits(j) == j.ring # "none" /\ j.block_size > 1 /\ j.block_size < j.maxlen

\* raw_bench, "Data used to force writes into a wrap-around state": every run counted as
\* wrapping wraps, when the data was generated for the sizes it is used with.
OwnDataWraps ==
  bench.at # "idle" /\ bench.job.own /\ Splits(bench.job) => bench.wrapped = bench.timed["wrap"]

\* The same, for whatever data a program of the repository uses.
WrapRunsWrap == Splits(bench.job) => bench.wrapped = bench.timed["wrap"]

\* np.empty leaves the times what they were: each one that enters the mean was measured,
\* whatever rows the caller passes.
TimesAreMeasured ==
  bench.at = "returned" =>
    \A h \in Half :
      LET n == HalfLen(bench.job.n_runs, h)
      IN TrimmedTimes(n) \subseteq bench.timed[h] /\ bench.timed[h] \subseteq 0 .. n - 1

\* raw_bench_with_calc, "includes a calculation callback every N steps": of any N runs of
\* a half that follow each other exactly one is measured with the calculation.
CalcsEvenly ==
  bench.at = "returned" /\ bench.job.kind = "raw_bench_with_calc" =>
    \A h \in Half :
      LET n == HalfLen(bench.job.n_runs, h)
          c == bench.job.calc_every
      IN \A first \in 0 .. n - c :
           Cardinality(bench.calcs[h] \cap (first .. first + c - 1)) = 1

\* no_gc, "automatically re-enabled when exiting the context": a process without a
\* collector is in a benchmark, however the last one ended.
CollectorBackOn == \A p \in Process : ~gc[p] => bench.by = p /\ bench.at \in Half

\* determine_operation_focus, "The operation_focus that yielded the lowest total execution
\* time", or the fallback "if the benchmark fails or cannot run within memory limits":
\* one of the two in every case, whatever was measured before something failed.
FocusAnswers ==
  focus.at = "returned" =>
    IF focus.failed \/ focus.n_runs < focus.args.calc_every
    THEN focus.result = focus.args.fallback
    ELSE \A f \in Focus :
           /\ focus.times[f] # Absent
           /\ focus.times[focus.result] <= focus.times[f]

\* The table of a sweep: when the executor has closed there is one row for each task that
\* came to a result, none for another, and it names the parameters the task ran with,
\* although both loops share their variables.
RowsTellTheirTask ==
  pool.at = "ended" =>
    /\ Len(pool.rows) = Cardinality({r.task : r \in {pool.rows[i] : i \in DOMAIN pool.rows}})
    /\ ~pool.failed =>
         {k \in Futures : pool.state[k] = "done"} = {pool.rows[i].task : i \in DOMAIN pool.rows}
    /\ \A i \in DOMAIN pool.rows :
         pool.rows[i].label = Task(pool.todo[pool.rows[i].task], script.plan.n_runs)

\* Every program comes to its end: no benchmark waits for room that nobody makes, no
\* executor for a future that nobody finishes, also when the worker dies.
ProgramEnds == <>(script.at \in {"done", "raised"})
===============================================================================

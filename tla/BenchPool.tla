------------------------------- MODULE BenchPool -------------------------------
(***************************************************************************)
(* The sweeps bench_raw_buf.py and bench_op_f.py: one benchmark for each   *)
(* combination of the parameters, in the process of a ProcessPoolExecutor  *)
(* with one worker, on data generated once for the largest parameters.     *)
(* The main process submits all tasks, collects the results that are there *)
(* after each submission, and then the remaining ones as they complete.    *)
(***************************************************************************)
EXTENDS OperationFocus

VARIABLE pool

Combo(version, block_size, maxlen, calc_every) ==
  [version |-> version, block_size |-> block_size, maxlen |-> maxlen, calc_every |-> calc_every]

\* What a task is submitted with.
Task(combo, n_runs) ==
  [version |-> combo.version, block_size |-> combo.block_size, maxlen |-> combo.maxlen,
   calc_every |-> combo.calc_every, n_runs |-> n_runs]

NoTask == Task(Combo("rewinds", 0, 0, 0), 0)

\* todo: the combinations; noted: futures[fut]; state[k] of future k; running: the task
\* in the worker, or 0; scan: the next future to ask, found: the answers; completed:
\* completed_futures; locals: the variables that both loops of main share.
ClosedPool ==
  [at |-> "closed", program |-> "none", todo |-> <<>>, noted |-> <<>>, state |-> <<>>,
   running |-> 0, dead |-> FALSE, broken |-> FALSE, scan |-> 1, found |-> {},
   completed |-> {}, locals |-> NoTask, rows |-> <<>>, failed |-> FALSE]

PoolInit == pool = ClosedPool

\* The executor is created inside the context of the data.
OpenPool(program, todo, n_runs) ==
  pool' = [ClosedPool EXCEPT !.at = "submitting", !.program = program, !.todo = todo,
                             !.locals.n_runs = n_runs]

Futures  == DOMAIN pool.noted
Finished == {k \in Futures : pool.state[k] \in {"done", "failed"}}

Others == <<fileVars, benchVars, focus>>

\* bench_op_f only asks when idx % 100 is not zero.
Drains(idx) == pool.program = "bench_op_f" => idx % 100 # 0

\* The loop variables are those of the combination, but for n_runs.
Submit ==
  /\ pool.at = "submitting" /\ Len(pool.noted) < Len(pool.todo) /\ ~pool.broken
  /\ LET k   == Len(pool.noted) + 1
         new == Task(pool.todo[k], pool.locals.n_runs)
     IN pool' = [pool EXCEPT !.locals = new, !.noted = Append(@, new),
                             !.state = Append(@, "pending"),
                             !.at = IF Drains(k - 1) THEN "asking" ELSE @,
                             !.scan = 1, !.found = {}]
  /\ UNCHANGED Others

\* submit raises BrokenProcessPool.
SubmitRaises ==
  /\ pool.at = "submitting" /\ Len(pool.noted) < Len(pool.todo) /\ pool.broken
  /\ pool' = [pool EXCEPT !.at = "shutting_down", !.failed = TRUE]
  /\ UNCHANGED Others

\* f.done() for one future after the other, while the worker goes on.
AskFuture ==
  /\ pool.at = "asking" /\ pool.scan \in Futures
  /\ pool' = [pool EXCEPT !.scan = @ + 1,
       !.found = IF pool.scan \in Finished \ pool.completed THEN @ \cup {pool.scan} ELSE @]
  /\ UNCHANGED Others

\* The loop variables become those of future k; its result makes a row.
Collected(p, k) ==
  [p EXCEPT !.completed = @ \cup {k},
            !.locals = p.noted[k],
            !.rows = IF p.state[k] = "done"
                     THEN Append(@, [label |-> p.noted[k], task |-> k]) ELSE @]

\* Faulty variant: the row is made of what the loop variables happen to be.
CollectFound_StaleLabel ==
  /\ pool.at = "asking" /\ pool.scan \notin Futures
  /\ pool' = IF pool.found = {} THEN [pool EXCEPT !.at = "submitting"]
             ELSE LET k == CHOOSE k \in pool.found : \A j \in pool.found : k <= j
                  IN [Collected(pool, k) EXCEPT !.found = @ \ {k},
                        !.rows = IF pool.state[k] = "done"
                                 THEN Append(pool.rows, [label |-> pool.locals, task |-> k])
                                 ELSE @]
  /\ UNCHANGED Others

\* done_futures, in the order of submission.
CollectFound ==
  /\ pool.at = "asking" /\ pool.scan \notin Futures
  /\ pool' = IF pool.found = {} THEN [pool EXCEPT !.at = "submitting"]
             ELSE LET k == CHOOSE k \in pool.found : \A j \in pool.found : k <= j
                  IN [Collected(pool, k) EXCEPT !.found = @ \ {k}]
  /\ UNCHANGED Others

AllSubmitted ==
  /\ pool.at = "submitting" /\ Len(pool.noted) = Len(pool.todo)
  /\ pool' = [pool EXCEPT !.at = "collecting"]
  /\ UNCHANGED Others

\* as_completed(remaining)
CollectRemaining ==
  /\ pool.at = "collecting"
  /\ \E k \in Finished \ pool.completed : pool' = Collected(pool, k)
  /\ UNCHANGED Others

AllCollected ==
  /\ pool.at = "collecting" /\ pool.completed = Futures
  /\ pool' = [pool EXCEPT !.at = "shutting_down"]
  /\ UNCHANGED Others

\* A log entry that cannot be written: one about a future that failed, or one of those
\* between and after the loops.
BodyRaises ==
  /\ \/ pool.at = "asking" /\ pool.scan \notin Futures
        /\ \E k \in pool.found : pool.state[k] = "failed"
     \/ pool.at = "submitting" /\ Len(pool.noted) = Len(pool.todo)
     \/ pool.at = "collecting" /\ pool.completed = Futures
     \/ pool.at = "collecting" /\ \E k \in Finished \ pool.completed : pool.state[k] = "failed"
  /\ pool' = [pool EXCEPT !.at = "shutting_down", !.failed = TRUE]
  /\ UNCHANGED Others

\* Faulty variant: shutdown(wait=False).
ShutDown_NoWait ==
  /\ pool.at = "shutting_down"
  /\ pool' = [pool EXCEPT !.at = "ended"]
  /\ UNCHANGED Others

\* __exit__ of the executor waits for what is still pending or running.
ShutDown ==
  /\ pool.at = "shutting_down" /\ Finished = Futures
  /\ pool' = [pool EXCEPT !.at = "ended"]
  /\ UNCHANGED Others

PoolStep ==
  \/ Submit \/ SubmitRaises \/ AskFuture \/ CollectFound \/ AllSubmitted
  \/ CollectRemaining \/ AllCollected \/ ShutDown
-------------------------------------------------------------------------------
AtMost(x, y) == IF x < y THEN x ELSE y

\* prepare_blocks in the worker: the files as they are, cut to what the task needs.  A
\* slice never fails; it is shorter where the file is.
PreparedRows(t) ==
  LET s == mgr["outer"].shapes
      offset == AtMost(s.offset[2], t.maxlen - (t.block_size \div 2))
  IN Rows(AtMost(s.data[1], t.n_runs), AtMost(s.fill[1], t.n_runs),
          AtMost(s.offset[1], t.n_runs \div 2), offset)

PreparedJob(t) ==
  Job(IF pool.program = "bench_op_f" THEN "raw_bench_with_calc" ELSE "raw_bench",
      t.version, t.block_size, t.maxlen, t.n_runs, t.calc_every, PreparedRows(t), FALSE)

\* A map is as large as the file at least: that of the eviction array, too, although the
\* worker has an EvictArrConfig of its own.
Mappable ==
  LET e == EvictFile(ReadConfig(FreshConfig))
      f == disk["outer"]["evict"]
  IN /\ \A k \in mgr["outer"].wanted : disk["outer"][k] # NoFile
     /\ e[2] * e[3] <= f[2] * f[3]

\* The worker takes the tasks in the order they were submitted.
TakeTask ==
  /\ pool.running = 0 /\ ~pool.dead
  /\ \E k \in Futures :
       /\ pool.state[k] = "pending"
       /\ \A j \in 1 .. k - 1 : pool.state[j] # "pending"
       /\ IF Mappable
          THEN /\ StartBench("worker", PreparedJob(pool.noted[k]))
               /\ pool' = [pool EXCEPT !.running = k, !.state[k] = "running"]
          ELSE /\ pool' = [pool EXCEPT !.state[k] = "failed"]
               /\ UNCHANGED benchVars
  /\ UNCHANGED <<fileVars, focus>>

TaskEnds ==
  /\ pool.running # 0 /\ ~pool.dead /\ BenchEnded("worker")
  /\ pool' = [pool EXCEPT !.running = 0,
       !.state[pool.running] = IF bench.at = "returned" THEN "done" ELSE "failed"]
  /\ bench' = NoBench
  /\ UNCHANGED <<fileVars, gc, focus>>

\* The worker is killed, with its benchmark and its collector.
WorkerDies ==
  /\ pool.running # 0 /\ ~pool.dead
  /\ pool' = [pool EXCEPT !.dead = TRUE]
  /\ bench' = NoBench /\ gc' = [gc EXCEPT !["worker"] = TRUE]
  /\ UNCHANGED <<fileVars, focus>>

\* The executor notices: every future that is not finished gets BrokenProcessPool.
PoolBreaks ==
  /\ pool.dead /\ ~pool.broken
  /\ pool' = [pool EXCEPT !.broken = TRUE, !.running = 0,
       !.state = [k \in Futures |-> IF k \in Finished THEN pool.state[k] ELSE "failed"]]
  /\ UNCHANGED Others

WorkerStep == TakeTask \/ TaskEnds \/ PoolBreaks
===============================================================================

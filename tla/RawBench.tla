-------------------------------- MODULE RawBench --------------------------------
(***************************************************************************)
(* raw_bench, raw_bench_with_calc and raw_bench_write_read of              *)
(* bench_utils.py: one half of the runs writes into a buffer whose head    *)
(* was moved by an offset row, so that the write wraps, the other half     *)
(* into a cleared one.  One process measures at a time, the main one or a  *)
(* worker; each has a garbage collector.  The time of a run is not         *)
(* modelled, only which runs have one.                                     *)
(***************************************************************************)
EXTENDS BenchFiles

CONSTANT Times         \* the results a benchmark may come to

ASSUME TimesAssumption == Times \subseteq Nat

VARIABLES
  bench,      \* the benchmark in progress, or the last one
  gc          \* gc[p]: the collector of process p is enabled

benchVars == <<bench, gc>>

Process == {"main", "worker"}

\* ring: how the buffer takes a block of its capacity: "rewinds" to cell 0
\* (OverwriteCircBuffer, BlockingCircBuffer) or "goes_on" (RefPythonNumPyCircBuffer),
\* "none" for deque and list.  own: the data was generated for these very sizes.
Job(kind, ring, block_size, maxlen, n_runs, calc_every, rows, own) ==
  [kind |-> kind, ring |-> ring, block_size |-> block_size, maxlen |-> maxlen,
   n_runs |-> n_runs, calc_every |-> calc_every, rows |-> rows, own |-> own]

\* The rows that arrive with a job: of blocks, of fill, and the offset rows with
\* their length.
Rows(blocks, fill, offset, length) ==
  [blocks |-> blocks, fill |-> fill, offset |-> offset, length |-> length]

NoJob == Job("raw_bench", "none", 1, 3, 2, 1, Rows(2, 2, 1, 3), FALSE)

Half == {"wrap", "nowrap"}

\* No benchmark: the locals of the last one went with its caller.
NoBench ==
  [at |-> "idle", by |-> "main", job |-> NoJob, i |-> 0,
   timed |-> [h \in Half |-> {}], calcs |-> [h \in Half |-> {}], wrapped |-> {}, time |-> 0]

BenchInit ==
  /\ bench = NoBench
  /\ gc = [p \in Process |-> TRUE]

WrapRuns(n_runs) == n_runs \div 2

HalfLen(n_runs, h) == IF h = "wrap" THEN WrapRuns(n_runs) ELSE n_runs - WrapRuns(n_runs)

\* blocks[:n_wrap_runs] and blocks[n_wrap_runs:]
HalfRows(j, h) ==
  LET first == IF j.rows.blocks < WrapRuns(j.n_runs) THEN j.rows.blocks
               ELSE WrapRuns(j.n_runs)
  IN IF h = "wrap" THEN first ELSE j.rows.blocks - first

\* Faulty variant: the number of blocks is not compared.
RowsMatch_AnyBlocks(j) ==
  /\ j.kind = "raw_bench_with_calc" => j.rows.fill = j.n_runs
  /\ j.rows.offset = WrapRuns(j.n_runs)

BenchKinds == {"raw_bench", "raw_bench_with_calc", "raw_bench_write_read"}
Rings      == {"rewinds", "goes_on", "none"}

\* What a benchmark may be called with.  Data generated for these very sizes has offset
\* rows of the length that Shapes gives them.
JobArgs ==
  {j \in [kind : BenchKinds, ring : Rings, block_size : Int, maxlen : Int, n_runs : Int,
          calc_every : Nat \ {0}, own : BOOLEAN,
          rows : [blocks : Nat, fill : Nat, offset : Nat, length : Int]] :
     j.own => j.rows.length = j.maxlen - (j.block_size \div 2)}

\* The checks that raise NumCircBufValueError before anything is measured.
RowsMatch(j) ==
  /\ j.rows.blocks = j.n_runs
  /\ j.kind = "raw_bench_with_calc" => j.rows.fill = j.n_runs
  /\ j.rows.offset = WrapRuns(j.n_runs)

\* Process p calls the benchmark: high priority, no collector, warm-up.
StartBench(p, j) ==
  /\ bench.at \in {"idle", "returned", "raised"}
  /\ bench' = [NoBench EXCEPT !.at = IF RowsMatch(j) THEN "wrap" ELSE "raised",
                              !.by = p, !.job = j]
  /\ gc' = IF RowsMatch(j) THEN [gc EXCEPT ![p] = FALSE] ELSE gc

\* The head and the number of items after a block of n.  RefPythonNumPyCircBuffer counts
\* a block only when there is room for all of it.
Extended(j, r, n) ==
  [head |-> IF n >= j.maxlen /\ j.ring = "rewinds" THEN 0 ELSE (r.head + n) % j.maxlen,
   size |-> IF r.size + n <= j.maxlen THEN r.size + n
            ELSE IF j.ring = "goes_on" THEN r.size ELSE j.maxlen]

Cleared == [head |-> 0, size |-> 0]

\* read() takes everything that is there.
Drained(r) == [r EXCEPT !.size = 0]

\* Faulty variant: nothing reads the offset row out of the buffer.
BeforeBlock_Unread(j, h) ==
  LET filled == IF j.kind = "raw_bench_with_calc" THEN Extended(j, Cleared, j.maxlen)
                ELSE Cleared
  IN IF h = "nowrap" THEN filled ELSE Extended(j, filled, j.rows.length)

\* The buffer when the block of a run comes: cleared, filled, offset, read.
BeforeBlock(j, h) ==
  LET filled == IF j.kind = "raw_bench_with_calc" THEN Extended(j, Cleared, j.maxlen)
                ELSE Cleared
      offset == Extended(j, filled, j.rows.length)
  IN IF h = "nowrap" THEN filled
     ELSE IF j.kind = "raw_bench_write_read" THEN Drained(offset) ELSE offset

\* BlockingCircBuffer waits for room, and nobody else is there to make it.
HasRoom(j, r) ==
  j.kind = "raw_bench_write_read" =>
    IF j.block_size >= j.maxlen THEN r.size = 0 ELSE r.size + j.block_size <= j.maxlen

\* The write comes to the end of the cells: it goes on at cell 0, or leaves the head there.
Wraps(j, r) ==
  /\ j.block_size < j.maxlen \/ j.ring = "goes_on"
  /\ r.head + j.block_size >= j.maxlen
  /\ r.head + j.block_size > j.maxlen \/ j.block_size = 1

\* One run: prepare the buffer, touch the block, write it (and read, or calculate).
RunBlock ==
  /\ bench.at \in Half
  /\ LET h == bench.at
         j == bench.job
         r == BeforeBlock(j, h)
     IN /\ bench.i < HalfRows(j, h)
        /\ HasRoom(j, r)
        /\ bench' = [bench EXCEPT
             !.i = @ + 1,
             !.timed[h] = @ \cup {bench.i},
             !.calcs[h] = IF /\ j.kind = "raw_bench_with_calc"
                             /\ bench.i \in CalcMask(HalfLen(j.n_runs, h), j.calc_every)
                          THEN @ \cup {bench.i} ELSE @,
             !.wrapped = IF h = "wrap" /\ Wraps(j, r) THEN @ \cup {bench.i} ELSE @]
  /\ UNCHANGED gc

NextHalf ==
  /\ bench.at = "wrap" /\ bench.i = HalfRows(bench.job, "wrap")
  /\ bench' = [bench EXCEPT !.at = "nowrap", !.i = 0]
  /\ UNCHANGED gc

\* no_gc ends; the result is the mean of the two trimmed means.
FinishBench ==
  /\ bench.at = "nowrap" /\ bench.i = HalfRows(bench.job, "nowrap")
  /\ \E time \in Times : bench' = [bench EXCEPT !.at = "returned", !.time = time]
  /\ gc' = [gc EXCEPT ![bench.by] = TRUE]

\* Faulty variant: the collector is enabled at the end only.
RaiseInBench_NoFinally ==
  /\ bench.at \in Half
  /\ bench' = [bench EXCEPT !.at = "raised"]
  /\ UNCHANGED gc

\* The buffer, the calculation or the memory fails: no_gc has a finally.
RaiseInBench ==
  /\ bench.at \in Half
  /\ bench' = [bench EXCEPT !.at = "raised"]
  /\ gc' = [gc EXCEPT ![bench.by] = TRUE]

BenchStep == RunBlock \/ NextHalf \/ FinishBench

BenchEnded(p) == bench.by = p /\ bench.at \in {"returned", "raised"}
===============================================================================

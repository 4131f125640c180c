# NumCircBuf in TLA+

A verification project for NumCircBuf, a Python package of circular buffers written in
Cython (`src/numcircbuf/core.pyx.in`, a template expanded per dtype) on a few C++ kernels
(`src/numcircbuf/kernels.hpp`). It holds TLA+ modules translated from that code, TLC
configurations that check them on small instances, and TLAPS proofs that carry the most
important properties to every capacity, number of threads and ticket width.

## 1. The system

| Component | Source | State | Operations | Depends on |
|---|---|---|---|---|
| Kernels | `kernels.hpp` | none | head arithmetic, two-part copies, overwriting appends | - |
| `BlockingCircBuffer` | `core.pyx.in` 594-1045 | cells, `read_head`, `write_head`, `size`; two `QueueState`s (ticket counter, turn, abandoned tickets); one lock, two conditions | `write_append`, `write_extend`, `read`, `read_into`, `clear`, `clear_nans`, `clear_infs`, `view`, `len` | kernels, view |
| `_InternalCircView` | `core.pyx.in` 319-510 | none of its own: reads the buffer's `size` and `write_head` without a lock | `len`, index, slice, iterate, `to_numpy` | kernels |
| `OverwriteCircBuffer` | `core.pyx.in` 1047-1674 | cells, `write_head`, `size`, a policy (never, always, conditional) | `append`, `extend`, `clear`, `clear_nans`, `clear_infs`, `view`, sums | kernels, view |
| `RunningMeanBuffer`, `RunningMeanSqBuffer` | `core.pyx.in` 1676-2315 | an overwriting ring, an accumulator, whether it is sound (`accum_valid`), the operations since it was recalculated, a cached mean | `append`, `extend`, `mean` or `mean_square`, `clear`, `clear_cache`, `recalculate`, `clear_nans`, `clear_infs` | overwriting ring |
| `IntegratedGatedBuffer` | `core.pyx.in` 2318-2659 | an overwriting ring of squares, a gated sum and count, a cached mean | `append`, `extend`, `gated_mean_square`, the rest as above | overwriting ring |
| Reference buffer | `bench_utils.py` 1559-1728 | cells, head and size of its own | `append`, `extend_unchecked`, `clear` | - |
| Benchmark tools | `bench_utils.py` | temporary files on disk and the maps of them, the eviction array's configuration, the garbage collector's switch, a running benchmark | `determine_num_runs`, `generate_rand_memmap_arr`, `temporary_benchmark_data`, `raw_bench`, `raw_bench_with_calc`, `raw_bench_write_read` | system information, buffers |
| Operation focus | `utils.py` | none between calls | `determine_operation_focus`: measure both focuses, answer with the faster or with the fallback | benchmark tools, system information |
| System information | `system_info.py` | none | level 3 cache, available memory | the host |
| Performance reports | `src/perf/` | rounds of a script; a process pool with one worker, its tasks, futures and rows | five scripts: three raw, two sweeps | benchmark tools, operation focus |
| Exceptions, protocols, constants, build | the rest | none | - | - |

The buffers interact with their callers by calls only, with one exception: the threads
that share a `BlockingCircBuffer` interact through its lock, its two conditions and its
ticket queues, and a view reads a buffer that another thread may be changing. The
benchmark programs interact through files: the main process creates them, a benchmark (in
the main process or in the worker of an executor) maps them, the main process removes them.

### What is hard

`BlockingCircBuffer` is where the concurrency is. A caller draws a ticket with an atomic
increment *before* it takes the lock; then it waits until its ticket is served *and* the
buffer has room (or items) for the whole call. A call that times out either hands its
turn on or leaves its ticket among the abandoned ones, which later turns skip. Every
change of the buffer must notify exactly the waiters it may let through. The counters are
32-bit and wrap. A call may raise between drawing its ticket and advancing the turn. Each
operation updates the heads and the size in its own way, and the unlocked view
reconstructs the read position from the other two.

The other buffers belong to one thread. Their difficulty is numeric and historical: the
boundaries of blocks against the capacity, slices whose two pieces must meet across the
wrap, an iteration that lives through writes, and an accumulator that NaN, infinity,
overflow and rounding spoil in ways that no later subtraction repairs.

The benchmark programs are hard where they fail: five files of which any may not be
created, mapped or removed; an exception inside a measurement that runs with the collector
off; a worker that is killed with tasks queued; two loops that collect results into the
same variables. Their arithmetic (how many runs fit, which values are safe, which run is
followed by a calculation) decides silently what the published numbers mean.

The hazards are listed at their lines in `PROJECT.json`, each with the properties that
would catch it, or with the reason why none can.

## 2. Plan

Done, in this order: the kernels; `BlockingCircBuffer` and its ticket queues, refining
`BoundedFifo`; the overwriting ring and `OverwriteCircBuffer`, refining `SlidingWindow`;
the view; the statistics; the reference buffer; planning, files, measurements, focus,
process pool and scripts of the benchmarks; and the proofs of section 5.

Left: the loop of `_remove_{target}` against `KeptOrder`; a block that shares the memory of
the buffer it is written to.

## 3. Modules

Names in the specifications are those of the source. An operator named
`Definition_Something` is a faulty variant of `Definition`, one plausible mistake.
`PROJECT.json` ("mutants") says which property each of them breaks, and "map" which lines
each definition stands for.

### The buffers

`CircKernel` translates the index arithmetic and the two copies. A buffer is a function
from `0 .. MaxLen-1` to items, a block a sequence.

`BufferCalls` is the vocabulary of calls and results shared by the concrete and the
abstract buffer.

`BlockingCircBuffer` is the buffer. The lock is released only inside `Condition.wait`, so
everything a thread does between taking and releasing it is one action; between two
actions of a thread all others may act. Drawing the ticket is outside the lock and an
action of its own.

| Code | Specification |
|---|---|
| `buffer_ptr`, `read_head`, `write_head`, `size` | variables of the same names (`buf` for the cells) |
| `write_queue`, `read_queue` | `ticket_counter`, `now_serving`, `abandoned`, functions over `{"write", "read"}` |
| program counter and locals of a caller | `pc`, `call`, `ticket` |
| the waiters of `not_full`, `not_empty` | the threads with `pc = "waiting"`, by the queue of their call |
| `fetch_add` on the counter | `DrawTicket` |
| loop condition holds, `wait` | `Wait`; `TimeOut` when it ends by itself |
| `write_append` with its turn | `WriteAppend`, or `RaiseInCall` when the value does not convert |
| `write_extend_unchecked_c` | `WriteExtendWhole` (n >= maxlen), `WriteExtendPart`, `ReturnEmpty` (n = 0), `RaiseInCall` (the size warning is an error) |
| `read_c`, `read_into_unchecked_c` | `ReadItems`, `ReturnEmpty` |
| after a time-out | `GiveUpTurn` (the turn is the caller's) or `AbandonTicket` |
| `clear_c`, `clear_{nans,infs}_c` | `ClearBuffer`, `RemoveItems` |
| advance, skip, `notify_all` | `ServeNext` = `AdvanceTicket` and `LeaveNotifying` |

`write_extend` of an empty block returns False at once, the value documented for a
time-out; the model follows the code (`ReturnEmpty`).

Time is abstracted: a wait with a timeout may end at any moment before a notification.
The read variants differ only in where the items go, so they are one action. Items are
model values; the item type, its conversion and the array handling are left out, except
that a conversion may raise (`BadValue`).

`BoundedFifo` says what the buffer promises without locks, tickets, heads or cells.
`BlockingRefinement` maps one to the other: the content is what lies between the heads,
the order of arrival is the order of the tickets' distances from the turn.

`Filtering` says what `clear_nans` and `clear_infs` keep. `OverwriteRing` is the part that
all overwriting buffers share (`Push`, `PushWhole`, `PushPart`, `Reset`, `Filter`): there
is no `read_head`, the oldest item is where `GetStartPos` says. `OverwriteCircBuffer` extends
it, and so does `UtilityBuffer`, the common base of the classes with statistics (the flag, the
operation count, the cached mean), which `RunningStats` and `GatedStats` extend in turn:

| Code | Specification |
|---|---|
| `OverwriteCircBuffer.append`, three kernels and a policy | `OverwriteCircBuffer!AppendValue` |
| `extend`: n = 0, n >= maxlen, else | `ExtendEmpty`, `ExtendWhole`, `ExtendPart` |
| what the call returns | `returned` |
| `RunningMean[Sq]Buffer.append`, `extend` | `RunningStats!Append1`, `ExtendWhole`, `ExtendPart`, `ExtendRaises` |
| the accumulator's update in both | `Adjust`; a fresh sum: `Recalculated` |
| `mean`, `mean_square` | `GetMean`, with `ShouldRecalc` |
| `IntegratedGatedBuffer.append`, `extend` | `GatedStats!GatedAppend`, `GatedExtendWhole`, `GatedExtendPart`, `GatedExtendRaises` |
| `np.dot` with a mask, its `count_nonzero` | `GatedTotal`, a sum in which what does not pass is zero; `CountPassing` |
| `sum_and_count_gt`; its use for the absolute gate | `SumAndCount`; `GatedRecalculated` |
| `gated_mean_square` | `GetGatedMean`, with `GatedShouldRecalc` and `FinalMean` |
| `_cached_mean[_sq] = NAN` | `cached = NoMean` |

`SlidingWindow` is the promise of `OverwriteCircBuffer`: the last `Capacity` items. `LiveView`
puts a view beside an `OverwriteCircBuffer`: `GetSlice` and `GetIndex` compute the cells of a
result the way `__getitem__` does, and the reference is Python's own slicing of the sequence of
items (`Selected`). Its sums are those of `Py_ssize_t`, from `-MaxSsize - 1` to `MaxSsize`, and
its quotients those of C (`cdivision`): `Ssize` and `CDiv`. Where a sum does not fit the C code
is undefined; the model wraps, and no property looks at a slice whose step does not leave room
for the arithmetic (`StepFits`). A generator reads `size` and the start position at its first
`next()` (`IterOpen`) and one cell at each further one (`IterNext`), with the owner's writes
between them.

`ExtendedReals` stands for floats: integers that overflow to infinity beyond `MaxFinite`,
with NaN and the infinities under IEEE 754's rules. Rounding is left out of single sums
and modelled where it accumulates, as `Drift` that each write may add to the accumulator.
`class` chooses between the two running means, whose code differs only in the term of an item
and in the sign test of `mean_square`. A mean is kept as a sum and a count. The sign
test lets an accumulator pass that is below zero by no more than `AbsTol` (`ABS_TOL`, in the same
unit as `Drift`), so a mean square that is returned may be slightly negative, as in the code.

`Statistics` puts the three classes on the variables of their common base, one class in each
behaviour; `MCStatistics` runs it. Its assumption `RoomAssumption` says that the items and
blocks are far enough from overflow that no sum of a window and a block, of terms or of
squares, leaves the range of finite numbers; NaN and infinity may be among them. Without it
the code does not keep its promise, as the run `overflow` of `RunningStats` alone shows.

`ReferenceBuffer` puts `RefPythonNumPyCircBuffer`, the baseline of the measurements, beside
an `OverwriteCircBuffer` and gives both the same calls.

### The benchmarks

| Module | Models |
|---|---|
| `SystemInfo` | the fallbacks from one source of a size to the next; `Host` is what the machine says |
| `BenchPlan` | pure: `determine_num_runs`, the shapes of the files, the bounds of random integers, the mask of the calculations, the times that enter the mean |
| `BenchFiles` | `EvictArrConfig` with its cached item size; `temporary_benchmark_data`, one file at a time, creation and removal each of which may fail |
| `RawBench` | the three raw benchmarks, run by run, the rewinds, reads and clears between them, and the collector switched off around them |
| `OperationFocus` | `determine_operation_focus`, which plans, generates data in a context of its own and measures twice |
| `BenchPool` | the executor of the sweeps: submission, the collection of finished futures between submissions and at the end, the worker and its death |
| `BenchScripts` | the five programs as rounds (plan, generate, measure, remove), and an application that calls the tools itself |
| `BenchProperties` | what all this promises |

| Code | Specification |
|---|---|
| `temporary_benchmark_data`: generator entered, body, `finally` | `EnterData`, `CreateFile`, `CreateRaises`; `ExitData`; `RemoveFile`, once per file |
| the files | `disk`, for the outer context (a script's) and the inner one (of a focus call inside it) |
| `no_gc` | `gc`, per process |
| one measured run of a benchmark | `RunBlock`; the second half of the runs: `NextHalf`; an exception: `RaiseInBench` |
| `determine_operation_focus` | `CallFocus`, `MeasureFirst`, `MeasureSecond`, `Decide`, `FocusFails`, `FocusWithoutData`, `FocusReturns` |
| `executor.submit` and the loop over `futures_map` | `Submit`, `SubmitRaises`, `AskFuture`, `CollectFound`, `CollectRemaining` |
| `_run_variant` in the worker | `TakeTask`, the actions of `RawBench` by `"worker"`, `TaskEnds` |
| leaving `with ProcessPoolExecutor` | `BodyRaises` or `AllCollected`, then `ShutDown` |
| `WorkerDies`, `PoolBreaks` | a killed worker, `BrokenProcessPool` (external) |

A measured time is a member of `Times`, and zero is one of them. A value of an array is
kept only where a property is about it (`RandValues`). A row of a file is not modelled item
by item: how long it is decides whether a write wraps, and `bench.head` follows that.

Some of what the models keep is worth knowing, although no documentation says otherwise: a sweep
keeps its rows in memory until `to_csv`, so an exception loses them all; with `n_runs // 2 <
calc_every <= n_runs` no calculation is measured, and the answer is still decided by the times;
`verbose` changes the answer when a time is zero, because the report divides by it; the
collector is on after a benchmark even when it was off before; the eviction array does not count
towards the limit; the docstring's shape of the offset file has `n_runs - (n_runs // 2)` rows
where the code makes `n_runs // 2`, and `determine_num_runs` charges the odd last run for such a
row too; with blocks of one item the offset rows are one item longer than planned; the raw
overwriting script measures `OverwriteCircBuffer` with blocks as large as the buffer, which
rewind it while the baseline's head goes on.

## 4. Runs

| Run | Instance | Shows |
|---|---|---|
| `safety` | 2 threads, 3 cells, 3 tickets, every kind of call, two of which raise | types, heads and size consistent, writers and readers only block each other around a strict read, refinement of `BoundedFifo`, also when calls raise |
| `tickets` | 3 threads that may all time out, 2 cells, 4 tickets | the ticket discipline, no stranded turn, no lost wake-up, FIFO order, refinement with contention on both queues |
| `returns` | 3 threads, 2 cells, 4 tickets, fair | every write and every read returns; no deadlock |
| `window` | 3 cells, 2 values, 4 blocks, 3 policies; a `Py_ssize_t` of four bits (-8..7), every slice with bounds in -5..5 and every step of that width; one iterator with all writes between its steps; the baseline beside the buffer | the buffer is a sliding window and returns what left it; slices, indices and `to_numpy` agree with the sequence of items; an iteration stays in the array; the baseline holds the same items |
| `statistics` | 3 cells, three classes, both focuses, thresholds off and 3, items with NaN and both infinities, each write rounds by up to one | the mean returned is that of the items there are, within the rounding since the last recalculation; the threshold bounds that; no mean square further below zero than the tolerance of the sign test; the gated count is exact; the gated mean is right, its relative gate being off by no more than the rounding |
| `bench` | five scripts and an application, three hosts, every failure in section 3 | files, data, plans, masks, times, answers and rows as documented; every program ends |
| `leak`, `restart`, `shared`, `overflow`, `wrap`, `leftover` | | six disagreements between the documentation and the code, below |

Bounds of the buffers. Three cells are the smallest buffer in which a block of two wraps, a
block of four exceeds the capacity and a strict read can wait behind a partial fill.
Tickets wrap at 3 or 4 instead of 2^32, one more than can be outstanding with that number
of threads plus the abandoned ones the run needs (`TicketRoom`): every ticket is reused
many times. Three threads are the fewest with two waiters in one queue and a thread that
wakes them. The threads are interchangeable in `safety` and `tickets`, which use symmetry;
`returns` does not. The safety runs turn deadlock checking off, because all threads may
rightly wait (for items nobody will write); `returns` keeps it.

Three cells reach every branch of a slice: one piece or two, in both directions, with and
without an explicit end. `MaxSsize` = 7 leaves room for steps up to 4, beyond the capacity,
whose sums come to the ends of the type; the slices with greater steps are taken too, but not
looked at. A view is looked at under one policy and without the baseline (`Viewed`): it does not
depend on what a write returns. In `statistics` the items 0 and 6 lie further apart than the
writes can round in the `MaxOps` = 5 operations that may pass without a recalculation, so that a
wrong item is not taken for rounding; five operations are enough to fill the ring and to drive
out two items more. `AbsTol` = 1 is one rounding: an accumulator of -1 is returned as it is, one
of -2 is recalculated, and both occur.

Bounds of the benchmarks. Items are of 4 and 8 bytes and limits of some hundred bytes, which
gives plans from two to about ten runs, even and odd, the least number in which both halves
have more than one; buffers are of 2 to 6 items. The hosts have the room for all runs, know
nothing of themselves, or have less memory than the sweeps spare. `Times` = {0, 1, 2} has a
tie, an order and a zero. One kind of file (`InUse`) may not be removable. An application
makes up to three calls (`MaxCalls`), or one benchmark with rows that fit the runs or do
not, or asks one of the `Questions`: all limits up to 200 bytes for the plan, and all factors
and offsets of two integer types. (A factor or an offset beyond the type may leave
it: NumPy refuses such a Python integer or wraps, depending on its version.) Deadlock
checking is off: a program ends.

Fairness (`FairSpec` of `BlockingCircBuffer`). A thread that is in a call and not in
`Condition.wait` eventually takes the lock: the operating system schedules it, and no holder
keeps the lock. A wait with a timeout ends. Only `returns` adds fairness of two callers
(`BusyCallers`), a writer and a reader that keep calling; without them a full buffer stays
full. `FairSpec` of `BenchScripts`: each of the two processes goes on as long as it can. No
failure is fair: nothing has to go wrong, and nothing has to be repaired by luck.

Findings.

- `leak`: a value that does not convert raises in `write_append` after the ticket was
  drawn; the turn is never advanced, and later writers wait for ever on an empty buffer.
- `restart`: each wake-up restarts the full timeout, so "Maximum time to wait" is not one.
- `shared`: a slice that does not wrap shares the buffer's memory, documented as a copy.
- `overflow`: a finite item whose square overflows makes the accumulator NaN; when it
  leaves, only the item, not its square, is tested, and `mean_square` of a window of small
  items is NaN until as many operations as items have passed.
- `wrap`: the offset rows of a sweep are cut for its largest block. For a smaller block in a
  large buffer they end too early, and the runs recorded as wrapping never wrap.
- `leftover`: when a file cannot be generated, those created before it are neither closed nor
  deleted: the context manager learns their paths only when all exist.

Two more disagreements are stated by other means than a run:

- `determine_num_runs` is documented as "the number of benchmark iterations possible within
  memory constraints" (`bench_utils.py:398`), and to raise "if the total_byte_limit is
  insufficient for a single run" (`:431`). It charges an offset row for the odd last run,
  which gets none (`:719`), and refuses whatever does not hold a pair. With a capacity of 3,
  blocks of 2 and no fill, 14 items get 2 runs although the files of 3 and the buffer take 14; 8
  to 11 items are refused although one run takes 8. The theorem `PlanMissesARun` says so; what
  does hold is `PlanLeavesLessThanARun`.
- "Any slicing produces a 1D NumPy array copy containing only the selected elements"
  (`README.md:108`), but for a step near `PY_SSIZE_T_MAX` the length overflows
  (`core.pyx.in:355`, `:358`), as in `view[::sys.maxsize]` on two items or more. The behaviour
  is undefined in C, so the hazard is listed and nothing is claimed.

## 5. Proofs

All theorems hold for every value of the constants that the named assumptions admit
(`MaxLenAssumption`, `TicketAssumption`, `StatsAssumption`, ...). TLC evaluates the
assumptions in the runs, and found no violation of the invariants before they were proved.

`CircKernel_proofs` holds what the others share: the types of the kernels, that `WriteData`
and `ReadData` agree about distances from the start (`At`), and that a block slides
what a ring holds (`BlockSlides`). Its theorem `TornViewStaysInside` says that a view that
reads `size` and `write_head` while they are being stored stays inside the array,
whatever mix it reads.

`BlockingCircBuffer_proofs`:

| Theorem | Argument |
|---|---|
| `TypeCorrect` | inductive by itself; one step per action, the kernels' types as lemmas |
| `RingAlwaysConsistent` | inductive with the types: modular arithmetic of the heads |
| `TicketsCorrect` | the three ticket invariants are inductive together, with the types; distances from the turn (`Dist`) make the wrap of the counter disappear |
| `NoTurnIsLost` | inductive with `TicketsCorrect`, under `NoFailure` (no call raises): the run `leak` shows that it needs it |
| `NoWakeupIsLost` | inductive with the types: each step either notifies a waiter or cannot make it ready |
| `RoomIsUsed` | from the three before, so under `NoFailure` too |
| `OnlyStrictReadsBlock` | from the types and `NoLostWakeup` |
| `FifoOrder` | a successful call has distance 0 |

They use the bound `TicketRoom`, a guard of `DrawTicket`: the code gives no guarantee once
2^32 tickets are outstanding.

In the same module, `CallsQueue`: every step of the buffer is a step of `BoundedFifo` or leaves
it unchanged. The content lemmas say how a write, a read, a clear and a filter change what lies
between the heads; the order of arrival is the order of the distances, so that serving a turn,
skipping abandoned ones and giving up leave or shorten it. It needs one invariant more, that
only a call with a timeout has expired (`ExpiredTimed`).

`OverwriteCircBuffer_proofs`:

| Theorem | Argument |
|---|---|
| `TypeCorrect` | inductive by itself |
| `BufferSlides` | the refinement of `SlidingWindow`: a block shorter than the capacity leaves the end of window and block, an item is a block of one, and what is returned is the prefix that left |
| `BaselineFollows` | the two rings slide together (`SlideTogether`): what a ring holds is a function of head, size and cells, and the same block moves both windows alike. The heads need not agree, and do not after a block of the capacity, which rewinds only the buffer |
| `ViewIndexes` | an accepted index leads to the cell of the item at its place |
| `ViewIterates` | the invariant relates an iterator's place to what it has yielded and says that as long as nothing was written the places follow the window |
| `ViewSlices` | from the types: Python's bounds lie where the code expects them; a slice takes as many steps as the rounded-up quotient; the two pieces are each `step` apart, and so are the last cell of the first and the first of the second |

`ViewSlices` is what the hazard of a negative step at cell 0 and of a step beyond the
capacity ask for, for all bounds and for all steps that leave room for the arithmetic
(`MaxLen + |step| <= MaxSsize`): no `Ssize` in `__getitem__` changes its argument then
(`SsizeStays`). `SlicesAssumption` says what Python itself guarantees, a step that is a
`Py_ssize_t` and not zero, and that an array of twice the capacity could be addressed.

`UtilityBuffer_proofs` is about sums of numbers that may be NaN, infinite or beyond the range.
`Total` is a recursive function, so that facts about it are proved by induction over the
positions (`SetInduction`): a sum stays within length times the largest term, and sums of
consecutive pieces add up. That is where the need for room comes from: addition that overflows
does not associate. `WriteSound` is the step all three classes share: whatever a write adds to
the true sum it adds to the accumulator, up to `Drift`, and an accumulator that is spoilt stays
so until a recalculation, for which the operation count is large enough once the last item that
is not finite has left.

`RunningStats_proofs`: `TypeCorrect`, in particular that `accum_valid` is lost only with an
accumulator that is not finite; `MeanSquareStaysWithinTolerance`: a fresh sum of squares is not
negative, and an adjusted accumulator is returned only after it was tested against `-AbsTol`;
`MeanStaysRight` and `MeanDriftStaysBounded`, from the invariant `Follows`: a trusted finite
accumulator is within `Drift` times the operations since the last recalculation of the sum of
the terms that the cells hold; one that is not finite is the sum as long as fewer operations
have passed than there are items; and the cached mean is right whenever it is there. The
invariant speaks of the accumulator and not of the means, because `mean()` returns what earlier
writes have left in it. A write keeps it because what leaves before what stays is the old window
before the block (`ComingAndGoing`), so that the sum changes by what came less what went.

`GatedStats_proofs`: every step is one of six kinds (`StepKinds`): a write that adjusts sum and
count, a call that computes them anew, one that only drops the cached mean, a clear, a mean, and
a stutter. `GatedTypeCorrect` and `GatedCountStaysExact` follow from `GatedInv`: the count
is the cardinality of a set of positions, additive over concatenation. `GatedMeanStaysRight`
follows from `GatedFollows`: the cells hold squares (`SquaresTo`), which are not negative, so
that a masked sum is bounded by the whole one; the two pieces of `sum_and_count_gt` are what the
ring holds; the adjusted sum follows the masked one as in `UtilityBuffer_proofs`; and a second
pass with the greater of both gates lets pass exactly the items above both (`GreaterGate`).

`Statistics_proofs` states these of the three classes together, as the run `statistics` checks
them: `StatsTypeCorrect`, `MeanSquareWithinTolerance` and `GatedCountsStayExact` whatever
overflows (these three do not use `RoomAssumption`), `MeansStayRight`, `DriftStaysBounded` and
`GatedMeansStayRight` under it.

`BenchProperties_proofs` is about the benchmarks. Four theorems are arithmetic:
`PlanLeavesLittle`, for the arguments in `PlanArgs`: with the shapes that
`generate_bench_memmaps` really makes (`ItemsFor`), a plan fits and leaves less than a run that
wraps takes, and a refusal had no room for a run of each kind; `PlanMissesARun`, that it is not
the largest plan (section 4); `RandomStaysInRange`, for a type as in `IntegerType` and an offset
within it; `CalculationsEvenly`. The others say that the properties which the run `bench` checks
hold in every state, for every host, list of scripts, application and set of times that the
assumptions admit. They follow from one inductive invariant (`BenchSpecInv`), a conjunction of:

- `FilesInv`: how far each context has come with its files, which of them exist, and in which
  shape; the shapes are those of the plan the context was entered with;
- `ScriptInv`, `OuterTurn`, `InnerTurn`: which step of a script holds which context open, so
  that no data is left while a measurement of it runs;
- `FocusInv`: what times have been measured at each step of a focus call;
- `BenchInv`, `BenchTurn`: the runs measured so far, those followed by a calculation, and whose
  benchmark it is;
- `PoolInv`: what a future holds, which of them were collected, and what the variables shared
  by the two collecting loops hold between two steps of them.

Assumed are the third-level cache of eight bytes at least (`CacheAssumption`), times that are not
negative (`TimesAssumption`) and the form of scripts, applications, focus calls and hosts.

Only model-checked: liveness (`ProgramEnds`, the return of every call), out of the prover's
reach, as is `ENABLED`; and what the faulty variants show, that the properties notice
mistakes.

## 6. Not modelled

The components listed as not modelled in `PROJECT.json`, with the reason for each. Of the
buffers: a block that shares the memory of the buffer it is written to (an overlapping
`memcpy`); the sums and means of `OverwriteCircBuffer` itself, which only read the window;
values of an unlocked view during a write, which `core.pyi` declares inconsistent; the abrupt
end of a thread in a `BlockingCircBuffer` (documented as unsupported), and memory exhaustion
while a result array is allocated, which leaks a ticket the way `RaiseInCall` does.

Of the benchmarks: `touch_pages` and `set_process_priority`, which change speed and not results;
`get_cpu_name` and the log, except that writing it may raise; `get_cache_line_size`, which has
the form of the other getters; in `prepare_blocks` the single offset row, which no program asks
for, and the check for missing paths; the notebooks and recorded results.

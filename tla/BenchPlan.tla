------------------------------- MODULE BenchPlan -------------------------------
(***************************************************************************)
(* The arithmetic of bench_utils.py: how many runs fit into the memory     *)
(* allowed, the shapes of the data they need, the values that random data  *)
(* may take, which runs are followed by a calculation and which times      *)
(* enter the mean.                                                         *)
(***************************************************************************)
EXTENDS Integers, FiniteSets, Sequences

Omitted == -1     \* an argument that is None; no caller passes a negative size

\* The arguments of determine_num_runs.
PlanArgs ==
  [elem_bytes : Nat \ {0}, total_byte_limit : Nat,
   maxlen_byte_limit : Nat \cup {Omitted}, block_byte_limit : Nat \cup {Omitted},
   maxlen : Nat \cup {Omitted}, block_size : Nat \cup {Omitted}, with_fill : BOOLEAN]

AtLeastOne(n) == IF n < 1 THEN 1 ELSE n

Refused == [n_runs |-> 0, block_size |-> 0, maxlen |-> 0]

\* The sizes a call of determine_num_runs works with, in elements.
Sizes(a) ==
  [max_elems  |-> a.total_byte_limit \div a.elem_bytes,
   block_size |-> IF a.block_size # Omitted THEN a.block_size
                  ELSE IF a.block_byte_limit = Omitted THEN 0
                  ELSE a.block_byte_limit \div a.elem_bytes,
   maxlen     |-> IF a.maxlen # Omitted THEN a.maxlen
                  ELSE IF a.maxlen_byte_limit = Omitted THEN 0
                  ELSE a.maxlen_byte_limit \div a.elem_bytes]

\* What a plan counts for an offset row, and for all rows of one run of either
\* kind: one that wraps has an offset row, both have a block and a fill row.
OffsetSize(block_size, maxlen) == maxlen - AtLeastOne(block_size \div 2)

LinearRun(block_size, maxlen, with_fill) ==
  block_size + (IF with_fill THEN maxlen ELSE 0)

WrapRun(block_size, maxlen, with_fill) ==
  LinearRun(block_size, maxlen, with_fill) + OffsetSize(block_size, maxlen)

\* Faulty variant: the buffer and the warm-up block are not set aside.
DetermineNumRuns_NoWarmup(a) ==
  LET s     == Sizes(a)
      wrap  == WrapRun(s.block_size, s.maxlen, a.with_fill)
      pair  == wrap + LinearRun(s.block_size, s.maxlen, a.with_fill)
      k     == s.max_elems \div pair
  IN IF s.block_size <= 0 \/ s.maxlen <= 2 \/ s.maxlen < s.block_size \/ pair > s.max_elems
     THEN Refused
     ELSE [n_runs |-> 2 * k + (IF k * pair + wrap <= s.max_elems THEN 1 ELSE 0),
           block_size |-> s.block_size, maxlen |-> s.maxlen]

\* Faulty variant: only pairs are counted.
DetermineNumRuns_PairsOnly(a) ==
  LET s     == Sizes(a)
      fixed == 2 * s.maxlen
      pair  == WrapRun(s.block_size, s.maxlen, a.with_fill)
                 + LinearRun(s.block_size, s.maxlen, a.with_fill)
  IN IF \/ s.block_size <= 0 \/ s.maxlen <= 2 \/ s.maxlen < s.block_size
        \/ fixed + pair > s.max_elems
     THEN Refused
     ELSE [n_runs |-> 2 * ((s.max_elems - fixed) \div pair),
           block_size |-> s.block_size, maxlen |-> s.maxlen]

\* Refused stands for NumCircBufValueError.  The runs come in pairs of one that wraps
\* and one that does not; what is left over may hold one more.
DetermineNumRuns(a) ==
  LET s     == Sizes(a)
      fixed == 2 * s.maxlen             \* the buffer and the warm-up block
      wrap  == WrapRun(s.block_size, s.maxlen, a.with_fill)
      pair  == wrap + LinearRun(s.block_size, s.maxlen, a.with_fill)
      k     == (s.max_elems - fixed) \div pair
  IN IF \/ s.block_size <= 0 \/ s.maxlen <= 2 \/ s.maxlen < s.block_size
        \/ fixed + pair > s.max_elems
     THEN Refused
     ELSE [n_runs |-> 2 * k + (IF fixed + k * pair + wrap <= s.max_elems THEN 1 ELSE 0),
           block_size |-> s.block_size, maxlen |-> s.maxlen]
-------------------------------------------------------------------------------
FileKind == <<"data", "warmup", "offset", "fill", "evict">>
Kinds    == {"data", "warmup", "offset", "fill", "evict"}

\* Faulty variant: offset rows as long as the buffer.
Shapes_FullOffset(n_runs, block_size, maxlen) ==
  [data   |-> <<n_runs, block_size>>,
   warmup |-> <<1, maxlen>>,
   offset |-> <<n_runs \div 2, maxlen>>,
   fill   |-> <<n_runs, maxlen>>]

\* Rows and columns of the arrays generate_bench_memmaps makes, but for the eviction
\* array.
Shapes(n_runs, block_size, maxlen) ==
  [data   |-> <<n_runs, block_size>>,
   warmup |-> <<1, maxlen>>,
   offset |-> <<n_runs \div 2, maxlen - (block_size \div 2)>>,
   fill   |-> <<n_runs, maxlen>>]

\* The items of the buffer and of the arrays that are really made for n runs.
ItemsFor(s, n, with_fill) ==
  LET shapes   == Shapes(n, s.block_size, s.maxlen)
      items(k) == shapes[k][1] * shapes[k][2]
  IN s.maxlen + items("data") + items("warmup") + items("offset")
       + (IF with_fill THEN items("fill") ELSE 0)

\* What determine_num_runs answers: it refuses only when not both, a run that wraps and
\* one that does not, fit; otherwise there are at least those two, and room for less than
\* one more that wraps.  One more that does not wrap may fit: it needs no offset row, but
\* is charged one.  (Blocks of one item have longer rows than planned, so that their files
\* may take more than the limit.)
LeavesLessThanARun(a) ==
  LET s       == Sizes(a)
      plan    == DetermineNumRuns(a)
      need(n) == ItemsFor(s, n, a.with_fill)
      wrap    == WrapRun(s.block_size, s.maxlen, a.with_fill)
  IN IF plan = Refused
     THEN s.block_size <= 0 \/ s.maxlen <= 2 \/ s.maxlen < s.block_size \/ need(2) > s.max_elems
     ELSE /\ plan.n_runs >= 2
          /\ s.block_size > 1 => need(plan.n_runs) <= s.max_elems
          /\ need(plan.n_runs) + wrap > s.max_elems

\* The bounds of an integer type of NumPy, with or without a sign.
IntegerType(info) ==
  /\ info \in [min : Int, max : Nat \ {0}]
  /\ info.min = 0 \/ info.min = -info.max - 1

\* a // b of Python, which rounds down whatever the signs.
FloorDiv(a, b) == IF b > 0 THEN a \div b ELSE (-a) \div (-b)

Clamped(x, info) ==
  IF x < info.min THEN info.min ELSE IF x > info.max THEN info.max ELSE x

\* Faulty variant: the lower bound is rounded down like the upper one.
RandBounds_Floor(info, mul, sub) ==
  LET first == IF mul > 0 THEN info.min ELSE info.max
      last  == IF mul > 0 THEN info.max ELSE info.min
  IN [low  |-> Clamped(FloorDiv(first + sub, mul), info),
      high |-> Clamped(FloorDiv(last + sub, mul), info)]

\* generate_rand_memmap_arr: the integers drawn for a dtype with the bounds info, so
\* that x * mul - sub stays inside them.
RandBounds(info, mul, sub) ==
  LET first == IF mul > 0 THEN info.min ELSE info.max
      last  == IF mul > 0 THEN info.max ELSE info.min
  IN [low  |-> Clamped(-FloorDiv(-(first + sub), mul), info),
      high |-> Clamped(FloorDiv(last + sub, mul), info)]

\* The calls that raise before anything is drawn.
RandRefused(info, mul, sub) ==
  IF mul = 0 THEN -sub \notin info.min .. info.max
  ELSE \/ mul < 0 /\ info.min = 0
       \/ RandBounds(info, mul, sub).low > RandBounds(info, mul, sub).high

\* The numbers the array may hold in the end.
RandValues(info, mul, sub) ==
  IF RandRefused(info, mul, sub) THEN {}
  ELSE IF mul = 0 THEN {-sub}
  ELSE LET r == RandBounds(info, mul, sub) IN {x * mul - sub : x \in r.low .. r.high}

\* What generate_rand_memmap_arr promises: no value leaves the type, and one that could
\* be drawn without leaving it is not lost.
KeepsRange(info, mul, sub) ==
  LET whole == info.min .. info.max
      safe  == {x * mul - sub : x \in whole} \cap whole
  IN IF RandRefused(info, mul, sub)
     THEN safe = {} \/ (mul < 0 /\ info.min = 0)
     ELSE RandValues(info, mul, sub) = safe
-------------------------------------------------------------------------------
\* Faulty variant: the first calculation comes one run late.
CalcMask_Late(length, calc_every) ==
  {i \in 0 .. length - 1 : i >= calc_every /\ i % calc_every = 0}

\* mask[calc_every - 1 :: calc_every] = True
CalcMask(length, calc_every) ==
  {i \in 0 .. length - 1 : i >= calc_every - 1 /\ (i - (calc_every - 1)) % calc_every = 0}

\* round(n / 10) of Python: a half goes to the even neighbour.
RoundedTenth(n) ==
  LET q == n \div 10
  IN IF n % 10 > 5 \/ (n % 10 = 5 /\ q % 2 = 1) THEN q + 1 ELSE q

\* trimmed_mean_times: the times that enter the mean of arr_size of them.
TrimmedTimes(arr_size) ==
  LET drop == AtLeastOne(RoundedTenth(arr_size))
  IN IF drop >= arr_size THEN 0 .. arr_size - 1 ELSE drop .. arr_size - 1
===============================================================================

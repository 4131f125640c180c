----------------------------- MODULE RunningStats -----------------------------
(***************************************************************************)
(* classes RunningMeanBuffer and RunningMeanSqBuffer of core.pyx.in, which *)
(* differ only in the term an item adds to the accumulator.  In the        *)
(* "calculation" focus every write adjusts the accumulator; NaN and        *)
(* infinity, which no subtraction takes out again, are tracked by          *)
(* accum_valid and operations_since_recalc.                                *)
(***************************************************************************)
EXTENDS UtilityBuffer

CONSTANTS
  Classes,        \* the classes to choose from
  Items,          \* the items written one by one
  Blocks          \* the blocks extend is called with

ASSUME StatsAssumption ==
  /\ Classes \subseteq {"RunningMeanBuffer", "RunningMeanSqBuffer"}
  /\ \A x \in Items : x \in Number
  /\ \A block \in Blocks : block \in Seq(Number)

\* Items whose terms are at most m, and are far enough from overflow that no sum of a
\* window and a block can reach it.
Fit(m) ==
  {x \in Number : IsFinite(x) => /\ x.val \in -m .. m
                                 /\ "RunningMeanSqBuffer" \in Classes => x.val * x.val <= m}

NothingOverflows ==
  \E m \in 0 .. MaxFinite :
    /\ 2 * (MaxLen * m) <= MaxFinite
    /\ \A x \in Items : x \in Fit(m)
    /\ \A block \in Blocks : block \in Seq(Fit(m))

VARIABLES
  class,                                    \* of the buffer
  is_extend_focused,                        \* set by the constructor
  accum

config  == <<class, is_extend_focused, recalc_threshold>>
accVars == <<accum, accum_valid, operations_since_recalc>>
vars    == <<buf, write_head, size, class, is_extend_focused, recalc_threshold, accum,
             accum_valid, operations_since_recalc, cached, returned>>

Squares == class = "RunningMeanSqBuffer"

Term(x) == IF Squares THEN Square(x) ELSE x

Init ==
  /\ InitUtility
  /\ class \in Classes
  /\ is_extend_focused \in BOOLEAN
  /\ accum = Fin(0)

\* sum_f and sum_squares_f: one piece, or two when the items wrap.
SumFrom(cells, head, n) ==
  LET start == GetStartPos(head, n)
      piece(from, to) == Total([k \in 1 .. to - from |-> Term(cells[from + k - 1])])
  IN IF start + n <= MaxLen THEN piece(start, start + n)
     ELSE Plus(piece(start, MaxLen), piece(0, start + n - MaxLen))

SumF == SumFrom(buf, write_head, size)

\* The accumulator is computed anew from the items as they are after the step.
Recalculated ==
  /\ accum' = SumFrom(buf', write_head', size')
  /\ accum_valid' = IsFinite(accum')
  /\ operations_since_recalc' = 0

\* Faulty variant: leaving non-finite items are not noticed.
Adjust_Unnoticed(n, added, removed, gone) ==
  LET ops == operations_since_recalc + n
  IN /\ ops <= MaxOps
     /\ IF recalc_threshold # 0 /\ ops >= recalc_threshold THEN Recalculated
        ELSE /\ accum' \in Near(Plus(accum, Minus(added, removed)), Drift)
             /\ operations_since_recalc' = ops
             /\ UNCHANGED accum_valid

\* Faulty variant: the threshold is passed over.
Adjust_NoThreshold(n, added, removed, gone) ==
  LET leaving == ~accum_valid /\ \E k \in 1 .. Len(gone) : ~IsFinite(gone[k])
      ops     == (IF leaving THEN size' ELSE operations_since_recalc) + n
  IN /\ ops <= MaxOps
     /\ accum' \in Near(Plus(accum, Minus(added, removed)), Drift)
     /\ operations_since_recalc' = ops
     /\ UNCHANGED accum_valid

\* A write of n items that adds one sum and removes another, while the items in
\* gone are overwritten: when one of them was not finite and the accumulator is
\* known to be spoilt, the next mean recalculates.
Adjust(n, added, removed, gone) ==
  LET leaving == ~accum_valid /\ \E k \in 1 .. Len(gone) : ~IsFinite(gone[k])
      ops     == (IF leaving THEN size' ELSE operations_since_recalc) + n
  IN /\ ops <= MaxOps
     /\ IF recalc_threshold # 0 /\ ops >= recalc_threshold THEN Recalculated
        ELSE /\ accum' \in Near(Plus(accum, Minus(added, removed)), Drift)
             /\ operations_since_recalc' = ops
             /\ UNCHANGED accum_valid

Append1(x) ==
  /\ Push(x)
  /\ IF is_extend_focused THEN UNCHANGED accVars
     ELSE LET gone == IF size = MaxLen THEN <<buf[write_head]>> ELSE <<>>
          IN Adjust(1, Term(x), Total(Mapped(gone, Term)), gone)
  /\ cached' = NoMean /\ returned' = NoMean
  /\ UNCHANGED config

ExtendWhole(block) ==
  /\ Len(block) >= MaxLen
  /\ PushWhole(block)
  /\ IF is_extend_focused THEN UNCHANGED accVars ELSE Recalculated
  /\ cached' = NoMean /\ returned' = NoMean
  /\ UNCHANGED config

ExtendPart(block) ==
  /\ Len(block) > 0 /\ Len(block) < MaxLen
  /\ PushPart(block)
  /\ IF is_extend_focused THEN UNCHANGED accVars
     ELSE LET n    == Len(block)
              gone == Oldest(IF size + n > MaxLen THEN size + n - MaxLen ELSE 0)
          IN Adjust(n, Total(Mapped(block, Term)), Total(Mapped(gone, Term)), gone)
  /\ cached' = NoMean /\ returned' = NoMean
  /\ UNCHANGED config

\* DataSizeWarning as an error: extend has dropped the cached mean, nothing else.
ExtendRaises(block) ==
  /\ Len(block) > MaxLen
  /\ cached' = NoMean /\ returned' = NoMean
  /\ UNCHANGED <<buf, write_head, size, config, accVars>>

\* Faulty variant: a negative accumulator is not noticed.
ShouldRecalc_Signless ==
  IF accum_valid THEN ~IsFinite(accum)
  ELSE operations_since_recalc >= size

\* Whether mean_c computes the accumulator anew; one that is below zero by ABS_TOL or
\* less is taken as it is.
ShouldRecalc ==
  IF accum_valid THEN ~IsFinite(accum) \/ (Squares /\ accum.val < -AbsTol)
  ELSE operations_since_recalc >= size

\* mean and mean_square.
GetMean ==
  /\ UNCHANGED <<buf, write_head, size, config>>
  /\ CASE IsFinite(cached.sum) -> UNCHANGED <<cached, accVars>>
       [] ~IsFinite(cached.sum) /\ is_extend_focused ->
            /\ cached' = IF size = 0 THEN Mean(Fin(0), 1) ELSE Mean(SumF, size)
            /\ UNCHANGED accVars
       [] ~IsFinite(cached.sum) /\ ~is_extend_focused /\ size = 0 ->
            /\ cached' = Mean(Fin(0), 1)
            /\ UNCHANGED accVars
       [] ~IsFinite(cached.sum) /\ ~is_extend_focused /\ size # 0 ->
            /\ IF ShouldRecalc THEN Recalculated ELSE UNCHANGED accVars
            /\ cached' = Mean(accum', size)
  /\ returned' = cached'

\* Faulty variant: the flag is not reset.
Clear_StaysInvalid ==
  /\ Reset
  /\ accum' = Fin(0) /\ operations_since_recalc' = 0
  /\ cached' = NoMean /\ returned' = NoMean
  /\ UNCHANGED <<config, accum_valid>>

Clear ==
  /\ Reset
  /\ accum' = Fin(0) /\ accum_valid' = TRUE /\ operations_since_recalc' = 0
  /\ cached' = NoMean /\ returned' = NoMean
  /\ UNCHANGED config

ClearCache ==
  /\ cached' = NoMean /\ returned' = NoMean
  /\ UNCHANGED <<buf, write_head, size, config, accVars>>

Recalculate ==
  /\ UNCHANGED <<buf, write_head, size>>
  /\ Recalculated
  /\ cached' = NoMean /\ returned' = NoMean
  /\ UNCHANGED config

\* clear_nans and clear_infs.
RemoveItems(target) ==
  /\ Filter(target)
  /\ Recalculated
  /\ cached' = NoMean /\ returned' = NoMean
  /\ UNCHANGED config

Next ==
  \/ \E x \in Items : Append1(x)
  \/ \E block \in Blocks : ExtendWhole(block) \/ ExtendPart(block) \/ ExtendRaises(block)
  \/ GetMean
  \/ Clear \/ ClearCache \/ Recalculate
  \/ \E target \in Targets : RemoveItems(target)

Spec == Init /\ [][Next]_vars
-------------------------------------------------------------------------------
\* Type invariant: the heads stay in range, the accumulator and the mean are
\* numbers, and accum_valid is only lost with an accumulator that is not finite.
TypeOK ==
  /\ buf \in [Index -> Number]
  /\ write_head \in Index /\ size \in 0 .. MaxLen
  /\ class \in Classes
  /\ is_extend_focused \in BOOLEAN /\ recalc_threshold \in Thresholds
  /\ accum \in Number /\ accum_valid \in BOOLEAN
  /\ operations_since_recalc \in 0 .. MaxOps
  /\ cached.sum \in Number /\ cached.count \in 0 .. MaxLen
  /\ ~accum_valid => ~IsFinite(accum)

\* core.pyi, mean: "Calculates the mean of the values", mean_square: "Calculates the
\* mean square. Result is cached until the buffer is modified": the mean returned is
\* the mean of the items there are now, with NaN and infinity as long as they make it
\* so and no longer, in both focuses and with every threshold, and a finite one is off
\* by no more than the writes since the last recalculation have rounded away.
MeanFollowsItems ==
  returned # NoMean =>
    IF size = 0 THEN returned = Mean(Fin(0), 1)
    ELSE /\ returned.count = size
         /\ IF IsFinite(SumF)
            THEN /\ IsFinite(returned.sum)
                 /\ Distance(returned.sum, SumF) <=
                      (IF is_extend_focused THEN 0 ELSE Drift * operations_since_recalc)
            ELSE returned.sum = SumF

\* core.pyi, recalc_threshold: "Recalculate the sum from scratch every N operations to
\* prevent float precision drift": what N - 1 writes may have rounded away is the most
\* that a mean is off by, whatever else was called between them.
DriftBounded ==
  returned # NoMean /\ recalc_threshold # 0 /\ IsFinite(returned.sum) /\ IsFinite(SumF)
    => Distance(returned.sum, SumF) <= Drift * (recalc_threshold - 1)

\* ABS_TOL: however far rounding has moved the accumulator, the sum of squares behind a
\* mean that is returned is below zero by the tolerance at most; only then is it used
\* without being computed anew (RunningMeanSqBuffer.mean_square_c).
SquaresWithinTolerance ==
  Squares /\ IsFinite(returned.sum) => returned.sum.val >= -AbsTol
===============================================================================

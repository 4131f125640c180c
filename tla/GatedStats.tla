------------------------------ MODULE GatedStats ------------------------------
(***************************************************************************)
(* class IntegratedGatedBuffer of core.pyx.in: the mean of the squares     *)
(* that exceed an absolute gate and, among those, a gate relative to their *)
(* mean.  The sum and the count of what passes the absolute gate are kept  *)
(* up to date with every write; the relative gate is applied on request.   *)
(***************************************************************************)
EXTENDS UtilityBuffer, FiniteSets

CONSTANTS
  AbsGate,        \* abs_gate_lin_sq
  RelNum, RelDen, \* rel_gate_lin_sq_factor, a fraction
  GatedItems,     \* the items written one by one
  GatedBlocks     \* the blocks extend is called with

ASSUME GateAssumption ==
  /\ AbsGate \in Nat /\ RelNum \in Nat /\ RelDen \in Nat \ {0}
  /\ \A x \in GatedItems : x \in Number
  /\ \A block \in GatedBlocks : block \in Seq(Number)

\* Items that are at most m, as are their squares, and are far enough from overflow that
\* no sum of a window and a block can reach it.
GatedFit(m) ==
  {x \in Number : IsFinite(x) => x.val \in -m .. m /\ x.val * x.val <= m}

NoGateOverflows ==
  \E m \in 0 .. MaxFinite :
    /\ 2 * (MaxLen * m) <= MaxFinite
    /\ \A x \in GatedItems : x \in GatedFit(m)
    /\ \A block \in GatedBlocks : block \in Seq(GatedFit(m))

VARIABLES abs_gated_sum_sq_accum, abs_gated_count_accum

gateVars     == <<abs_gated_sum_sq_accum, abs_gated_count_accum>>
gatedAccVars == <<gateVars, accum_valid, operations_since_recalc>>
gatedVars    == <<buf, write_head, size, recalc_threshold, gatedAccVars, cached, returned>>

GatedInit ==
  /\ InitUtility
  /\ abs_gated_sum_sq_accum = Fin(0) /\ abs_gated_count_accum = 0

\* x > num/den or isnan(x)
Passes(x, num, den) ==
  \/ IsNaN(x) \/ x = PosInf
  \/ IsFinite(x) /\ x.val * den > num

\* np.dot of a sequence and the mask of what passes.
GatedTotal(s, num, den) ==
  Total([k \in 1 .. Len(s) |-> IF Passes(s[k], num, den) THEN s[k] ELSE Fin(0)])

\* np.count_nonzero of the mask.
CountPassing(s, num, den) == Cardinality({k \in 1 .. Len(s) : Passes(s[k], num, den)})

Loud(x)      == Passes(x, AbsGate, 1)
LoudSum(s)   == GatedTotal(s, AbsGate, 1)
LoudCount(s) == CountPassing(s, AbsGate, 1)

Piece(cells, from, to) == [k \in 1 .. to - from |-> cells[from + k - 1]]

\* sum_and_count_gt: one piece, or two when the items wrap.
SumAndCount(cells, head, n, num, den) ==
  LET start == GetStartPos(head, n)
      part1 == Piece(cells, start, start + FirstPart(start, n))
      part2 == Piece(cells, 0, n - FirstPart(start, n))
  IN [sum   |-> Plus(GatedTotal(part1, num, den), GatedTotal(part2, num, den)),
      count |-> CountPassing(part1, num, den) + CountPassing(part2, num, den)]

\* Faulty variant: only the sum is computed anew.
GatedRecalculated_SumOnly ==
  LET result == SumAndCount(buf', write_head', size', AbsGate, 1)
  IN /\ abs_gated_sum_sq_accum' = result.sum
     /\ abs_gated_count_accum' = abs_gated_count_accum
     /\ accum_valid' = IsFinite(result.sum)
     /\ operations_since_recalc' = 0

\* Sum and count are computed anew from the items as they are after the step.
GatedRecalculated ==
  LET result == SumAndCount(buf', write_head', size', AbsGate, 1)
  IN /\ abs_gated_sum_sq_accum' = result.sum
     /\ abs_gated_count_accum' = result.count
     /\ accum_valid' = IsFinite(result.sum)
     /\ operations_since_recalc' = 0

\* The sum after some squares came and some went; no rounding if none of them is loud.
Adjusted(squares, gone) ==
  IF LoudCount(squares) = 0 /\ LoudCount(gone) = 0 THEN {abs_gated_sum_sq_accum}
  ELSE Near(Plus(abs_gated_sum_sq_accum, Minus(LoudSum(squares), LoudSum(gone))), Drift)

\* Faulty variant: leaving items that are not finite are not noticed.
GatedAdjust_Unnoticed(squares, gone) ==
  LET ops == operations_since_recalc + Len(squares)
  IN /\ ops <= MaxOps
     /\ IF recalc_threshold # 0 /\ ops >= recalc_threshold THEN GatedRecalculated
        ELSE /\ abs_gated_sum_sq_accum' \in Adjusted(squares, gone)
             /\ abs_gated_count_accum' = abs_gated_count_accum
                                       + LoudCount(squares) - LoudCount(gone)
             /\ operations_since_recalc' = ops
             /\ UNCHANGED accum_valid

\* A write of squares, while those in gone are overwritten: when one of them was not
\* finite and the accumulator is known to be spoilt, the next mean recalculates.
GatedAdjust(squares, gone) ==
  LET leaving == ~accum_valid /\ \E k \in 1 .. Len(gone) : ~IsFinite(gone[k])
      ops     == (IF leaving THEN size' ELSE operations_since_recalc) + Len(squares)
  IN /\ ops <= MaxOps
     /\ IF recalc_threshold # 0 /\ ops >= recalc_threshold THEN GatedRecalculated
        ELSE /\ abs_gated_sum_sq_accum' \in Adjusted(squares, gone)
             /\ abs_gated_count_accum' = abs_gated_count_accum
                                       + LoudCount(squares) - LoudCount(gone)
             /\ operations_since_recalc' = ops
             /\ UNCHANGED accum_valid

Squared(block, already_squared) ==
  IF already_squared THEN block ELSE Mapped(block, Square)

GatedAppend(x, already_squared) ==
  LET squares == Squared(<<x>>, already_squared)
  IN /\ Push(squares[1])
     /\ GatedAdjust(squares, IF size = MaxLen THEN <<buf[write_head]>> ELSE <<>>)
     /\ cached' = NoMean /\ returned' = NoMean
     /\ UNCHANGED recalc_threshold

GatedExtendWhole(block, already_squared) ==
  /\ Len(block) >= MaxLen
  /\ PushWhole(Squared(block, already_squared))
  /\ GatedRecalculated
  /\ cached' = NoMean /\ returned' = NoMean
  /\ UNCHANGED recalc_threshold

GatedExtendPart(block, already_squared) ==
  /\ Len(block) > 0 /\ Len(block) < MaxLen
  /\ LET squares == Squared(block, already_squared)
     IN /\ PushPart(squares)
        /\ GatedAdjust(squares, Oldest(IF size + Len(block) > MaxLen
                                  THEN size + Len(block) - MaxLen ELSE 0))
  /\ cached' = NoMean /\ returned' = NoMean
  /\ UNCHANGED recalc_threshold

\* DataSizeWarning as an error: extend has dropped the cached mean, nothing else.
GatedExtendRaises(block) ==
  /\ Len(block) > MaxLen
  /\ cached' = NoMean /\ returned' = NoMean
  /\ UNCHANGED <<buf, write_head, size, recalc_threshold, gatedAccVars>>

\* Whether gated_mean_square_c computes sum and count anew; a sum that is below zero by
\* ABS_TOL or less is taken as it is.
GatedShouldRecalc ==
  IF accum_valid
  THEN ~IsFinite(abs_gated_sum_sq_accum) \/ abs_gated_sum_sq_accum.val < -AbsTol
  ELSE operations_since_recalc >= size

\* The second pass: the greater of both gates decides.
FinalMean(sum, count) ==
  IF ~IsFinite(sum) THEN Mean(sum, 1)
  ELSE LET relNum == sum.val * RelNum
           relDen == count * RelDen
           result == IF AbsGate * relDen > relNum
                     THEN SumAndCount(buf, write_head, size, AbsGate, 1)
                     ELSE SumAndCount(buf, write_head, size, relNum, relDen)
       IN IF result.count = 0 THEN Mean(Fin(0), 1) ELSE Mean(result.sum, result.count)

\* gated_mean_square.
GetGatedMean ==
  /\ UNCHANGED <<buf, write_head, size, recalc_threshold>>
  /\ CASE IsFinite(cached.sum) -> UNCHANGED <<cached, gatedAccVars>>
       [] ~IsFinite(cached.sum) /\ abs_gated_count_accum = 0 ->
            /\ cached' = Mean(Fin(0), 1)
            /\ UNCHANGED gatedAccVars
       [] ~IsFinite(cached.sum) /\ abs_gated_count_accum # 0 ->
            /\ IF GatedShouldRecalc THEN GatedRecalculated ELSE UNCHANGED gatedAccVars
            /\ cached' = FinalMean(abs_gated_sum_sq_accum', abs_gated_count_accum')
  /\ returned' = cached'

GatedClear ==
  /\ Reset
  /\ abs_gated_sum_sq_accum' = Fin(0) /\ abs_gated_count_accum' = 0
  /\ accum_valid' = TRUE /\ operations_since_recalc' = 0
  /\ cached' = NoMean /\ returned' = NoMean
  /\ UNCHANGED recalc_threshold

GatedClearCache ==
  /\ cached' = NoMean /\ returned' = NoMean
  /\ UNCHANGED <<buf, write_head, size, recalc_threshold, gatedAccVars>>

GatedRecalculate ==
  /\ UNCHANGED <<buf, write_head, size, recalc_threshold>>
  /\ GatedRecalculated
  /\ cached' = NoMean /\ returned' = NoMean

\* clear_nans and clear_infs.
GatedRemoveItems(target) ==
  /\ Filter(target)
  /\ GatedRecalculated
  /\ cached' = NoMean /\ returned' = NoMean
  /\ UNCHANGED recalc_threshold

\* A caller who says that the items are squares already passes no negative ones.
MayBeSquares(block) ==
  \A k \in 1 .. Len(block) : block[k] = NaN \/ block[k].val >= 0

GatedNext ==
  \/ \E already_squared \in BOOLEAN :
       \/ \E x \in GatedItems :
            (already_squared => MayBeSquares(<<x>>)) /\ GatedAppend(x, already_squared)
       \/ \E block \in GatedBlocks :
            /\ already_squared => MayBeSquares(block)
            /\ GatedExtendWhole(block, already_squared) \/ GatedExtendPart(block, already_squared)
  \/ \E block \in GatedBlocks : GatedExtendRaises(block)
  \/ GetGatedMean
  \/ GatedClear \/ GatedClearCache \/ GatedRecalculate
  \/ \E target \in Targets : GatedRemoveItems(target)

GatedSpec == GatedInit /\ [][GatedNext]_gatedVars
-------------------------------------------------------------------------------
\* Type invariant: the head stays in range, the count is never more than the items
\* (nor, being a size_t, below zero), and accum_valid is only lost with an accumulator
\* that is not finite.
GatedTypeOK ==
  /\ buf \in [Index -> Number]
  /\ write_head \in Index /\ size \in 0 .. MaxLen
  /\ recalc_threshold \in Thresholds
  /\ abs_gated_sum_sq_accum \in Number /\ abs_gated_count_accum \in 0 .. size
  /\ accum_valid \in BOOLEAN /\ operations_since_recalc \in 0 .. MaxOps
  /\ cached.sum \in Number /\ cached.count \in 0 .. MaxLen
  /\ ~accum_valid => ~IsFinite(abs_gated_sum_sq_accum)

\* The count divides the sum: unlike the sum, which may drift and be spoilt, it is the
\* number of items above the absolute gate after every write, also while NaN and
\* infinity come and go.
GatedCountExact == abs_gated_count_accum = LoudCount(Window)

\* What gating means: the items above the absolute gate, of those the ones above the
\* relative gate, and their mean; d is an error of the first sum.
GatedMean(s, d) ==
  LET total   == LoudSum(s)
      passing == {k \in 1 .. Len(s) :
                    Loud(s[k]) /\ s[k].val * (LoudCount(s) * RelDen) > (total.val + d) * RelNum}
  IN IF ~IsFinite(total) THEN Mean(total, 1)
     ELSE IF passing = {} THEN Mean(Fin(0), 1)
     ELSE Mean(Total([k \in 1 .. Len(s) |-> IF k \in passing THEN s[k] ELSE Fin(0)]),
               Cardinality(passing))

\* core.pyi, gated_mean_square: "Result is cached until the buffer is modified": what
\* it returns is the gated mean of the items there are now, where the relative gate may
\* be off by what the writes since the last recalculation have rounded away.
GatedMeanFollowsItems ==
  returned # NoMean =>
    LET error == Drift * operations_since_recalc
    IN \E d \in -error .. error : returned = GatedMean(Window, d)
===============================================================================

----------------------------- MODULE UtilityBuffer -----------------------------
(***************************************************************************)
(* class _UtilityBufferBP of core.pyx.in: what the buffers that keep a     *)
(* statistic of their items share.  An accumulator is adjusted with every  *)
(* write; accum_valid and operations_since_recalc track whether it can be  *)
(* trusted, and what was last computed from it is cached.                  *)
(***************************************************************************)
EXTENDS OverwriteRing, ExtendedReals

CONSTANTS
  Thresholds,     \* the recalc_threshold values to choose from; 0 is off
  Drift,          \* by how much a write may round the accumulator
  AbsTol,         \* ABS_TOL, in the unit of Drift: how far below zero a sum of squares may be
  MaxOps          \* bound: operations without a recalculation

ASSUME UtilityAssumption ==
  Thresholds \subseteq Nat /\ Drift \in Nat /\ AbsTol \in Nat /\ MaxOps \in Nat

VARIABLES
  recalc_threshold,                         \* set by the constructor
  accum_valid, operations_since_recalc,
  cached,                                   \* the mean: a sum and what divides it
  returned                                  \* what the last step returned

\* A mean is kept as a sum and a count.
Mean(sum, count) == [sum |-> sum, count |-> count]
NoMean           == [sum |-> NaN, count |-> 0]

\* _shared_utility_buffer_init.
InitUtility ==
  /\ InitRing(Fin(0))
  /\ recalc_threshold \in Thresholds
  /\ accum_valid = TRUE /\ operations_since_recalc = 0
  /\ cached = NoMean /\ returned = NoMean

\* clear_nans and clear_infs.
Targets == {{NaN}, {PosInf, NegInf}}

Distance(x, y) == IF x.val > y.val THEN x.val - y.val ELSE y.val - x.val
===============================================================================

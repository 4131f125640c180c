------------------------- MODULE MCOverwriteCircBuffer -------------------------
(***************************************************************************)
(* Instances of OverwriteCircBuffer for TLC: alone, under a view and its   *)
(* iterations, or beside the baseline.                                     *)
(***************************************************************************)
EXTENDS LiveView, ReferenceBuffer

CONSTANTS a, b

\* A view does not depend on what a write returns (bound): it looks at a buffer that
\* returns nothing and is not paired.
Viewed == policy = "never" /\ ~paired

AnyInit == ViewInit /\ PairInit

AnyNext ==
  \/ Viewed /\ ViewNext /\ UNCHANGED <<paired, refVars>>
  \/ ~Viewed /\ PairNext /\ UNCHANGED <<held, iter>>

AnySpec == AnyInit /\ [][AnyNext]_<<viewVars, paired, refVars>>
-------------------------------------------------------------------------------
\* Every slice with bounds up to two beyond the capacity and every step there is.
AllSlices ==
  LET bounds == (-(MaxLen + 2) .. MaxLen + 2) \cup {None}
      steps  == PySsize \ {0}
  IN [start : bounds, stop : bounds, step : steps]

\* The oldest item.
FirstSlice == {[start |-> None, stop |-> 1, step |-> 1]}

\* No items, a block that wraps, one of the capacity, and one that exceeds it.
MixedBlocks == {<<>>, <<a, b>>, <<b, b, a>>, <<a, b, b, a>>}

MixedTargets == {{}, {a}}
===============================================================================

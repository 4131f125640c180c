---------------------------- MODULE MCRunningStats ----------------------------
(***************************************************************************)
(* Instances of RunningStats for TLC.                                      *)
(***************************************************************************)
EXTENDS RunningStats

Squared == {"RunningMeanSqBuffer"}

\* An item whose square overflows.
LargeItems  == {Fin(1), Fin(9)}
LargeBlocks == {}
===============================================================================

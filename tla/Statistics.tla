------------------------------ MODULE Statistics ------------------------------
(***************************************************************************)
(* The three classes that keep statistics, one of them in each behaviour:  *)
(* RunningStats and GatedStats on the variables of their common base.      *)
(***************************************************************************)
EXTENDS RunningStats, GatedStats

ASSUME RoomAssumption == NothingOverflows /\ NoGateOverflows

IsGated == class = "IntegratedGatedBuffer"

StatsInit ==
  \/ Init /\ abs_gated_sum_sq_accum = Fin(0) /\ abs_gated_count_accum = 0
  \/ GatedInit /\ IsGated /\ is_extend_focused = FALSE /\ accum = Fin(0)

StatsNext ==
  \/ ~IsGated /\ Next /\ UNCHANGED gateVars
  \/ IsGated /\ GatedNext /\ UNCHANGED <<class, is_extend_focused, accum>>

StatsSpec == StatsInit /\ [][StatsNext]_<<vars, gateVars>>
-------------------------------------------------------------------------------
\* Type invariant of whichever class it is.
StatsTypeOK == IF IsGated THEN GatedTypeOK ELSE TypeOK

\* core.pyi, mean and mean_square: see MeanFollowsItems of RunningStats.
MeansFollowItems == ~IsGated => MeanFollowsItems

\* core.pyi, recalc_threshold: see DriftBounded of RunningStats.
MeansDriftBounded == ~IsGated => DriftBounded

\* The count of what passes the absolute gate: see GatedCountExact of GatedStats.
GatedCountsExact == IsGated => GatedCountExact

\* core.pyi, gated_mean_square: see GatedMeanFollowsItems of GatedStats.
GatedMeansFollowItems == IsGated => GatedMeanFollowsItems
===============================================================================

----------------------------- MODULE MCStatistics -----------------------------
(***************************************************************************)
(* Instances of Statistics for TLC.                                        *)
(***************************************************************************)
EXTENDS Statistics

BothClasses == {"RunningMeanBuffer", "RunningMeanSqBuffer"}

\* Zero, whose square leaves nothing to hide a drift behind, an item far from it,
\* NaN and both infinities.
MixedItems == {Fin(0), Fin(6), NaN, PosInf, NegInf}

\* A block that wraps, with the one that is not finite first or last, one of the
\* capacity and one beyond it.
MixedBlocks == {<<Fin(6), NaN>>, <<PosInf, Fin(0)>>, <<Fin(0), Fin(6), Fin(0)>>,
                <<Fin(6), Fin(0), NaN, Fin(6)>>}

\* Items below the absolute gate, between the gates and above both; NaN and infinity.
MixedGatedItems == {Fin(1), Fin(-2), Fin(4), NaN, PosInf}

MixedGatedBlocks == {<<Fin(4), NaN>>, <<PosInf, Fin(2)>>, <<Fin(2), Fin(4), Fin(1)>>,
                     <<Fin(4), Fin(1), NaN, Fin(2)>>}
===============================================================================

-------------------------- MODULE Statistics_proofs ---------------------------
(***************************************************************************)
(* The theorems about each class with statistics, put together for the     *)
(* three of them.                                                          *)
(***************************************************************************)
EXTENDS Statistics, RunningStats_proofs, GatedStats_proofs

\* No behaviour changes its class.
LEMMA ClassesApart == ASSUME class \in Classes PROVE ~IsGated
  BY StatsAssumption DEF IsGated

LEMMA StatsStep ==
  ASSUME [StatsNext]_<<vars, gateVars>>
  PROVE  /\ ~IsGated => [Next]_vars
         /\ IsGated => [GatedNext]_gatedVars /\ class' = class
  BY DEF StatsNext, vars, gatedVars, gatedAccVars

\* The invariants of both.
StatsInv == IF IsGated THEN GatedInv ELSE Inv

LEMMA StatsInitHolds == StatsInit => StatsInv
<1>1. Init => Inv /\ ~IsGated
  BY InitHolds, ClassesApart DEF Init
<1>2. GatedInit => GatedInv
  BY GatedInitHolds
<1> QED BY <1>1, <1>2 DEF StatsInit, StatsInv

LEMMA StatsStepHolds == StatsInv /\ [StatsNext]_<<vars, gateVars>> => StatsInv'
<1> SUFFICES ASSUME StatsInv, [StatsNext]_<<vars, gateVars>>
             PROVE  StatsInv'
  OBVIOUS
<1>1. CASE IsGated
  <2>1. GatedInv' /\ IsGated'
    BY <1>1, StatsStep, GatedStepHolds DEF StatsInv, IsGated
  <2> QED BY <2>1 DEF StatsInv
<1>2. CASE ~IsGated
  <2>1. Inv'
    BY <1>2, StatsStep, StepHolds DEF StatsInv
  <2>2. ~IsGated'
    BY <2>1, StatsAssumption DEF Inv, Configured, IsGated
  <2> QED BY <2>1, <2>2 DEF StatsInv
<1> QED BY <1>1, <1>2

\* Whichever class it is, the head and the size stay in range, accumulators and means stay
\* numbers, and accum_valid is only lost with an accumulator that is not finite.
THEOREM StatsTypeCorrect == StatsSpec => []StatsTypeOK
<1>1. StatsInv => StatsTypeOK
  <2>1. Inv => TypeOK
    BY DEF Inv, Cells, Accumulator, Configured, MeanOK, TypeOK
  <2>2. GatedInv => GatedTypeOK
    BY GatedInvImplies
  <2> QED BY <2>1, <2>2 DEF StatsInv, StatsTypeOK
<1> QED BY <1>1, StatsInitHolds, StatsStepHolds, PTL DEF StatsSpec

\* The sum behind a mean of squares is below zero by ABS_TOL at most, however far its
\* accumulator drifted: whatever else is returned was computed anew, and a sum of squares
\* computed anew is not negative.
THEOREM MeanSquareWithinTolerance == StatsSpec => []SquaresWithinTolerance
<1>1. StatsInv => SquaresWithinTolerance
  <2>1. Inv => SquaresWithinTolerance
    BY DEF Inv, MeanOK, Tolerated, SquaresWithinTolerance
  <2>2. IsGated => ~Squares
    BY DEF IsGated, Squares
  <2> QED BY <2>1, <2>2 DEF StatsInv, SquaresWithinTolerance
<1> QED BY <1>1, StatsInitHolds, StatsStepHolds, PTL DEF StatsSpec

\* The count that divides the gated sum is the number of items above the absolute gate
\* after every call, whatever came, left, was filtered or raised.
THEOREM GatedCountsStayExact == StatsSpec => []GatedCountsExact
<1>1. StatsInv => GatedCountsExact
  BY GatedInvImplies DEF StatsInv, GatedCountsExact
<1> QED BY <1>1, StatsInitHolds, StatsStepHolds, PTL DEF StatsSpec
-------------------------------------------------------------------------------
(* What is returned, where there is room for the sums.                     *)

StatsFollow(m, l) == IF IsGated THEN GatedFollows(m) ELSE Follows(l)

LEMMA StatsInitFollows ==
  ASSUME NEW m, GatedBounded(m), NEW l, Bounded(l), StatsInit
  PROVE  StatsFollow(m, l)
<1>1. Init => Follows(l) /\ ~IsGated
  BY InitFollows, ClassesApart DEF Init
<1>2. GatedInit => GatedFollows(m)
  BY GatedInitFollows
<1> QED BY <1>1, <1>2 DEF StatsInit, StatsFollow

LEMMA StatsStepFollows ==
  ASSUME NEW m, GatedBounded(m), NEW l, Bounded(l), StatsFollow(m, l),
         [StatsNext]_<<vars, gateVars>>
  PROVE  StatsFollow(m, l)'
<1>1. CASE IsGated
  <2>1. GatedFollows(m)' /\ IsGated'
    BY <1>1, StatsStep, GatedStepFollows DEF StatsFollow, IsGated
  <2> QED BY <2>1 DEF StatsFollow
<1>2. CASE ~IsGated
  <2>1. Follows(l)'
    BY <1>2, StatsStep, StepFollows DEF StatsFollow
  <2>2. ~IsGated'
    BY <2>1, StatsAssumption DEF Follows, Inv, Configured, IsGated
  <2> QED BY <2>1, <2>2 DEF StatsFollow
<1> QED BY <1>1, <1>2

LEMMA StatsFollowImplies ==
  ASSUME NEW m, NEW l, StatsFollow(m, l)
  PROVE  MeansFollowItems /\ MeansDriftBounded /\ GatedMeansFollowItems
<1>1. IsGated => GatedMeanFollowsItems
  BY GatedFollowsImplies DEF StatsFollow
<1>2. ~IsGated => MeanFollowsItems /\ DriftBounded
  BY FollowingMeans DEF StatsFollow
<1> QED BY <1>1, <1>2 DEF MeansFollowItems, MeansDriftBounded, GatedMeansFollowItems

LEMMA StatsAlwaysFollow ==
  StatsSpec => [](MeansFollowItems /\ MeansDriftBounded /\ GatedMeansFollowItems)
<1>1. PICK m \in 0 .. MaxFinite : GatedBounded(m)
  BY RoomAssumption, MaxFiniteAssumption DEF NoGateOverflows, GatedBounded
<1>2. PICK l \in 0 .. MaxFinite : Bounded(l)
  BY RoomAssumption, MaxFiniteAssumption DEF NothingOverflows, Bounded
<1>3. StatsInit => StatsFollow(m, l)
  BY <1>1, <1>2, StatsInitFollows
<1>4. StatsFollow(m, l) /\ [StatsNext]_<<vars, gateVars>> => StatsFollow(m, l)'
  BY <1>1, <1>2, StatsStepFollows
<1>5. StatsFollow(m, l) => MeansFollowItems /\ MeansDriftBounded /\ GatedMeansFollowItems
  BY StatsFollowImplies
<1> QED BY <1>3, <1>4, <1>5, PTL DEF StatsSpec

\* mean and mean_square return the mean of the items there are, with NaN and infinity as long
\* as they make it so, and otherwise off by no more than the writes since the last
\* recalculation have rounded away.
THEOREM MeansStayRight == StatsSpec => []MeansFollowItems
  BY StatsAlwaysFollow, PTL

\* No mean is off by more than N - 1 writes may have rounded away, where N is the threshold.
THEOREM DriftStaysBounded == StatsSpec => []MeansDriftBounded
  BY StatsAlwaysFollow, PTL

\* gated_mean_square returns the gated mean of the items there are.
THEOREM GatedMeansStayRight == StatsSpec => []GatedMeansFollowItems
  BY StatsAlwaysFollow, PTL
==================================================================================

-------------------------- MODULE RunningStats_proofs --------------------------
(***************************************************************************)
(* RunningMeanBuffer and RunningMeanSqBuffer keep their types and the sign *)
(* of a mean of squares for every capacity, threshold, rounding and range  *)
(* of the accumulator, and their mean follows the items, within the drift, *)
(* for every one of these in which no sum leaves the range.                *)
(***************************************************************************)
EXTENDS RunningStats, UtilityBuffer_proofs

\* A term is a number, and a squared one is not below zero.
LEMMA TermType ==
  ASSUME NEW x \in Number
  PROVE  Term(x) \in Number /\ (Squares => Term(x) \in NonNegative)
<1>1. CASE ~Squares
  BY <1>1 DEF Term
<1>2. CASE Squares /\ (x = NaN \/ x = PosInf \/ x = NegInf)
  BY <1>2 DEF Term, Square, IsNaN, IsInf, IsFinite, NaN, PosInf, NegInf, Number, NonNegative
<1>3. CASE Squares /\ IsFinite(x) /\ x.val \in -MaxFinite .. MaxFinite /\ x = Fin(x.val)
  <2> DEFINE v == x.val
             w == v * v
  <2>1. v \in Int
    BY <1>3, MaxFiniteAssumption
  <2>2. Term(x) = Rounded(w)
    BY <1>3 DEF Term, Square, IsNaN, IsInf, IsFinite
  <2>3. w \in Int /\ w >= 0
    <3> HIDE DEF v
    <3>1. v * v \in Int
      BY <2>1
    <3>2. v * v >= 0
      BY <2>1, Z3
    <3> QED BY <3>1, <3>2
  <2> HIDE DEF w
  <2> QED BY <2>2, <2>3, RoundedType DEF NonNegative
<1> QED BY <1>1, <1>2, <1>3, Kinds

\* sum_f and sum_squares_f of any cells.
LEMMA SumType ==
  ASSUME NEW b \in [Index -> Number], NEW head \in Index, NEW n \in 0 .. MaxLen
  PROVE  /\ SumFrom(b, head, n) \in Number
         /\ Squares => SumFrom(b, head, n) \in NonNegative
<1> DEFINE start == GetStartPos(head, n)
           terms(from, to) == [k \in 1 .. to - from |-> Term(b[from + k - 1])]
           S == IF Squares THEN NonNegative ELSE Number
<1>1. start \in Index
  BY StartPosType
<1>2. Fin(0) \in S /\ (\A x, y \in S : Plus(x, y) \in S) /\ \A x \in Number : Term(x) \in S
  BY Zero, PlusType, NonNegativeSums, TermType
<1>3. S \subseteq Number /\ (Squares => S = NonNegative)
  BY DEF NonNegative
<1> HIDE DEF S, start
<1>4. ASSUME NEW from \in Index, NEW to \in 0 .. MaxLen, from <= to
      PROVE  Total(terms(from, to)) \in S
  <2>1. \A k \in 1 .. to - from : from + k - 1 \in Index
    BY <1>4, MaxLenAssumption DEF Index
  <2>2. \A k \in 1 .. to - from : Term(b[from + k - 1]) \in S
    BY <1>2, <2>1
  <2>3. to - from \in Nat /\ terms(from, to) \in [1 .. to - from -> S]
    <3>1. to - from \in Nat
      BY <1>4, MaxLenAssumption DEF Index
    <3> QED BY <2>2, <3>1
  <2> HIDE DEF terms
  <2>4. terms(from, to) \in Seq(S)
    BY <2>3
  <2> QED BY <1>2, <2>4, TotalIn
<1>5. SumFrom(b, head, n) = IF start + n <= MaxLen THEN Total(terms(start, start + n))
                            ELSE Plus(Total(terms(start, MaxLen)),
                                      Total(terms(0, start + n - MaxLen)))
  BY DEF SumFrom, start
<1> HIDE DEF terms
<1>6. CASE start + n <= MaxLen
  <2>1. start + n \in 0 .. MaxLen /\ start <= start + n
    BY <1>1, <1>6 DEF Index
  <2>2. Total(terms(start, start + n)) \in S
    BY <1>1, <1>4, <2>1
  <2> QED BY <1>3, <1>5, <1>6, <2>2
<1>7. CASE ~(start + n <= MaxLen)
  <2>1. /\ start + n - MaxLen \in 0 .. MaxLen /\ MaxLen \in 0 .. MaxLen /\ 0 \in Index
        /\ start <= MaxLen /\ 0 <= start + n - MaxLen
    BY <1>1, <1>7, MaxLenAssumption DEF Index
  <2>2. Total(terms(start, MaxLen)) \in S
    BY <1>1, <1>4, <2>1
  <2>3. Total(terms(0, start + n - MaxLen)) \in S
    BY <1>4, <2>1
  <2> QED BY <1>2, <1>3, <1>5, <1>7, <2>2, <2>3
<1> QED BY <1>6, <1>7
-------------------------------------------------------------------------------
(* Every operation keeps the types, and a cached mean of squares in range. *)

Accumulator ==
  /\ accum \in Number /\ accum_valid \in BOOLEAN /\ operations_since_recalc \in 0 .. MaxOps
  /\ ~accum_valid => ~IsFinite(accum)

Configured == class \in Classes /\ is_extend_focused \in BOOLEAN /\ recalc_threshold \in Thresholds

MeanOK(mean) ==
  /\ mean.sum \in Number /\ mean.count \in 0 .. MaxLen
  /\ Squares => mean.sum \in Tolerated

Inv == Cells /\ Accumulator /\ Configured /\ MeanOK(cached) /\ MeanOK(returned)

LEMMA NothingYet == MeanOK(NoMean) /\ MeanOK(Mean(Fin(0), 1))
<1>1. NaN \in Number /\ NaN \in NonNegative /\ 0 \in 0 .. MaxLen /\ 1 \in 0 .. MaxLen
  BY MaxLenAssumption DEF Number, NonNegative, NaN, IsFinite
<1>2. NaN \in Tolerated /\ Fin(0) \in Tolerated
  BY <1>1, Zero, NonNegativeIsTolerated
<1> QED BY <1>1, <1>2, Zero DEF MeanOK, NoMean, Mean

LEMMA InitHolds == Init => Inv
<1> SUFFICES ASSUME Init PROVE Inv
  OBVIOUS
<1>1. Cells
  BY Zero, MaxLenAssumption DEF Init, InitUtility, InitRing, Cells, Index
<1>2. Accumulator
  BY Zero, UtilityAssumption DEF Init, InitUtility, Accumulator
<1>3. cached = NoMean /\ returned = NoMean /\ Configured
  BY DEF Init, InitUtility, Configured
<1> QED BY <1>1, <1>2, <1>3, NothingYet DEF Inv

LEMMA RecalculatedKeeps ==
  ASSUME Cells', Recalculated
  PROVE  Accumulator' /\ (Squares => accum' \in NonNegative)
<1>1. /\ buf' \in [Index -> Number] /\ write_head' \in Index /\ size' \in 0 .. MaxLen
  BY DEF Cells
<1>2. /\ accum' = SumFrom(buf', write_head', size')
      /\ accum_valid' = IsFinite(accum') /\ operations_since_recalc' = 0
  BY DEF Recalculated
<1>3. accum' \in Number /\ (Squares => accum' \in NonNegative)
  BY <1>1, <1>2, SumType
<1>4. 0 \in 0 .. MaxOps
  BY UtilityAssumption
<1> QED BY <1>2, <1>3, <1>4 DEF Accumulator, IsFinite

LEMMA AdjustKeeps ==
  ASSUME Inv, Cells', NEW n \in Nat, NEW added \in Number, NEW removed \in Number, NEW gone,
         Adjust(n, added, removed, gone)
  PROVE  Accumulator'
<1>1. CASE Recalculated
  BY <1>1, RecalculatedKeeps
<1>2. CASE /\ accum' \in Near(Plus(accum, Minus(added, removed)), Drift)
           /\ \/ operations_since_recalc' = operations_since_recalc + n
              \/ operations_since_recalc' = size' + n
           /\ operations_since_recalc' <= MaxOps
           /\ UNCHANGED accum_valid
  <2>1. accum \in Number /\ Minus(added, removed) \in Number
    BY NegativeType, PlusType DEF Inv, Accumulator, Minus
  <2>2. /\ Plus(accum, Minus(added, removed)) \in Number
        /\ IsFinite(Plus(accum, Minus(added, removed))) => IsFinite(accum)
    BY <2>1, PlusType
  <2>3. accum' \in Number /\ (~IsFinite(accum) => ~IsFinite(accum'))
    BY <1>2, <2>2, NearType
  <2>4. operations_since_recalc' \in 0 .. MaxOps
    <3>1. operations_since_recalc \in Nat /\ size' \in Nat /\ MaxOps \in Nat
      BY UtilityAssumption, MaxLenAssumption DEF Inv, Accumulator, Cells
    <3> QED BY <1>2, <3>1
  <2>5. ~accum_valid' => ~IsFinite(accum')
    BY <1>2, <2>3 DEF Inv, Accumulator
  <2> QED BY <1>2, <2>3, <2>4, <2>5 DEF Inv, Accumulator, IsFinite
<1> QED BY <1>1, <1>2 DEF Adjust

LEMMA MappedType ==
  ASSUME NEW s \in Seq(Number)
  PROVE  Total(Mapped(s, Term)) \in Number
<1>1. \A i \in 1 .. Len(s) : Term(s[i]) \in Number
  BY TermType
<1>2. [i \in 1 .. Len(s) |-> Term(s[i])] \in Seq(Number)
  BY <1>1
<1>3. Mapped(s, Term) \in Seq(Number)
  BY <1>2 DEF Mapped
<1> HIDE DEF Mapped
<1> QED BY <1>3, Zero, PlusType, TotalIn

\* A write that drops the cached mean.
LEMMA WriteKeeps ==
  ASSUME Inv, Cells', UNCHANGED config, Accumulator', cached' = NoMean, returned' = NoMean
  PROVE  Inv'
<1>1. Configured' /\ Squares' = Squares
  BY DEF Inv, Configured, config, Squares
<1> QED BY <1>1, NothingYet DEF Inv, MeanOK

\* With the extend focus, writes leave the accumulator alone.
LEMMA AccumulatorStays ==
  ASSUME Inv, UNCHANGED accVars
  PROVE  Accumulator'
  BY DEF Inv, Accumulator, accVars, IsFinite

LEMMA AppendKeeps ==
  ASSUME Inv, NEW x \in Number, Append1(x)
  PROVE  Inv'
<1>1. /\ buf \in [Index -> Number] /\ write_head \in Index /\ size \in 0 .. MaxLen
  BY DEF Inv, Cells
<1>2. Cells'
  <2>1. AppendAdvanceHead(write_head) \in Index
    BY <1>1, AdvanceHeadType, MaxLenAssumption
  <2>2. (IF size < MaxLen THEN size + 1 ELSE size) \in 0 .. MaxLen
    BY <1>1, MaxLenAssumption
  <2> QED BY <1>1, <2>1, <2>2 DEF Append1, Push, Cells
<1> DEFINE gone == IF size = MaxLen THEN <<buf[write_head]>> ELSE <<>>
<1>3. gone \in Seq(Number)
  BY <1>1
<1>4. UNCHANGED accVars \/ Adjust(1, Term(x), Total(Mapped(gone, Term)), gone)
  BY DEF Append1
<1>5. Term(x) \in Number /\ Total(Mapped(gone, Term)) \in Number
  BY <1>3, TermType, MappedType
<1> HIDE DEF gone
<1>6. Accumulator'
  BY <1>2, <1>4, <1>5, AccumulatorStays, AdjustKeeps
<1> QED BY <1>2, <1>6, WriteKeeps DEF Append1

LEMMA ExtendPartKeeps ==
  ASSUME Inv, NEW block \in Seq(Number), ExtendPart(block)
  PROVE  Inv'
<1> DEFINE n    == Len(block)
           k    == IF size + n > MaxLen THEN size + n - MaxLen ELSE 0
           gone == Oldest(k)
<1>1. /\ buf \in [Index -> Number] /\ write_head \in Index /\ size \in 0 .. MaxLen
      /\ n \in 1 .. MaxLen /\ n < MaxLen
  BY MaxLenAssumption DEF Inv, Cells, ExtendPart
<1>2. Cells'
  <2>1. /\ WriteData(buf, block, write_head) \in [Index -> Number]
        /\ ExtendAdvanceHead(write_head, n) \in Index
        /\ MinSz(MaxLen, size + n) \in 0 .. MaxLen
    BY <1>1, BlockType
  <2> QED BY <1>1, <2>1 DEF ExtendPart, PushPart, Cells
<1>3. gone \in Seq(Number)
  <2>1. k \in 0 .. MaxLen
    BY <1>1, MaxLenAssumption
  <2> HIDE DEF k
  <2> QED BY <1>1, <2>1, StartPosType, ReadDataType DEF Oldest
<1>4. UNCHANGED accVars
      \/ Adjust(n, Total(Mapped(block, Term)), Total(Mapped(gone, Term)), gone)
  BY DEF ExtendPart
<1> HIDE DEF gone
<1>5. Total(Mapped(block, Term)) \in Number /\ Total(Mapped(gone, Term)) \in Number
  BY <1>3, MappedType
<1>6. Accumulator'
  BY <1>1, <1>2, <1>4, <1>5, AccumulatorStays, AdjustKeeps
<1> QED BY <1>2, <1>6, WriteKeeps DEF ExtendPart

LEMMA ExtendWholeKeeps ==
  ASSUME Inv, NEW block \in Seq(Number), ExtendWhole(block)
  PROVE  Inv'
<1>1. Cells'
  <2>1. \A i \in Index : Len(block) - MaxLen + i + 1 \in 1 .. Len(block)
    BY MaxLenAssumption DEF ExtendWhole, Index
  <2>2. [i \in Index |-> block[Len(block) - MaxLen + i + 1]] \in [Index -> Number]
    BY <2>1
  <2>3. 0 \in Index /\ MaxLen \in 0 .. MaxLen
    BY MaxLenAssumption DEF Index
  <2> QED BY <2>2, <2>3 DEF ExtendWhole, PushWhole, Cells
<1>2. Accumulator'
  BY <1>1, AccumulatorStays, RecalculatedKeeps DEF ExtendWhole
<1> QED BY <1>1, <1>2, WriteKeeps DEF ExtendWhole

LEMMA RemoveKeeps ==
  ASSUME Inv, NEW target, RemoveItems(target)
  PROVE  Inv'
<1> DEFINE start == GetStartPos(write_head, size)
<1>1. PICK f \in KeptOrder(Window, target) :
        /\ buf' = WriteData(buf, [i \in 1 .. Len(f) |-> Window[f[i]]], start)
        /\ size' = Len([i \in 1 .. Len(f) |-> Window[f[i]]])
        /\ write_head' = ExtendAdvanceHead(start, Len([i \in 1 .. Len(f) |-> Window[f[i]]]))
  BY DEF RemoveItems, Filter
<1> DEFINE kept == [i \in 1 .. Len(f) |-> Window[f[i]]]
<1>2. buf \in [Index -> Number] /\ write_head \in Index /\ size \in 0 .. MaxLen
  BY DEF Inv, Cells
<1>3. Window \in Seq(Number) /\ Len(Window) = size
  <2>1. Window = Held(buf, write_head, size)
    BY DEF Window, Oldest, Held
  <2> QED BY <1>2, <2>1, HeldType
<1>4. kept \in Seq(Number) /\ Len(kept) \in 0 .. size
  BY <1>3, KeptItems
<1>5. buf' = WriteData(buf, kept, start) /\ size' = Len(kept)
      /\ write_head' = ExtendAdvanceHead(start, Len(kept))
  BY <1>1
<1> HIDE DEF kept
<1>6. Cells'
  <2>1. buf' \in [Index -> Number] /\ write_head' \in Index /\ size' \in 0 .. MaxLen
    BY <1>2, <1>4, <1>5, Compacts
  <2> QED BY <2>1 DEF Cells
<1>7. Accumulator'
  BY <1>6, RecalculatedKeeps DEF RemoveItems
<1> QED BY <1>6, <1>7, WriteKeeps DEF RemoveItems

\* mean and mean_square.
LEMMA GetMeanKeeps ==
  ASSUME Inv, GetMean
  PROVE  Inv'
<1>1. Cells' /\ Configured' /\ Squares' = Squares
  BY DEF GetMean, Inv, Cells, Configured, config, Squares
<1>2. returned' = cached'
  BY DEF GetMean
<1>3. size \in 0 .. MaxLen /\ MeanOK(cached) /\ accum \in Number
      /\ (~accum_valid => ~IsFinite(accum))
  BY DEF Inv, Cells, Accumulator
<1>4. CASE UNCHANGED <<cached, accVars>>
  <2>1. Accumulator'
    BY <1>4, AccumulatorStays
  <2> QED BY <1>1, <1>2, <1>3, <1>4, <2>1 DEF Inv, MeanOK
<1>5. CASE UNCHANGED accVars /\ cached' = Mean(Fin(0), 1)
  <2>1. Accumulator'
    BY <1>5, AccumulatorStays
  <2> QED BY <1>1, <1>2, <1>5, <2>1, NothingYet DEF Inv, MeanOK
<1>6. CASE UNCHANGED accVars /\ cached' = Mean(SumF, size)
  <2>1. Accumulator'
    BY <1>6, AccumulatorStays
  <2>2. SumF \in Number /\ (Squares => SumF \in Tolerated)
    BY SumType, NonNegativeIsTolerated DEF SumF, Inv, Cells
  <2> HIDE DEF SumF
  <2> QED BY <1>1, <1>2, <1>3, <1>6, <2>1, <2>2 DEF Inv, MeanOK, Mean
<1>7. CASE /\ IF ShouldRecalc THEN Recalculated ELSE UNCHANGED accVars
           /\ cached' = Mean(accum', size)
  <2>1. Accumulator'
    BY <1>1, <1>7, AccumulatorStays, RecalculatedKeeps
  <2>2. accum' \in Number /\ (Squares => accum' \in Tolerated)
    <3>1. CASE ShouldRecalc
      <4>1. accum' \in Number /\ (Squares => accum' \in NonNegative)
        BY <1>1, <1>7, <2>1, <3>1, RecalculatedKeeps DEF Accumulator
      <4> QED BY <4>1, NonNegativeIsTolerated
    <3>2. CASE ~ShouldRecalc
      <4>1. accum' = accum
        BY <1>7, <3>2 DEF accVars
      <4>2. Squares => (IsFinite(accum) => accum.val >= -AbsTol)
        <5>1. IsFinite(accum) => accum_valid
          BY <1>3
        <5>2. IsFinite(accum) => accum.val \in Int
          BY <1>3, Kinds, MaxFiniteAssumption DEF IsFinite, NaN, PosInf, NegInf
        <5> QED BY <3>2, <5>1, <5>2, UtilityAssumption DEF ShouldRecalc
      <4> QED BY <1>3, <4>1, <4>2 DEF Tolerated
    <3> QED BY <3>1, <3>2
  <2> QED BY <1>1, <1>2, <1>3, <1>7, <2>1, <2>2 DEF Inv, MeanOK, Mean
<1> QED BY <1>4, <1>5, <1>6, <1>7 DEF GetMean

LEMMA StepHolds == Inv /\ [Next]_vars => Inv'
<1> SUFFICES ASSUME Inv, [Next]_vars PROVE Inv'
  OBVIOUS
<1>1. ASSUME NEW x \in Items, Append1(x)
      PROVE  Inv'
  BY <1>1, AppendKeeps, StatsAssumption
<1>2. ASSUME NEW block \in Blocks, ExtendWhole(block)
      PROVE  Inv'
  BY <1>2, ExtendWholeKeeps, StatsAssumption
<1>3. ASSUME NEW block \in Blocks, ExtendPart(block)
      PROVE  Inv'
  BY <1>3, ExtendPartKeeps, StatsAssumption
<1>4. ASSUME NEW block \in Blocks, ExtendRaises(block)
      PROVE  Inv'
  BY <1>4, AccumulatorStays, WriteKeeps DEF ExtendRaises, Inv, Cells
<1>5. CASE GetMean
  BY <1>5, GetMeanKeeps
<1>6. CASE Clear
  <2>1. Cells'
    BY <1>6, MaxLenAssumption DEF Clear, Reset, Inv, Cells, Index
  <2>2. Accumulator'
    BY <1>6, Zero, UtilityAssumption DEF Clear, Accumulator
  <2> QED BY <1>6, <2>1, <2>2, WriteKeeps DEF Clear
<1>7. CASE ClearCache
  BY <1>7, AccumulatorStays, WriteKeeps DEF ClearCache, Inv, Cells
<1>8. CASE Recalculate
  <2>1. Cells'
    BY <1>8 DEF Recalculate, Inv, Cells
  <2> QED BY <1>8, <2>1, RecalculatedKeeps, WriteKeeps DEF Recalculate
<1>9. ASSUME NEW target \in Targets, RemoveItems(target)
      PROVE  Inv'
  BY <1>9, RemoveKeeps
<1>10. CASE UNCHANGED vars
  BY <1>10 DEF vars, Inv, Cells, Accumulator, Configured, MeanOK, Squares, IsFinite
<1> QED BY <1>1, <1>2, <1>3, <1>4, <1>5, <1>6, <1>7, <1>8, <1>9, <1>10 DEF Next

\* The head and the size stay in range, the accumulator and the mean stay numbers, with
\* NaN, infinities and overflow, and accum_valid is only lost with an accumulator that is
\* not finite: a mean that trusts the flag never trusts a spoilt accumulator.
THEOREM TypeCorrect == Spec => []TypeOK
<1>1. Inv => TypeOK
  BY DEF Inv, Cells, Accumulator, Configured, MeanOK, TypeOK
<1> QED BY <1>1, InitHolds, StepHolds, PTL DEF Spec

\* The sum behind a mean of squares is below zero by ABS_TOL at most, however far its
\* accumulator drifted.
THEOREM MeanSquareStaysWithinTolerance == Spec => []SquaresWithinTolerance
<1>1. Inv => SquaresWithinTolerance
  BY DEF Inv, MeanOK, Tolerated, SquaresWithinTolerance
<1> QED BY <1>1, InitHolds, StepHolds, PTL DEF Spec
-------------------------------------------------------------------------------
(* Sums of terms.                                                          *)

TermSum(s) == Total(Mapped(s, Term))

LEMMA TermWithin ==
  ASSUME class \in Classes, NEW m \in Nat, m <= MaxFinite, NEW x \in Fit(m)
  PROVE  Term(x) \in Within(m) /\ (IsFinite(Term(x)) <=> IsFinite(x))
<1>1. x \in Number
  BY DEF Fit
<1>2. CASE x = NaN \/ x = PosInf \/ x = NegInf
  BY <1>2 DEF Term, Square, IsNaN, IsInf, IsFinite, NaN, PosInf, NegInf, Number, Within
<1>3. CASE IsFinite(x) /\ x.val \in -MaxFinite .. MaxFinite /\ x = Fin(x.val)
  <2> DEFINE v == x.val
             w == v * v
  <2>1. v \in Int /\ v \in -m .. m /\ (Squares => w <= m)
    BY <1>3, MaxFiniteAssumption DEF Fit, Squares
  <2>2. w \in Int /\ w >= 0
    <3> HIDE DEF v
    <3>1. v * v \in Int /\ v * v >= 0
      BY <2>1, Z3
    <3> QED BY <3>1
  <2>3. Squares => Term(x) = Rounded(w)
    BY <1>3 DEF Term, Square, IsNaN, IsInf, IsFinite
  <2>4. ~Squares => Term(x) = x
    BY DEF Term
  <2> HIDE DEF w
  <2>5. Squares => Rounded(w) = Fin(w) /\ w \in -m .. m /\ w \in -MaxFinite .. MaxFinite
    BY <2>1, <2>2, MaxFiniteAssumption DEF Rounded
  <2>6. Squares => Fin(w) \in Within(m) /\ IsFinite(Fin(w))
    BY <2>5 DEF Within, Fin, IsFinite, Number
  <2>7. x \in Within(m)
    BY <1>1, <2>1 DEF Within
  <2> QED BY <1>3, <2>3, <2>4, <2>5, <2>6, <2>7
<1> QED BY <1>1, <1>2, <1>3, Kinds

LEMMA MappedWithin ==
  ASSUME class \in Classes, NEW m \in Nat, m <= MaxFinite, NEW s \in Seq(Fit(m))
  PROVE  Mapped(s, Term) \in Seq(Within(m)) /\ Len(Mapped(s, Term)) = Len(s)
<1> DEFINE t == [i \in 1 .. Len(s) |-> Term(s[i])]
<1>1. \A i \in 1 .. Len(s) : Term(s[i]) \in Within(m)
  BY TermWithin
<1>2. t \in [1 .. Len(s) -> Within(m)] /\ Len(s) \in Nat
  BY <1>1
<1>3. Mapped(s, Term) = t
  BY DEF Mapped
<1> HIDE DEF t
<1>4. t \in Seq(Within(m)) /\ Len(t) = Len(s)
  BY <1>2, FunctionIsSeq
<1> QED BY <1>3, <1>4

LEMMA MappedItem ==
  ASSUME class \in Classes, NEW m \in Nat, m <= MaxFinite, NEW s \in Seq(Fit(m)), NEW i \in 1 .. Len(s)
  PROVE  /\ Mapped(s, Term)[i] = Term(s[i])
         /\ IsFinite(Mapped(s, Term)[i]) <=> IsFinite(s[i])
<1>1. Mapped(s, Term)[i] = Term(s[i])
  BY DEF Mapped
<1> QED BY <1>1, TermWithin

LEMMA TermSumWithin ==
  ASSUME class \in Classes, NEW m \in Nat, m <= MaxFinite, NEW s \in Seq(Fit(m)), Room(Len(s), m)
  PROVE  /\ TermSum(s) \in Sums(Len(s), m)
         /\ IsFinite(TermSum(s)) <=> AllFinite(s, Len(s))
<1> DEFINE t == Mapped(s, Term)
<1>1. t \in Seq(Within(m)) /\ Len(t) = Len(s) /\ TermSum(s) = Total(t)
  BY MappedWithin DEF TermSum
<1>2. AllFinite(t, Len(t)) <=> AllFinite(s, Len(s))
  <2>1. \A i \in 1 .. Len(s) : IsFinite(t[i]) <=> IsFinite(s[i])
    BY MappedItem
  <2> HIDE DEF t
  <2> QED BY <1>1, <2>1 DEF AllFinite
<1> HIDE DEF t
<1>3. /\ Total(t) \in Sums(Len(t), m)
      /\ IsFinite(Total(t)) <=> AllFinite(t, Len(t))
  BY <1>1, TotalWithin
<1> QED BY <1>1, <1>2, <1>3

LEMMA TermSumOne ==
  ASSUME NEW x \in Number
  PROVE  TermSum(<<x>>) = Term(x)
<1> DEFINE t == Mapped(<<x>>, Term)
<1>1. Len(t) = 1 /\ t[1] = Term(x)
  BY DEF Mapped
<1> HIDE DEF t
<1>2. PICK f : Total(t) = f[1] /\ SumLoop(t, f, 1)
  <2>1. Len(t) \in Nat
    BY <1>1
  <2>2. PICK f : Total(t) = f[Len(t)] /\ SumLoop(t, f, Len(t))
    BY <2>1, TotalLoops, Zenon
  <2> QED BY <1>1, <2>2
<1>3. \A k \in 0 .. 1 : f[k] = IF k = 0 THEN Fin(0) ELSE Plus(f[k - 1], t[k])
  BY <1>2 DEF SumLoop
<1>4. f[0] = Fin(0) /\ f[1] = Plus(f[0], t[1])
  BY <1>3
<1> QED BY <1>1, <1>2, <1>4, TermType, PlusZero DEF TermSum, t

LEMMA TermSumNone == TermSum(<<>>) = Fin(0)
<1> DEFINE t == Mapped(<<>>, Term)
<1>1. Len(t) = 0
  BY DEF Mapped
<1> HIDE DEF t
<1>2. PICK f : Total(t) = f[0] /\ SumLoop(t, f, 0)
  <2>1. Len(t) \in Nat
    BY <1>1
  <2>2. PICK f : Total(t) = f[Len(t)] /\ SumLoop(t, f, Len(t))
    BY <2>1, TotalLoops, Zenon
  <2> QED BY <1>1, <2>2
<1>3. f[0] = Fin(0)
  BY <1>2 DEF SumLoop
<1> QED BY <1>2, <1>3 DEF TermSum, t

LEMMA TermSumConcat ==
  ASSUME class \in Classes, NEW m \in Nat, m <= MaxFinite, NEW s \in Seq(Fit(m)), NEW t \in Seq(Fit(m)),
         Room(Len(s) + Len(t), m)
  PROVE  TermSum(s \o t) = Plus(TermSum(s), TermSum(t))
<1> DEFINE u == s \o t
           p == Mapped(s, Term)
           q == Mapped(t, Term)
           r == Mapped(u, Term)
<1>1. /\ u \in Seq(Fit(m)) /\ Len(u) = Len(s) + Len(t)
      /\ \A i \in 1 .. Len(u) : u[i] = IF i <= Len(s) THEN s[i] ELSE t[i - Len(s)]
  OBVIOUS
<1> HIDE DEF u
<1>2. p \in Seq(Within(m)) /\ Len(p) = Len(s)
      /\ \A i \in 1 .. Len(s) : p[i] = Term(s[i])
  <2>1. p \in Seq(Within(m)) /\ Len(p) = Len(s)
    BY MappedWithin
  <2>2. \A i \in 1 .. Len(s) : p[i] = Term(s[i])
    BY MappedItem
  <2> QED BY <2>1, <2>2
<1>3. q \in Seq(Within(m)) /\ Len(q) = Len(t)
      /\ \A i \in 1 .. Len(t) : q[i] = Term(t[i])
  <2>1. q \in Seq(Within(m)) /\ Len(q) = Len(t)
    BY MappedWithin
  <2>2. \A i \in 1 .. Len(t) : q[i] = Term(t[i])
    BY MappedItem
  <2> QED BY <2>1, <2>2
<1>4. r \in Seq(Within(m)) /\ Len(r) = Len(u)
      /\ \A i \in 1 .. Len(u) : r[i] = Term(u[i])
  <2>1. r \in Seq(Within(m)) /\ Len(r) = Len(u)
    BY <1>1, MappedWithin
  <2>2. \A i \in 1 .. Len(u) : r[i] = Term(u[i])
    BY <1>1, MappedItem
  <2> QED BY <2>1, <2>2
<1> HIDE DEF p, q, r
<1>5. Len(r) = Len(p) + Len(q) /\ Room(Len(r), m)
  BY <1>1, <1>2, <1>3, <1>4
<1>6. \A i \in 1 .. Len(p) : r[i] = p[i]
  BY <1>1, <1>2, <1>4
<1>7. ASSUME NEW i \in 1 .. Len(q)
      PROVE  r[Len(p) + i] = q[i]
  <2>1. /\ Len(s) + i \in 1 .. Len(u) /\ ~(Len(s) + i <= Len(s))
        /\ (Len(s) + i) - Len(s) = i /\ i \in 1 .. Len(t)
    BY <1>1, <1>3
  <2>2. u[Len(s) + i] = t[i]
    BY <1>1, <2>1
  <2> QED BY <1>2, <1>3, <1>4, <2>1, <2>2
<1>8. Total(r) = Plus(Total(p), Total(q))
  BY <1>2, <1>3, <1>4, <1>5, <1>6, <1>7, TotalSplit
<1> QED BY <1>8 DEF TermSum, p, q, r, u

\* sum_f and sum_squares_f sum the items that are held, wherever the seam is.
LEMMA SumHeld ==
  ASSUME class \in Classes, NEW m \in Nat, m <= MaxFinite, Room(MaxLen, m),
         NEW b \in [Index -> Fit(m)], NEW head \in Index, NEW n \in 0 .. MaxLen
  PROVE  SumFrom(b, head, n) = TermSum(Held(b, head, n))
<1> DEFINE start == GetStartPos(head, n)
           held  == Held(b, head, n)
           t     == Mapped(held, Term)
           terms(from, to) == [k \in 1 .. to - from |-> Term(b[from + k - 1])]
<1>1. start \in Index
  BY StartPosType
<1>2. held \in Seq(Fit(m)) /\ Len(held) = n
  BY HeldType
<1>3. ASSUME NEW i \in 1 .. n
      PROVE  held[i] = b[At(start, i - 1)]
  BY HeldAt
<1> HIDE DEF start, held
<1>4. t \in Seq(Within(m)) /\ Len(t) = n
  BY <1>2, MappedWithin
<1>5. ASSUME NEW i \in 1 .. n
      PROVE  t[i] = Term(b[At(start, i - 1)])
  <2>1. t[i] = Term(held[i])
    BY <1>2, MappedItem
  <2> QED BY <1>3, <2>1
<1> HIDE DEF t
<1>6. ASSUME NEW from \in Index, NEW to \in 0 .. MaxLen, from <= to
      PROVE  /\ terms(from, to) \in Seq(Within(m)) /\ Len(terms(from, to)) = to - from
             /\ \A k \in 1 .. to - from : terms(from, to)[k] = Term(b[from + k - 1])
  <2>1. \A k \in 1 .. to - from : from + k - 1 \in Index
    BY <1>6, MaxLenAssumption DEF Index
  <2>2. \A k \in 1 .. to - from : Term(b[from + k - 1]) \in Within(m)
    BY <2>1, TermWithin
  <2>3. to - from \in Nat /\ terms(from, to) \in [1 .. to - from -> Within(m)]
    <3>1. to - from \in Nat
      BY <1>6, MaxLenAssumption DEF Index
    <3> QED BY <2>2, <3>1
  <2>4. \A k \in 1 .. to - from : terms(from, to)[k] = Term(b[from + k - 1])
    OBVIOUS
  <2> HIDE DEF terms
  <2> QED BY <2>3, <2>4, FunctionIsSeq
<1>7. SumFrom(b, head, n) = IF start + n <= MaxLen THEN Total(terms(start, start + n))
                            ELSE Plus(Total(terms(start, MaxLen)),
                                      Total(terms(0, start + n - MaxLen)))
  BY DEF SumFrom, start
<1> HIDE DEF terms
<1>8. CASE start + n <= MaxLen
  <2> DEFINE p == terms(start, start + n)
  <2>1. start + n \in 0 .. MaxLen /\ start <= start + n /\ (start + n) - start = n
    BY <1>1, <1>8, MaxLenAssumption DEF Index
  <2>2. p \in Seq(Within(m)) /\ Len(p) = n
        /\ \A k \in 1 .. n : p[k] = Term(b[start + k - 1])
    BY <1>1, <1>6, <2>1
  <2> HIDE DEF p
  <2>3. \A i \in 1 .. n : At(start, i - 1) = start + i - 1
    BY <1>1, <1>8, MaxLenAssumption DEF At, Index
  <2>4. \A i \in 1 .. Len(t) : t[i] = p[i]
    BY <1>4, <1>5, <2>2, <2>3
  <2>5. t = p
    BY <1>4, <2>2, <2>4, SameItems
  <2> QED BY <1>7, <1>8, <2>5 DEF p, TermSum, t, held
<1>9. CASE ~(start + n <= MaxLen)
  <2> DEFINE p == terms(start, MaxLen)
             q == terms(0, start + n - MaxLen)
             j == MaxLen - start
             k == start + n - MaxLen
  <2>1. /\ k \in 0 .. MaxLen /\ MaxLen \in 0 .. MaxLen /\ 0 \in Index /\ j \in Nat
        /\ start <= MaxLen /\ 0 <= k /\ k - 0 = k /\ j + k = n
    BY <1>1, <1>9, MaxLenAssumption DEF Index
  <2>2. /\ p \in Seq(Within(m)) /\ Len(p) = j
        /\ \A i \in 1 .. j : p[i] = Term(b[start + i - 1])
    BY <1>1, <1>6, <2>1
  <2>3. /\ q \in Seq(Within(m)) /\ Len(q) = k
        /\ \A i \in 1 .. k : q[i] = Term(b[0 + i - 1])
    BY <1>6, <2>1, SMTT(30)
  <2> HIDE DEF p, q
  <2>4. ASSUME NEW i \in 1 .. n
        PROVE  At(start, i - 1) = IF i <= j THEN start + i - 1 ELSE 0 + (i - j) - 1
    BY <1>1, <1>9, MaxLenAssumption DEF At, Index
  <2>5. \A i \in 1 .. n : i <= j \/ i - j \in 1 .. k
    BY <2>1
  <2>6. \A i \in 1 .. n : i <= j => i \in 1 .. j
    BY <2>1
  <2> HIDE DEF j, k
  <2>7. p \o q \in Seq(Within(m)) /\ Len(p \o q) = n
        /\ \A i \in 1 .. n : (p \o q)[i] = IF i <= j THEN p[i] ELSE q[i - j]
    <3>1. p \in Seq(Within(m)) /\ q \in Seq(Within(m))
      BY <2>2, <2>3
    <3>2. p \o q \in Seq(Within(m)) /\ Len(p \o q) = Len(p) + Len(q)
          /\ \A i \in 1 .. Len(p) + Len(q) :
               (p \o q)[i] = IF i <= Len(p) THEN p[i] ELSE q[i - Len(p)]
      BY <3>1
    <3> QED BY <2>1, <2>2, <2>3, <3>2, Zenon
  <2>8. ASSUME NEW i \in 1 .. n
        PROVE  t[i] = (p \o q)[i]
    <3>1. CASE i <= j
      <4>1. t[i] = Term(b[start + i - 1])
        BY <1>5, <2>4, <3>1
      <4>2. (p \o q)[i] = p[i] /\ p[i] = Term(b[start + i - 1])
        BY <2>2, <2>6, <2>7, <3>1
      <4> QED BY <4>1, <4>2
    <3>2. CASE ~(i <= j)
      <4>1. t[i] = Term(b[0 + (i - j) - 1])
        BY <1>5, <2>4, <3>2
      <4>2. (p \o q)[i] = q[i - j] /\ q[i - j] = Term(b[0 + (i - j) - 1])
        BY <2>3, <2>5, <2>7, <3>2
      <4> QED BY <4>1, <4>2
    <3> QED BY <3>1, <3>2
  <2>9. t = p \o q
    BY <1>4, <2>7, <2>8, SameItems
  <2>10. Room(Len(p) + Len(q), m)
    <3>1. n \in Nat /\ n <= MaxLen /\ MaxLen \in Nat
      BY MaxLenAssumption
    <3>2. Room(n, m)
      BY <3>1, RoomForLess
    <3> QED BY <2>1, <2>2, <2>3, <3>2
  <2>11. Total(p \o q) = Plus(Total(p), Total(q))
    BY <2>2, <2>3, <2>10, TotalConcat
  <2> QED BY <1>7, <1>9, <2>9, <2>11 DEF p, q, k, TermSum, t, held
<1> QED BY <1>8, <1>9
-------------------------------------------------------------------------------
(* The mean follows the items.                                             *)

\* A mean of n items that come to sum, off by at most error.
Right(mean, sum, n, error) ==
  mean # NoMean =>
    IF n = 0 THEN mean = Mean(Fin(0), 1)
    ELSE /\ mean.count = n
         /\ IF IsFinite(sum)
            THEN IsFinite(mean.sum) /\ Distance(mean.sum, sum) <= error
            ELSE mean.sum = sum

Error == IF is_extend_focused THEN 0 ELSE Drift * operations_since_recalc

AccumulatorSound ==
  ~is_extend_focused => Sound(accum, accum_valid, operations_since_recalc, SumF, size)

BelowThreshold == recalc_threshold # 0 => operations_since_recalc < recalc_threshold

MeansRight == Right(cached, SumF, size, Error) /\ Right(returned, SumF, size, Error)

Follows(m) ==
  /\ Inv
  /\ buf \in [Index -> Fit(m)]
  /\ BelowThreshold /\ AccumulatorSound /\ MeansRight

\* The bound on the terms leaves room for two windows.
Bounded(m) ==
  /\ m \in Nat /\ 2 * (MaxLen * m) <= MaxFinite
  /\ \A x \in Items : x \in Fit(m)
  /\ \A block \in Blocks : block \in Seq(Fit(m))

LEMMA BoundedRoom ==
  ASSUME NEW m, Bounded(m)
  PROVE  /\ m \in Nat /\ m <= MaxFinite /\ Room(MaxLen, m) /\ Room(2 * MaxLen, m)
         /\ Fin(0) \in Fit(m)
<1>1. m \in Nat /\ 2 * (MaxLen * m) <= MaxFinite /\ MaxLen \in Nat /\ 1 <= MaxLen
      /\ MaxFinite \in Nat
  BY MaxLenAssumption, MaxFiniteAssumption DEF Bounded
<1>2. 1 * m <= MaxLen * m /\ 0 * m <= MaxLen * m
  BY <1>1, LargerProduct
<1> DEFINE p == MaxLen * m
<1>3. p \in Int /\ m <= p /\ 0 <= p /\ 2 * p <= MaxFinite /\ (2 * MaxLen) * m = 2 * p
  BY <1>1, <1>2
<1> HIDE DEF p
<1>4. m <= MaxFinite /\ p <= MaxFinite
  BY <1>1, <1>3
<1>5. Room(MaxLen, m) /\ Room(2 * MaxLen, m)
  BY <1>3, <1>4 DEF Room, p
<1>6. Fin(0).val = 0 /\ 0 \in -m .. m /\ 0 * 0 <= m
  BY <1>1 DEF Fin
<1> QED BY <1>1, <1>4, <1>5, <1>6, Zero DEF Fit

\* The sum of what is held after a step.
LEMMA SumAfter ==
  ASSUME class' = class
  PROVE  SumF' = SumFrom(buf', write_head', size')
  BY DEF SumF, SumFrom, Term, Squares

LEMMA SumStays ==
  ASSUME UNCHANGED <<buf, write_head, size, class>>
  PROVE  SumF' = SumF
<1>1. SumF' = SumFrom(buf', write_head', size')
  BY SumAfter
<1> QED BY <1>1 DEF SumF

\* A sum computed anew is the sum.
LEMMA RecalculatedSound ==
  ASSUME Cells', Recalculated, class' = class, UNCHANGED recalc_threshold,
         recalc_threshold \in Nat
  PROVE  AccumulatorSound' /\ BelowThreshold' /\ accum' = SumF' /\ operations_since_recalc' = 0
<1>1. /\ accum' = SumFrom(buf', write_head', size')
      /\ accum_valid' = IsFinite(accum') /\ operations_since_recalc' = 0
  BY DEF Recalculated
<1>2. accum' = SumF' /\ SumF' \in Number
  BY <1>1, SumAfter, SumType DEF Cells
<1>3. Sound(accum', accum_valid', operations_since_recalc', SumF', size')
  BY <1>1, <1>2, RecountSound
<1>4. AccumulatorSound'
  BY <1>3 DEF AccumulatorSound, Sound, IsFinite, Distance
<1> QED BY <1>1, <1>2, <1>4 DEF BelowThreshold

\* What a block of at most the capacity does to the items and their sum.
LEMMA BlockSums ==
  ASSUME NEW m, Bounded(m), class \in Classes, UNCHANGED class,
         buf \in [Index -> Fit(m)], write_head \in Index, size \in 0 .. MaxLen,
         NEW block \in Seq(Fit(m)), Len(block) \in 1 .. MaxLen,
         buf' = WriteData(buf, block, write_head),
         write_head' = ExtendAdvanceHead(write_head, Len(block)),
         size' = MinSz(MaxLen, size + Len(block))
  PROVE  LET gone == Oldest(size + Len(block) - size')
             p    == MaxLen * m
         IN  /\ buf' \in [Index -> Fit(m)] /\ write_head' \in Index /\ size' \in 0 .. MaxLen
             /\ gone \in Seq(Fit(m))
             /\ IsFinite(TermSum(gone)) <=> AllFinite(gone, Len(gone))
             /\ p \in Nat /\ 2 * p <= MaxFinite
             /\ TermSum(gone) \in Within(p) /\ TermSum(block) \in Within(p)
             /\ SumF \in Within(p) /\ SumF' \in Within(p)
             /\ Plus(TermSum(gone), SumF') = Plus(SumF, TermSum(block))
<1> DEFINE n     == MinSz(MaxLen, size + Len(block))
           k     == size + Len(block) - n
           gone  == ReadData(buf, GetStartPos(write_head, size), k)
           after == Held(WriteData(buf, block, write_head),
                         ExtendAdvanceHead(write_head, Len(block)), n)
           held  == Held(buf, write_head, size)
           p     == MaxLen * m
<1>1. /\ m \in Nat /\ m <= MaxFinite /\ Room(MaxLen, m) /\ Room(2 * MaxLen, m)
      /\ MaxLen \in Nat
  BY BoundedRoom, MaxLenAssumption
<1>2. buf' \in [Index -> Fit(m)] /\ write_head' \in Index /\ size' \in 0 .. MaxLen
  BY BlockType
<1>3. Oldest(size + Len(block) - size') = gone
  BY DEF Oldest
<1>4. /\ k \in 0 .. size /\ Len(gone) = k /\ Len(after) = n
      /\ Slides(Fit(m), gone, after, held, block)
  BY ComingAndGoing
<1>5. SumF = TermSum(held)
  BY <1>1, SumHeld DEF SumF
<1>6. SumF' = TermSum(after)
  <2>1. SumF' = SumFrom(buf', write_head', size')
    BY SumAfter
  <2>2. SumFrom(buf', write_head', size') = TermSum(Held(buf', write_head', size'))
    BY <1>1, <1>2, SumHeld
  <2>3. Held(buf', write_head', size') = after
    OBVIOUS
  <2> HIDE DEF after
  <2> QED BY <2>1, <2>2, <2>3
<1>7. held \in Seq(Fit(m)) /\ Len(held) = size
  BY HeldType
<1>8. n \in 0 .. MaxLen
  BY MaxLenAssumption DEF MinSz
<1>9. size' = n
  OBVIOUS
<1> HIDE DEF gone, after, held, n, k
<1>10. /\ gone \in Seq(Fit(m)) /\ after \in Seq(Fit(m))
       /\ gone \o after = held \o block
  BY <1>4 DEF Slides
<1>11. ASSUME NEW s \in Seq(Fit(m)), Len(s) \in 0 .. MaxLen
       PROVE  TermSum(s) \in Within(p) /\ (IsFinite(TermSum(s)) <=> AllFinite(s, Len(s)))
  <2>1. PICK l \in Nat : l = Len(s) /\ l <= MaxLen
    BY <1>11
  <2>2. l * m \in Nat /\ Room(l, m) /\ MaxLen * m \in Nat
    BY <1>1, <2>1, RoomForLess
  <2>3. TermSum(s) \in Sums(l, m) /\ (IsFinite(TermSum(s)) <=> AllFinite(s, Len(s)))
    BY <1>1, <2>1, <2>2, TermSumWithin
  <2>4. l * m <= MaxLen * m
    <3>1. l \in Int /\ MaxLen \in Int /\ m \in Nat /\ l <= MaxLen
      BY <1>1, <2>1
    <3> QED BY <3>1, LargerProduct, Zenon
  <2> DEFINE q == l * m
  <2>5. TermSum(s) \in Within(q) /\ q \in Nat /\ p \in Nat /\ q <= p
    BY <2>2, <2>3, <2>4 DEF Sums
  <2> HIDE DEF p, q
  <2>6. TermSum(s) \in Within(p)
    BY <2>5, MoreWithin
  <2> QED BY <2>3, <2>6
<1>12. Plus(TermSum(gone), TermSum(after)) = Plus(TermSum(held), TermSum(block))
  <2>1. Room(Len(gone) + Len(after), m) /\ Room(Len(held) + Len(block), m)
    <3>1. k + n \in Nat /\ k + n <= 2 * MaxLen /\ 2 * MaxLen \in Nat
      BY <1>1, <1>4, <1>8
    <3>2. size + Len(block) \in Nat /\ size + Len(block) <= 2 * MaxLen
      BY <1>1
    <3>3. Room(k + n, m)
      BY <1>1, <3>1, RoomForLess
    <3>4. Room(size + Len(block), m)
      BY <1>1, <3>1, <3>2, RoomForLess
    <3> QED BY <1>4, <1>7, <3>3, <3>4
  <2>2. TermSum(gone \o after) = Plus(TermSum(gone), TermSum(after))
    BY <1>1, <1>10, <2>1, TermSumConcat
  <2>3. TermSum(held \o block) = Plus(TermSum(held), TermSum(block))
    BY <1>1, <1>7, <2>1, TermSumConcat
  <2> QED BY <1>10, <2>2, <2>3
<1>13. p \in Nat /\ 2 * p <= MaxFinite
  BY <1>1 DEF Bounded
<1>14. Len(gone) \in 0 .. MaxLen /\ Len(after) \in 0 .. MaxLen /\ Len(held) \in 0 .. MaxLen
       /\ Len(block) \in 0 .. MaxLen
  BY <1>1, <1>4, <1>7, <1>8
<1>15. /\ TermSum(gone) \in Within(p) /\ TermSum(block) \in Within(p)
       /\ TermSum(held) \in Within(p) /\ TermSum(after) \in Within(p)
       /\ IsFinite(TermSum(gone)) <=> AllFinite(gone, Len(gone))
  BY <1>7, <1>10, <1>11, <1>14
<1> HIDE DEF p
<1> QED BY <1>2, <1>3, <1>5, <1>6, <1>10, <1>12, <1>13, <1>15 DEF p

\* A write of a block of at most the capacity, adjusted or computed anew.
LEMMA AdjustSound ==
  ASSUME NEW m, Bounded(m), Follows(m), UNCHANGED config,
         NEW block \in Seq(Fit(m)), Len(block) \in 1 .. MaxLen,
         buf' = WriteData(buf, block, write_head),
         write_head' = ExtendAdvanceHead(write_head, Len(block)),
         size' = MinSz(MaxLen, size + Len(block)),
         NEW gone, gone = Oldest(size + Len(block) - size'),
         ~is_extend_focused,
         Adjust(Len(block), TermSum(block), TermSum(gone), gone)
  PROVE  AccumulatorSound' /\ BelowThreshold'
<1> DEFINE n       == Len(block)
           added   == TermSum(block)
           removed == TermSum(gone)
           p       == MaxLen * m
<1>1. /\ class \in Classes /\ recalc_threshold \in Nat /\ class' = class
      /\ recalc_threshold' = recalc_threshold /\ is_extend_focused' = is_extend_focused
  BY UtilityAssumption DEF Follows, Inv, Configured, config
<1>2. /\ buf \in [Index -> Fit(m)] /\ write_head \in Index /\ size \in 0 .. MaxLen
      /\ accum \in Number /\ accum_valid \in BOOLEAN /\ operations_since_recalc \in Nat
      /\ ~accum_valid => ~IsFinite(accum)
      /\ Sound(accum, accum_valid, operations_since_recalc, SumF, size)
  BY UtilityAssumption DEF Follows, Inv, Cells, Accumulator, AccumulatorSound
<1>3. /\ buf' \in [Index -> Fit(m)] /\ write_head' \in Index /\ size' \in 0 .. MaxLen
      /\ gone \in Seq(Fit(m))
      /\ IsFinite(removed) <=> AllFinite(gone, Len(gone))
      /\ p \in Nat /\ 2 * p <= MaxFinite
      /\ removed \in Within(p) /\ added \in Within(p)
      /\ SumF \in Within(p) /\ SumF' \in Within(p)
      /\ Plus(removed, SumF') = Plus(SumF, added)
  BY <1>1, <1>2, BlockSums
<1>4. n \in Nat /\ n >= 1 /\ size \in Nat /\ size' \in Nat /\ size' <= size + n
  BY <1>2, MaxLenAssumption DEF MinSz
<1> HIDE DEF added, removed, p, n
<1>5. CASE Recalculated
  <2>1. Cells'
    <3>1. Fit(m) \subseteq Number
      BY DEF Fit
    <3> QED BY <1>3, <3>1 DEF Cells
  <2> QED BY <1>1, <1>5, <2>1, RecalculatedSound
<1> DEFINE leaving == ~accum_valid /\ \E k \in 1 .. Len(gone) : ~IsFinite(gone[k])
           ops     == (IF leaving THEN size' ELSE operations_since_recalc) + n
<1>6. CASE /\ ~(recalc_threshold # 0 /\ ops >= recalc_threshold)
           /\ accum' \in Near(Plus(accum, Minus(added, removed)), Drift)
           /\ operations_since_recalc' = ops
           /\ UNCHANGED accum_valid
  <2>1. ops \in Nat
    <3> HIDE DEF leaving
    <3> QED BY <1>2, <1>4
  <2>2. BelowThreshold'
    <3> HIDE DEF ops
    <3> QED BY <1>1, <1>6, <2>1 DEF BelowThreshold
  <2>3. ~accum_valid /\ ~leaving => IsFinite(removed)
    BY <1>3 DEF AllFinite
  <2>4. Sound(accum', accum_valid, ops, SumF', size')
    <3>1. Moves(p, SumF, added, removed, SumF')
      BY <1>3 DEF Moves
    <3>2. Counts(n, accum_valid, operations_since_recalc, ops, removed, size, size')
      BY <1>2, <1>4, <2>3 DEF Counts
    <3> HIDE DEF ops
    <3> QED BY <1>2, <1>6, <3>1, <3>2, WriteSound
  <2> HIDE DEF ops
  <2>5. Sound(accum', accum_valid', operations_since_recalc', SumF', size')
    BY <1>6, <2>4
  <2>6. AccumulatorSound'
    BY <2>5 DEF AccumulatorSound, Sound, IsFinite, Distance
  <2> QED BY <2>2, <2>6
<1>7. \/ Recalculated
      \/ /\ ~(recalc_threshold # 0 /\ ops >= recalc_threshold)
         /\ accum' \in Near(Plus(accum, Minus(added, removed)), Drift)
         /\ operations_since_recalc' = ops
         /\ UNCHANGED accum_valid
  BY DEF Adjust, added, removed, n
<1> QED BY <1>5, <1>6, <1>7

\* A step that drops the mean.
LEMMA DropsMean ==
  ASSUME NEW m, Inv', buf' \in [Index -> Fit(m)], AccumulatorSound', BelowThreshold',
         cached' = NoMean, returned' = NoMean
  PROVE  Follows(m)'
<1>1. MeansRight'
  BY DEF MeansRight, Right, NoMean
<1> QED BY <1>1 DEF Follows, Fit

\* With the extend focus nothing is asked of the accumulator.
LEMMA OutOfFocus ==
  ASSUME NEW m, Follows(m), is_extend_focused, UNCHANGED <<config, accVars>>
  PROVE  AccumulatorSound' /\ BelowThreshold'
  BY DEF Follows, AccumulatorSound, BelowThreshold, config, accVars

LEMMA NothingWritten ==
  ASSUME NEW m, Follows(m), UNCHANGED <<buf, write_head, size, config, accVars>>
  PROVE  AccumulatorSound' /\ BelowThreshold' /\ Error' = Error /\ SumF' = SumF
<1>1. UNCHANGED <<buf, write_head, size, class>>
  BY DEF config
<1>2. SumF' = SumF
  BY <1>1, SumStays
<1>3. /\ is_extend_focused' = is_extend_focused /\ recalc_threshold' = recalc_threshold
      /\ accum' = accum /\ accum_valid' = accum_valid /\ size' = size
      /\ operations_since_recalc' = operations_since_recalc
  BY DEF config, accVars
<1>4. AccumulatorSound'
  <2>1. ~is_extend_focused => Sound(accum, accum_valid, operations_since_recalc, SumF, size)
    BY DEF Follows, AccumulatorSound
  <2> QED BY <1>2, <1>3, <2>1 DEF AccumulatorSound, Sound, IsFinite, Distance
<1>5. BelowThreshold'
  BY <1>3 DEF Follows, BelowThreshold
<1>6. Error' = Error
  BY <1>3 DEF Error
<1> QED BY <1>2, <1>4, <1>5, <1>6

LEMMA AppendFollows ==
  ASSUME NEW m, Bounded(m), Follows(m), NEW x \in Fit(m), Append1(x)
  PROVE  Follows(m)'
<1> DEFINE block == <<x>>
           gone  == IF size = MaxLen THEN <<buf[write_head]>> ELSE <<>>
<1>1. /\ buf \in [Index -> Fit(m)] /\ write_head \in Index /\ size \in 0 .. MaxLen
      /\ x \in Number /\ Inv /\ class \in Classes /\ is_extend_focused \in BOOLEAN
      /\ m \in Nat /\ m <= MaxFinite
  BY BoundedRoom DEF Follows, Inv, Cells, Fit, Configured
<1>2. Inv'
  BY <1>1, AppendKeeps
<1>3. /\ block \in Seq(Fit(m)) /\ Len(block) = 1 /\ Len(block) \in 1 .. MaxLen
      /\ buf' = WriteData(buf, block, write_head)
      /\ write_head' = ExtendAdvanceHead(write_head, Len(block))
  <2>1. /\ block \in Seq(Fit(m)) /\ Len(block) = 1 /\ Len(block) \in 1 .. MaxLen
        /\ [buf EXCEPT ![write_head] = x] = WriteData(buf, block, write_head)
        /\ AppendAdvanceHead(write_head) = ExtendAdvanceHead(write_head, 1)
    BY <1>1, ItemIsBlock, Zenon
  <2>2. /\ buf' = [buf EXCEPT ![write_head] = x]
        /\ write_head' = AppendAdvanceHead(write_head)
    BY DEF Append1, Push
  <2> HIDE DEF block
  <2> QED BY <2>1, <2>2, Zenon
<1>4. TermSum(block) = Term(x)
  BY <1>1, TermSumOne
<1> HIDE DEF block
<1>5. size' = MinSz(MaxLen, size + Len(block))
  BY <1>1, <1>3, MaxLenAssumption DEF Append1, Push, MinSz
<1>6. gone = Oldest(size + Len(block) - size')
  <2>1. CASE size = MaxLen
    <3>1. size + Len(block) - size' = 1
      BY <1>1, <1>3, <1>5, <2>1, MaxLenAssumption DEF MinSz
    <3> QED BY <1>1, <2>1, <3>1, OldestOfFull DEF Oldest
  <2>2. CASE size # MaxLen
    <3>1. size + Len(block) - size' = 0
      BY <1>1, <1>3, <1>5, <2>2, MaxLenAssumption DEF MinSz
    <3> QED BY <1>1, <2>2, <3>1, StartPosType, NothingRead DEF Oldest
  <2> QED BY <2>1, <2>2
<1>7. UNCHANGED config /\ cached' = NoMean /\ returned' = NoMean
  BY DEF Append1
<1>8. IF is_extend_focused THEN UNCHANGED accVars
      ELSE Adjust(1, Term(x), TermSum(gone), gone)
  BY DEF Append1, TermSum
<1> HIDE DEF gone
<1>9. AccumulatorSound' /\ BelowThreshold'
  <2>1. CASE is_extend_focused
    BY <1>7, <1>8, <2>1, OutOfFocus
  <2>2. CASE ~is_extend_focused
    <3>1. Adjust(Len(block), TermSum(block), TermSum(gone), gone)
      BY <1>3, <1>4, <1>8, <2>2, Zenon
    <3> QED BY <1>3, <1>5, <1>6, <1>7, <2>2, <3>1, AdjustSound
  <2> QED BY <2>1, <2>2
<1>10. buf' \in [Index -> Fit(m)]
  BY <1>1, <1>3, BlockType
<1> QED BY <1>2, <1>7, <1>9, <1>10, DropsMean

LEMMA ExtendPartFollows ==
  ASSUME NEW m, Bounded(m), Follows(m), NEW block \in Seq(Fit(m)), ExtendPart(block)
  PROVE  Follows(m)'
<1> DEFINE k    == IF size + Len(block) > MaxLen THEN size + Len(block) - MaxLen ELSE 0
           gone == Oldest(k)
<1>1. /\ buf \in [Index -> Fit(m)] /\ write_head \in Index /\ size \in 0 .. MaxLen
      /\ Len(block) \in 1 .. MaxLen /\ Inv
  BY MaxLenAssumption DEF Follows, Inv, Cells, ExtendPart
<1>2. Inv'
  <2>1. Fit(m) \subseteq Number
    BY DEF Fit
  <2>2. block \in Seq(Number)
    BY <2>1
  <2> QED BY <1>1, <2>2, ExtendPartKeeps
<1>3. /\ buf' = WriteData(buf, block, write_head)
      /\ write_head' = ExtendAdvanceHead(write_head, Len(block))
  BY DEF ExtendPart, PushPart
<1>4. size' = MinSz(MaxLen, size + Len(block))
  BY <1>1, MaxLenAssumption DEF ExtendPart, PushPart, MinSz
<1>5. k = size + Len(block) - size'
  BY <1>1, <1>4, MaxLenAssumption DEF MinSz
<1>6. UNCHANGED config /\ cached' = NoMean /\ returned' = NoMean
  BY DEF ExtendPart
<1>7. IF is_extend_focused THEN UNCHANGED accVars
      ELSE Adjust(Len(block), TermSum(block), TermSum(gone), gone)
  BY DEF ExtendPart, TermSum
<1> HIDE DEF k
<1>8. gone = Oldest(size + Len(block) - size')
  BY <1>5
<1> HIDE DEF gone
<1>9. AccumulatorSound' /\ BelowThreshold'
  <2>1. CASE is_extend_focused
    BY <1>6, <1>7, <2>1, OutOfFocus
  <2>2. CASE ~is_extend_focused
    BY <1>1, <1>3, <1>4, <1>6, <1>7, <1>8, <2>2, AdjustSound
  <2> QED BY <2>1, <2>2
<1>10. buf' \in [Index -> Fit(m)]
  BY <1>1, <1>3, BlockType
<1> QED BY <1>2, <1>6, <1>9, <1>10, DropsMean

\* A step that computes the accumulator anew and drops the mean.
LEMMA RecalculatedFollows ==
  ASSUME NEW m, Follows(m), Inv', buf' \in [Index -> Fit(m)], UNCHANGED config, Recalculated,
         cached' = NoMean, returned' = NoMean
  PROVE  Follows(m)'
<1>1. Cells' /\ class' = class /\ UNCHANGED recalc_threshold /\ recalc_threshold \in Nat
  BY UtilityAssumption DEF Follows, Inv, Configured, config
<1>2. AccumulatorSound' /\ BelowThreshold'
  BY <1>1, RecalculatedSound
<1> QED BY <1>2, DropsMean

LEMMA ExtendWholeFollows ==
  ASSUME NEW m, Bounded(m), Follows(m), NEW block \in Seq(Fit(m)), ExtendWhole(block)
  PROVE  Follows(m)'
<1>1. Inv'
  <2>1. Fit(m) \subseteq Number
    BY DEF Fit
  <2>2. block \in Seq(Number) /\ Inv
    BY <2>1 DEF Follows
  <2> QED BY <2>2, ExtendWholeKeeps
<1>2. buf' \in [Index -> Fit(m)]
  <2>1. \A i \in Index : Len(block) - MaxLen + i + 1 \in 1 .. Len(block)
    BY MaxLenAssumption DEF ExtendWhole, Index
  <2>2. [i \in Index |-> block[Len(block) - MaxLen + i + 1]] \in [Index -> Fit(m)]
    BY <2>1
  <2> QED BY <2>2 DEF ExtendWhole, PushWhole
<1>3. UNCHANGED config /\ cached' = NoMean /\ returned' = NoMean
      /\ IF is_extend_focused THEN UNCHANGED accVars ELSE Recalculated
  BY DEF ExtendWhole
<1>4. CASE is_extend_focused
  <2>1. AccumulatorSound' /\ BelowThreshold'
    BY <1>3, <1>4, OutOfFocus
  <2> QED BY <1>1, <1>2, <1>3, <2>1, DropsMean
<1>5. CASE ~is_extend_focused
  BY <1>1, <1>2, <1>3, <1>5, RecalculatedFollows
<1> QED BY <1>4, <1>5

LEMMA RemoveFollows ==
  ASSUME NEW m, Bounded(m), Follows(m), NEW target, RemoveItems(target)
  PROVE  Follows(m)'
<1> DEFINE start == GetStartPos(write_head, size)
<1>1. Inv'
  BY RemoveKeeps DEF Follows
<1>2. PICK f \in KeptOrder(Window, target) :
        buf' = WriteData(buf, [i \in 1 .. Len(f) |-> Window[f[i]]], start)
  BY DEF RemoveItems, Filter
<1> DEFINE kept == [i \in 1 .. Len(f) |-> Window[f[i]]]
<1>3. buf \in [Index -> Fit(m)] /\ write_head \in Index /\ size \in 0 .. MaxLen
  BY DEF Follows, Inv, Cells
<1>4. Window \in Seq(Fit(m)) /\ Len(Window) = size
  BY <1>3, HeldType DEF Window, Oldest, Held
<1>5. kept \in Seq(Fit(m)) /\ Len(kept) \in 0 .. size
  BY <1>4, KeptItems
<1>6. buf' = WriteData(buf, kept, start)
  BY <1>2
<1> HIDE DEF kept
<1>7. buf' \in [Index -> Fit(m)]
  BY <1>3, <1>5, <1>6, Compacts
<1> QED BY <1>1, <1>7, RecalculatedFollows DEF RemoveItems

\* An empty buffer.
LEMMA NothingHeld ==
  ASSUME NEW b, NEW head \in Index
  PROVE  SumFrom(b, head, 0) = Fin(0)
<1> DEFINE start == GetStartPos(head, 0)
           terms == [k \in 1 .. (start + 0) - start |-> Term(b[start + k - 1])]
<1>1. 0 \in 0 .. MaxLen
  BY MaxLenAssumption
<1>2. start \in Index
  BY <1>1, StartPosType
<1> HIDE DEF start
<1>3. start + 0 <= MaxLen /\ (start + 0) - start = 0
  BY <1>2, MaxLenAssumption DEF Index
<1>4. SumFrom(b, head, 0) = Total(terms)
  BY <1>3 DEF SumFrom, start
<1>5. terms = <<>>
  BY <1>3
<1>6. Mapped(<<>>, Term) = <<>>
  BY DEF Mapped
<1> QED BY <1>4, <1>5, <1>6, TermSumNone DEF TermSum

\* Zero is the sum of nothing.
LEMMA EmptySound == Sound(Fin(0), TRUE, 0, Fin(0), 0)
<1>1. Drift * 0 = 0
  BY UtilityAssumption
<1> QED BY <1>1, Zero, NoDistance DEF Sound, IsFinite, Fin

LEMMA InitFollows ==
  ASSUME NEW m, Bounded(m), Init
  PROVE  Follows(m)
<1>1. Inv
  BY InitHolds
<1>2. buf \in [Index -> Fit(m)]
  BY BoundedRoom DEF Init, InitUtility, InitRing
<1>3. AccumulatorSound /\ BelowThreshold
  <2>1. recalc_threshold \in Nat
    BY UtilityAssumption DEF Init, InitUtility
  <2>2. SumF = Fin(0)
    BY NothingHeld, MaxLenAssumption DEF SumF, Init, InitUtility, InitRing, Index
  <2>3. accum = Fin(0) /\ accum_valid = TRUE /\ operations_since_recalc = 0 /\ size = 0
    BY DEF Init, InitUtility, InitRing
  <2>4. AccumulatorSound
    BY <2>2, <2>3, EmptySound DEF AccumulatorSound
  <2> QED BY <2>1, <2>3, <2>4 DEF BelowThreshold
<1>4. MeansRight
  BY DEF Init, InitUtility, MeansRight, Right
<1> QED BY <1>1, <1>2, <1>3, <1>4 DEF Follows

\* What the cached mean was divided by, it is the mean of the items.
LEMMA GetMeanFollows ==
  ASSUME NEW m, Bounded(m), Follows(m), GetMean
  PROVE  Follows(m)'
<1>1. Inv' /\ buf' \in [Index -> Fit(m)]
  BY GetMeanKeeps DEF Follows, GetMean
<1>2. /\ UNCHANGED <<buf, write_head, size, config>> /\ returned' = cached'
      /\ class' = class /\ size' = size /\ is_extend_focused' = is_extend_focused
      /\ UNCHANGED recalc_threshold
  BY DEF GetMean, config
<1>3. /\ Inv /\ Cells /\ size \in 0 .. MaxLen /\ accum \in Number /\ accum_valid \in BOOLEAN
      /\ operations_since_recalc \in Nat
      /\ ~accum_valid => ~IsFinite(accum)
      /\ recalc_threshold \in Nat /\ is_extend_focused \in BOOLEAN
      /\ ~is_extend_focused =>
           Sound(accum, accum_valid, operations_since_recalc, SumF, size)
      /\ Right(cached, SumF, size, Error)
  BY UtilityAssumption
     DEF Follows, Inv, Cells, Accumulator, Configured, AccumulatorSound, MeansRight
<1>4. SumF' = SumF /\ SumF \in Number
  BY <1>2, <1>3, SumStays, SumType DEF SumF, Cells
<1>5. Error \in Nat
  BY <1>3, MoreDrift DEF Error
<1>6. ASSUME Right(cached', SumF, size, Error'), AccumulatorSound', BelowThreshold'
      PROVE  Follows(m)'
  <2>1. MeansRight'
    BY <1>2, <1>4, <1>6 DEF MeansRight, Right, NoMean, Mean, IsFinite, Distance
  <2> QED BY <1>1, <1>6, <2>1 DEF Follows, Fit
<1>7. CASE UNCHANGED <<cached, accVars>>
  <2>1. AccumulatorSound' /\ BelowThreshold' /\ Error' = Error
    BY <1>2, <1>7, NothingWritten
  <2> QED BY <1>3, <1>6, <1>7, <2>1
<1>8. CASE size = 0 /\ UNCHANGED accVars /\ cached' = Mean(Fin(0), 1)
  <2>1. AccumulatorSound' /\ BelowThreshold' /\ Error' = Error
    BY <1>2, <1>8, NothingWritten
  <2>2. Right(Mean(Fin(0), 1), SumF, size, Error)
    BY <1>8 DEF Right
  <2> QED BY <1>6, <1>8, <2>1, <2>2
<1>9. CASE size # 0 /\ is_extend_focused /\ UNCHANGED accVars /\ cached' = Mean(SumF, size)
  <2>1. AccumulatorSound' /\ BelowThreshold' /\ Error' = Error
    BY <1>2, <1>9, NothingWritten
  <2>2. Right(Mean(SumF, size), SumF, size, Error)
    BY <1>4, <1>5, <1>9, NoDistance DEF Right, Mean
  <2> QED BY <1>6, <1>9, <2>1, <2>2
<1>10. CASE /\ size # 0 /\ ~is_extend_focused /\ ShouldRecalc /\ Recalculated
            /\ cached' = Mean(accum', size)
  <2>1. Cells'
    BY <1>1 DEF Inv
  <2>2. AccumulatorSound' /\ BelowThreshold' /\ accum' = SumF /\ operations_since_recalc' = 0
    BY <1>2, <1>3, <1>4, <1>10, <2>1, RecalculatedSound
  <2>3. Error' = 0
    BY <1>2, <1>10, <2>2, UtilityAssumption DEF Error
  <2>4. Right(Mean(SumF, size), SumF, size, 0)
    BY <1>4, <1>10, NoDistance DEF Right, Mean
  <2> QED BY <1>6, <1>10, <2>2, <2>3, <2>4
<1>11. CASE /\ size # 0 /\ ~is_extend_focused /\ ~ShouldRecalc /\ UNCHANGED accVars
            /\ cached' = Mean(accum', size)
  <2>1. AccumulatorSound' /\ BelowThreshold' /\ Error' = Error
    BY <1>2, <1>11, NothingWritten
  <2>2. accum' = accum /\ Error = Drift * operations_since_recalc
    BY <1>11 DEF accVars, Error
  <2>3. Sound(accum, accum_valid, operations_since_recalc, SumF, size)
    BY <1>3, <1>11
  <2>4. CASE accum_valid
    <3>1. IsFinite(accum)
      BY <1>11, <2>4 DEF ShouldRecalc
    <3>2. IsFinite(SumF) /\ Distance(accum, SumF) <= Error
      BY <2>2, <2>3, <2>4, <3>1 DEF Sound
    <3>3. Right(Mean(accum, size), SumF, size, Error)
      BY <1>11, <3>1, <3>2 DEF Right, Mean
    <3> QED BY <1>6, <1>11, <2>1, <2>2, <3>3
  <2>5. CASE ~accum_valid
    <3>1. operations_since_recalc < size
      BY <1>3, <1>11, <2>5, MaxLenAssumption DEF ShouldRecalc
    <3>2. accum = SumF /\ ~IsFinite(SumF)
      BY <1>3, <2>3, <2>5, <3>1 DEF Sound
    <3>3. Right(Mean(accum, size), SumF, size, Error)
      BY <1>11, <3>2 DEF Right, Mean
    <3> QED BY <1>6, <1>11, <2>1, <2>2, <3>3
  <2> QED BY <1>3, <2>4, <2>5
<1>12. \/ UNCHANGED <<cached, accVars>>
       \/ size = 0 /\ UNCHANGED accVars /\ cached' = Mean(Fin(0), 1)
       \/ size # 0 /\ is_extend_focused /\ UNCHANGED accVars /\ cached' = Mean(SumF, size)
       \/ /\ size # 0 /\ ~is_extend_focused /\ ShouldRecalc /\ Recalculated
          /\ cached' = Mean(accum', size)
       \/ /\ size # 0 /\ ~is_extend_focused /\ ~ShouldRecalc /\ UNCHANGED accVars
          /\ cached' = Mean(accum', size)
  BY <1>3 DEF GetMean
<1> QED BY <1>7, <1>8, <1>9, <1>10, <1>11, <1>12

LEMMA StepFollows ==
  ASSUME NEW m, Bounded(m), Follows(m), [Next]_vars
  PROVE  Follows(m)'
<1>1. ASSUME NEW x \in Items, Append1(x)
      PROVE  Follows(m)'
  BY <1>1, AppendFollows DEF Bounded
<1>2. ASSUME NEW block \in Blocks, ExtendWhole(block)
      PROVE  Follows(m)'
  BY <1>2, ExtendWholeFollows DEF Bounded
<1>3. ASSUME NEW block \in Blocks, ExtendPart(block)
      PROVE  Follows(m)'
  BY <1>3, ExtendPartFollows DEF Bounded
<1>4. Inv'
  BY StepHolds DEF Follows
<1>5. buf \in [Index -> Fit(m)]
  BY DEF Follows
<1>6. ASSUME UNCHANGED <<buf, write_head, size, config, accVars>>,
             cached' = NoMean, returned' = NoMean
      PROVE  Follows(m)'
  BY <1>4, <1>5, <1>6, NothingWritten, DropsMean
<1>7. ASSUME NEW block \in Blocks, ExtendRaises(block)
      PROVE  Follows(m)'
  BY <1>6, <1>7 DEF ExtendRaises
<1>8. CASE GetMean
  BY <1>8, GetMeanFollows
<1>9. CASE Clear
  <2>1. /\ buf' = buf /\ size' = 0 /\ accum' = Fin(0) /\ operations_since_recalc' = 0
        /\ accum_valid' = TRUE /\ cached' = NoMean /\ returned' = NoMean
    BY <1>9 DEF Clear, Reset
  <2>2. write_head' \in Index /\ class' = class /\ recalc_threshold' \in Nat
    BY <1>4, <1>9, UtilityAssumption DEF Inv, Cells, Configured, Clear, config
  <2>3. SumF' = Fin(0)
    BY <2>1, <2>2, SumAfter, NothingHeld
  <2>4. Sound(accum', accum_valid', operations_since_recalc', SumF', size')
    BY <2>1, <2>3, EmptySound
  <2>5. AccumulatorSound'
    BY <2>4 DEF AccumulatorSound, Sound, IsFinite, Distance
  <2>6. BelowThreshold'
    BY <2>1, <2>2 DEF BelowThreshold
  <2> QED BY <1>4, <1>5, <2>1, <2>5, <2>6, DropsMean
<1>10. CASE ClearCache
  BY <1>6, <1>10 DEF ClearCache
<1>11. CASE Recalculate
  BY <1>4, <1>5, <1>11, RecalculatedFollows DEF Recalculate
<1>12. ASSUME NEW target \in Targets, RemoveItems(target)
       PROVE  Follows(m)'
  BY <1>12, RemoveFollows
<1>13. CASE UNCHANGED vars
  <2>1. /\ UNCHANGED <<buf, write_head, size, config, accVars>>
        /\ cached' = cached /\ returned' = returned
    BY <1>13 DEF vars, config, accVars
  <2>2. AccumulatorSound' /\ BelowThreshold' /\ Error' = Error /\ SumF' = SumF /\ size' = size
    BY <2>1, NothingWritten
  <2>3. MeansRight'
    BY <2>1, <2>2 DEF Follows, MeansRight, Right, NoMean, Mean, IsFinite, Distance
  <2> QED BY <1>4, <1>5, <2>1, <2>2, <2>3 DEF Follows, Fit
<1> QED BY <1>1, <1>2, <1>3, <1>7, <1>8, <1>9, <1>10, <1>11, <1>12, <1>13 DEF Next

\* What the invariant says of the mean returned last.
LEMMA FollowingMeans ==
  ASSUME NEW m, Follows(m)
  PROVE  MeanFollowsItems /\ DriftBounded
<1>1. Right(returned, SumF, size, Error)
  BY DEF Follows, MeansRight
<1>2. MeanFollowsItems
  BY <1>1 DEF MeanFollowsItems, Right, Error
<1>3. DriftBounded
  <2> SUFFICES ASSUME returned # NoMean, recalc_threshold # 0, IsFinite(returned.sum),
                      IsFinite(SumF)
               PROVE  Distance(returned.sum, SumF) <= Drift * (recalc_threshold - 1)
    BY DEF DriftBounded
  <2> DEFINE ops  == operations_since_recalc
             n    == recalc_threshold
             most == Drift * (n - 1)
  <2>1. ops \in Nat /\ n \in Nat /\ ops <= n - 1 /\ Drift \in Nat /\ n - 1 \in Nat
    BY UtilityAssumption DEF Follows, Inv, Accumulator, Configured, BelowThreshold
  <2>2. 0 <= Error /\ Error <= most /\ Error \in Int /\ most \in Int
    <3>1. ops * Drift <= (n - 1) * Drift /\ 0 * Drift <= ops * Drift
          /\ 0 * Drift <= (n - 1) * Drift
      BY <2>1, LargerProduct
    <3>2. /\ ops * Drift = Drift * ops /\ (n - 1) * Drift = most /\ 0 * Drift = 0
          /\ most \in Int /\ Drift * ops \in Int
      BY <2>1
    <3> HIDE DEF most
    <3> QED BY <3>1, <3>2 DEF Error
  <2>3. Fin(0).val = 0 /\ Distance(Fin(0), Fin(0)) = 0
    BY Zero, NoDistance DEF Fin, IsFinite
  <2>4. CASE size = 0
    <3>1. SumF = Fin(0)
      BY <2>4, NothingHeld DEF SumF, Follows, Inv, Cells
    <3>2. returned.sum = Fin(0)
      BY <1>1, <2>4 DEF Right, Mean
    <3>3. Distance(returned.sum, SumF) <= most
      <4> HIDE DEF most
      <4> QED BY <2>2, <2>3, <3>1, <3>2
    <3> QED BY <3>3
  <2>5. CASE size # 0
    <3>1. Distance(returned.sum, SumF) <= Error
      BY <1>1, <2>5 DEF Right
    <3>2. Distance(returned.sum, SumF) \in Int
      <4>1. returned.sum \in Number /\ SumF \in Number
        BY SumType DEF SumF, Follows, Inv, Cells, MeanOK
      <4>2. returned.sum.val \in Int /\ SumF.val \in Int
        BY <4>1, Kinds, SpecialsAreNot, MaxFiniteAssumption
      <4> QED BY <4>2 DEF Distance
    <3>3. Distance(returned.sum, SumF) <= most
      <4> HIDE DEF most
      <4> QED BY <2>2, <3>1, <3>2
    <3> QED BY <3>3
  <2> QED BY <2>4, <2>5
<1> QED BY <1>2, <1>3

\* The mean returned is the mean of the items there are, off by no more than the writes since
\* the last recalculation have rounded away, as long as no finite sum overflows.
THEOREM MeanStaysRight ==
  ASSUME NothingOverflows
  PROVE  Spec => []MeanFollowsItems
<1>1. PICK m \in 0 .. MaxFinite : Bounded(m)
  BY MaxFiniteAssumption DEF NothingOverflows, Bounded
<1>2. Init => Follows(m)
  BY <1>1, InitFollows
<1>3. Follows(m) /\ [Next]_vars => Follows(m)'
  BY <1>1, StepFollows
<1>4. Follows(m) => MeanFollowsItems
  BY FollowingMeans
<1> QED BY <1>2, <1>3, <1>4, PTL DEF Spec

\* No mean is off by more than N - 1 writes may have rounded away, where N is the threshold.
THEOREM MeanDriftStaysBounded ==
  ASSUME NothingOverflows
  PROVE  Spec => []DriftBounded
<1>1. PICK m \in 0 .. MaxFinite : Bounded(m)
  BY MaxFiniteAssumption DEF NothingOverflows, Bounded
<1>2. Init => Follows(m)
  BY <1>1, InitFollows
<1>3. Follows(m) /\ [Next]_vars => Follows(m)'
  BY <1>1, StepFollows
<1>4. Follows(m) => DriftBounded
  BY FollowingMeans
<1> QED BY <1>2, <1>3, <1>4, PTL DEF Spec
===============================================================================

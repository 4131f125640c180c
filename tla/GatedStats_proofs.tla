--------------------------- MODULE GatedStats_proofs ---------------------------
(***************************************************************************)
(* An IntegratedGatedBuffer keeps its types and its gated count exact      *)
(* after every call, for every capacity, gate, threshold and mix of items  *)
(* and blocks, and its gated mean is that of the items it holds as long as *)
(* no sum leaves the range.                                                *)
(***************************************************************************)
EXTENDS GatedStats, UtilityBuffer_proofs, FiniteSetTheorems

(* Numbers and their squares.                                              *)

LEMMA SquareType ==
  ASSUME NEW x \in Number
  PROVE  Square(x) \in Number
<1>1. x = NaN \/ x = PosInf \/ x = NegInf \/ \E v \in -MaxFinite .. MaxFinite : x = Fin(v)
  BY DEF Number
<1>2. CASE x = NaN
  BY <1>2 DEF Square, IsNaN, IsInf, IsFinite, NaN, Number
<1>3. CASE x = PosInf \/ x = NegInf
  BY <1>3 DEF Square, IsNaN, IsInf, IsFinite, PosInf, NegInf, Number
<1>4. ASSUME NEW v \in -MaxFinite .. MaxFinite, x = Fin(v)
      PROVE  Square(x) \in Number
  <2>1. v \in Int /\ v * v \in Int
    BY MaxFiniteAssumption
  <2>2. Square(x) = Rounded(v * v)
    BY <1>4 DEF Square, IsNaN, IsInf, IsFinite, Fin
  <2> QED BY <2>1, <2>2, RoundedType
<1> QED BY <1>1, <1>2, <1>3, <1>4

LEMMA SquaredType ==
  ASSUME NEW block \in Seq(Number), NEW already_squared \in BOOLEAN
  PROVE  /\ Squared(block, already_squared) \in Seq(Number)
         /\ Len(Squared(block, already_squared)) = Len(block)
<1>1. CASE already_squared
  BY <1>1 DEF Squared
<1>2. CASE ~already_squared
  <2>1. Squared(block, already_squared) = [i \in 1 .. Len(block) |-> Square(block[i])]
    BY <1>2 DEF Squared, Mapped
  <2>2. \A i \in 1 .. Len(block) : Square(block[i]) \in Number
    BY SquareType
  <2>3. [i \in 1 .. Len(block) |-> Square(block[i])] \in [1 .. Len(block) -> Number]
    BY <2>2
  <2> QED BY <2>1, <2>3
<1> QED BY <1>1, <1>2
-------------------------------------------------------------------------------
(* Counting.                                                               *)

LEMMA CountType ==
  ASSUME NEW s \in Seq(Number), NEW num, NEW den
  PROVE  /\ CountPassing(s, num, den) \in Nat /\ CountPassing(s, num, den) \in 0 .. Len(s)
         /\ IsFiniteSet({k \in 1 .. Len(s) : Passes(s[k], num, den)})
<1> DEFINE T == {k \in 1 .. Len(s) : Passes(s[k], num, den)}
<1>1. Len(s) \in Nat /\ T \in SUBSET (1 .. Len(s))
  OBVIOUS
<1> HIDE DEF T
<1>2. IsFiniteSet(1 .. Len(s)) /\ Cardinality(1 .. Len(s)) = Len(s)
  <2>1. 1 \in Int /\ Len(s) \in Int
    BY <1>1
  <2>2. Cardinality(1 .. Len(s)) = IF 1 > Len(s) THEN 0 ELSE Len(s) - 1 + 1
    BY <2>1, FS_Interval
  <2>3. IsFiniteSet(1 .. Len(s))
    BY <2>1, FS_Interval
  <2>4. Cardinality(1 .. Len(s)) = Len(s)
    <3> HIDE DEF T
    <3> QED BY <1>1, <2>2
  <2> QED BY <2>3, <2>4
<1>3. IsFiniteSet(T) /\ Cardinality(T) <= Len(s)
  BY <1>1, <1>2, FS_Subset
<1>4. Cardinality(T) \in Nat
  BY <1>3, FS_CardinalityType
<1> QED BY <1>1, <1>3, <1>4 DEF CountPassing, T

\* np.count_nonzero of two pieces is the sum of both.
LEMMA CountConcat ==
  ASSUME NEW s \in Seq(Number), NEW t \in Seq(Number), NEW num, NEW den
  PROVE  CountPassing(s \o t, num, den)
           = CountPassing(s, num, den) + CountPassing(t, num, den)
<1> DEFINE all  == s \o t
           A    == {k \in 1 .. Len(s) : Passes(s[k], num, den)}
           T    == {k \in 1 .. Len(t) : Passes(t[k], num, den)}
           B    == {k \in Len(s) + 1 .. Len(s) + Len(t) : Passes(t[k - Len(s)], num, den)}
           f    == [k \in T |-> k + Len(s)]
<1>1. /\ all \in Seq(Number) /\ Len(all) = Len(s) + Len(t)
      /\ \A k \in 1 .. Len(s) : all[k] = s[k]
      /\ \A k \in Len(s) + 1 .. Len(s) + Len(t) : all[k] = t[k - Len(s)]
  OBVIOUS
<1>2. Len(s) \in Nat /\ Len(t) \in Nat
  OBVIOUS
<1> HIDE DEF all
<1>3. {k \in 1 .. Len(all) : Passes(all[k], num, den)} = A \cup B
  <2>1. ASSUME NEW k \in 1 .. Len(s) + Len(t)
        PROVE  Passes(all[k], num, den) <=> k \in A \cup B
    <3>1. CASE k \in 1 .. Len(s)
      BY <1>1, <1>2, <3>1
    <3>2. CASE k \in Len(s) + 1 .. Len(s) + Len(t)
      BY <1>1, <1>2, <3>2
    <3> QED BY <1>2, <3>1, <3>2
  <2>2. A \cup B \subseteq 1 .. Len(s) + Len(t)
    BY <1>2
  <2> HIDE DEF A, B
  <2> QED BY <1>1, <2>1, <2>2
<1>4. A \cap B = {}
  BY <1>2
<1>5. IsFiniteSet(A) /\ IsFiniteSet(T)
  BY CountType
<1>6. f \in Bijection(T, B)
  <2>1. f \in [T -> B]
    BY <1>2
  <2>2. \A a, b \in T : f[a] = f[b] => a = b
    BY <1>2
  <2>3. \A b \in B : \E a \in T : f[a] = b
    <3> SUFFICES ASSUME NEW b \in B
                 PROVE  \E a \in T : f[a] = b
      OBVIOUS
    <3>1. b - Len(s) \in T /\ f[b - Len(s)] = b
      BY <1>2
    <3> QED BY <3>1
  <2> HIDE DEF f, T, B
  <2> QED BY <2>1, <2>2, <2>3 DEF Bijection, Injection, Surjection, IsInjective
<1>7. IsFiniteSet(B) /\ Cardinality(B) = Cardinality(T)
  BY <1>5, <1>6, FS_Bijection DEF ExistsBijection
<1>8. Cardinality(A \cup B) = Cardinality(A) + Cardinality(B) - Cardinality(A \cap B)
  BY <1>5, <1>7, FS_Union
<1>9. Cardinality(A) \in Nat /\ Cardinality(B) \in Nat /\ Cardinality(A \cap B) = 0
  BY <1>4, <1>5, <1>7, FS_CardinalityType, FS_EmptySet
<1>10. Cardinality(A \cup B) = Cardinality(A) + Cardinality(T)
  <2> HIDE DEF A, B, T
  <2> QED BY <1>7, <1>8, <1>9
<1> QED BY <1>3, <1>10 DEF CountPassing, all

LEMMA LoudConcat ==
  ASSUME NEW s \in Seq(Number), NEW t \in Seq(Number)
  PROVE  /\ LoudCount(s) \in Nat /\ LoudCount(t) \in Nat
         /\ LoudCount(s \o t) = LoudCount(s) + LoudCount(t)
<1>1. LoudCount(s) \in Nat /\ LoudCount(t) \in Nat
  BY CountType DEF LoudCount
<1>2. LoudCount(s \o t) = LoudCount(s) + LoudCount(t)
  BY CountConcat DEF LoudCount
<1> QED BY <1>1, <1>2

LEMMA LoudNothing == LoudCount(<<>>) = 0
<1>1. {k \in 1 .. Len(<<>>) : Passes(<<>>[k], AbsGate, 1)} = {}
  OBVIOUS
<1> QED BY <1>1, FS_EmptySet DEF LoudCount, CountPassing

LEMMA NothingPasses ==
  ASSUME NEW s \in Seq(Number), NEW num, NEW den
  PROVE  CountPassing(s, num, den) = 0 <=> {k \in 1 .. Len(s) : Passes(s[k], num, den)} = {}
<1> DEFINE T == {k \in 1 .. Len(s) : Passes(s[k], num, den)}
<1>1. IsFiniteSet(T) /\ CountPassing(s, num, den) = Cardinality(T)
  BY CountType DEF CountPassing
<1> HIDE DEF T
<1>2. Cardinality(T) = 0 <=> T = {}
  BY <1>1, FS_EmptySet
<1> QED BY <1>1, <1>2 DEF T
-------------------------------------------------------------------------------
(* Sums of what passes.                                                    *)

\* What passes, and zero for what does not.
Masked(s, num, den) == [k \in 1 .. Len(s) |-> IF Passes(s[k], num, den) THEN s[k] ELSE Fin(0)]

LEMMA MaskedType ==
  ASSUME NEW S, Fin(0) \in S, NEW s \in Seq(S), NEW num, NEW den
  PROVE  /\ Masked(s, num, den) \in Seq(S) /\ Len(Masked(s, num, den)) = Len(s)
         /\ GatedTotal(s, num, den) = Total(Masked(s, num, den))
<1> DEFINE t == Masked(s, num, den)
<1>1. Len(s) \in Nat /\ t \in [1 .. Len(s) -> S]
  BY DEF Masked
<1>2. GatedTotal(s, num, den) = Total(t)
  BY DEF GatedTotal, Masked
<1> HIDE DEF t
<1>3. t \in Seq(S) /\ Len(t) = Len(s)
  BY <1>1, FunctionIsSeq
<1> QED BY <1>2, <1>3 DEF t

LEMMA GatedTotalType ==
  ASSUME NEW s \in Seq(Number), NEW num, NEW den
  PROVE  GatedTotal(s, num, den) \in Number
<1>1. Fin(0) \in Number /\ \A x, y \in Number : Plus(x, y) \in Number
  BY Zero, PlusType
<1>2. Masked(s, num, den) \in Seq(Number) /\ GatedTotal(s, num, den) = Total(Masked(s, num, den))
  BY <1>1, MaskedType
<1> QED BY <1>1, <1>2, TotalIn

\* Squares of at most m: none is below zero.
SquaresTo(m) == {x \in Within(m) : x # NegInf /\ (IsFinite(x) => x.val >= 0)}

LEMMA SquaresAreNumbers ==
  ASSUME NEW m \in Nat
  PROVE  /\ Fin(0) \in SquaresTo(m) /\ SquaresTo(m) \subseteq Within(m)
         /\ SquaresTo(m) \subseteq Number
<1>1. Fin(0) \in Number /\ Fin(0).val = 0 /\ Fin(0) # NegInf /\ 0 \in -m .. m
  BY Zero DEF Fin, NegInf
<1> QED BY <1>1 DEF SquaresTo, Within

\* Sequences of squares, and sequences of what they are.
LEMMA SquareSeqs ==
  ASSUME NEW m \in Nat, NEW s \in Seq(SquaresTo(m))
  PROVE  s \in Seq(Within(m)) /\ s \in Seq(Number)
  BY SquaresAreNumbers

\* The gates leave out no square that is not finite.
LEMMA GatedTotalWithin ==
  ASSUME NEW m \in Nat, NEW s \in Seq(SquaresTo(m)), Room(Len(s), m), NEW num, NEW den
  PROVE  /\ GatedTotal(s, num, den) \in Sums(Len(s), m)
         /\ IsFinite(GatedTotal(s, num, den)) <=> AllFinite(s, Len(s))
<1> DEFINE t == Masked(s, num, den)
<1>1. t \in Seq(SquaresTo(m)) /\ Len(t) = Len(s) /\ GatedTotal(s, num, den) = Total(t)
  BY SquaresAreNumbers, MaskedType
<1>2. ASSUME NEW k \in 1 .. Len(s)
      PROVE  IsFinite(t[k]) <=> IsFinite(s[k])
  <2>1. t[k] = IF Passes(s[k], num, den) THEN s[k] ELSE Fin(0)
    BY DEF Masked
  <2>2. s[k] \in Number /\ s[k] # NegInf
    BY SquaresAreNumbers DEF SquaresTo
  <2>3. ~Passes(s[k], num, den) => IsFinite(s[k]) /\ IsFinite(Fin(0))
    BY <2>2, Kinds DEF Passes, IsNaN, IsFinite, Fin, NaN
  <2> QED BY <2>1, <2>3
<1> HIDE DEF t
<1>3. AllFinite(t, Len(t)) <=> AllFinite(s, Len(s))
  BY <1>1, <1>2 DEF AllFinite
<1>4. t \in Seq(Within(m)) /\ Room(Len(t), m)
  BY <1>1, SquareSeqs
<1>5. Total(t) \in Sums(Len(t), m) /\ (IsFinite(Total(t)) <=> AllFinite(t, Len(t)))
  BY <1>4, TotalWithin
<1> QED BY <1>1, <1>3, <1>5

\* np.dot of two pieces adds up to that of both.
LEMMA GatedTotalConcat ==
  ASSUME NEW m \in Nat, NEW s \in Seq(SquaresTo(m)), NEW t \in Seq(SquaresTo(m)),
         Room(Len(s) + Len(t), m), NEW num, NEW den
  PROVE  GatedTotal(s \o t, num, den) = Plus(GatedTotal(s, num, den), GatedTotal(t, num, den))
<1> DEFINE u == s \o t
           p == Masked(s, num, den)
           q == Masked(t, num, den)
           r == Masked(u, num, den)
<1>1. /\ u \in Seq(SquaresTo(m)) /\ Len(u) = Len(s) + Len(t)
      /\ \A i \in 1 .. Len(s) : i \in 1 .. Len(u) /\ u[i] = s[i]
      /\ \A i \in 1 .. Len(t) : Len(s) + i \in 1 .. Len(u) /\ u[Len(s) + i] = t[i]
  OBVIOUS
<1> HIDE DEF u
<1>2. \A i \in 1 .. Len(s) : r[i] = p[i]
  BY <1>1 DEF Masked
<1>3. \A i \in 1 .. Len(t) : r[Len(s) + i] = q[i]
  BY <1>1 DEF Masked
<1>4. p \in Seq(SquaresTo(m)) /\ Len(p) = Len(s) /\ GatedTotal(s, num, den) = Total(p)
  BY SquaresAreNumbers, MaskedType
<1>5. q \in Seq(SquaresTo(m)) /\ Len(q) = Len(t) /\ GatedTotal(t, num, den) = Total(q)
  BY SquaresAreNumbers, MaskedType
<1>6. r \in Seq(SquaresTo(m)) /\ Len(r) = Len(u) /\ GatedTotal(u, num, den) = Total(r)
  BY <1>1, SquaresAreNumbers, MaskedType
<1> HIDE DEF p, q, r
<1>7. p \in Seq(Within(m)) /\ q \in Seq(Within(m)) /\ r \in Seq(Within(m))
  BY <1>4, <1>5, <1>6, SquareSeqs
<1>8. Len(r) = Len(p) + Len(q) /\ Room(Len(r), m)
  BY <1>1, <1>4, <1>5, <1>6
<1>9. /\ \A i \in 1 .. Len(p) : r[i] = p[i]
      /\ \A i \in 1 .. Len(q) : r[Len(p) + i] = q[i]
  BY <1>2, <1>3, <1>4, <1>5
<1>10. Total(r) = Plus(Total(p), Total(q))
  BY <1>7, <1>8, <1>9, TotalSplit
<1> QED BY <1>4, <1>5, <1>6, <1>10 DEF u

\* A sum of nothing is zero.
LEMMA NothingToSum ==
  ASSUME NEW s \in Seq(Number), NEW num, NEW den, CountPassing(s, num, den) = 0
  PROVE  GatedTotal(s, num, den) = Fin(0)
<1> DEFINE t == Masked(s, num, den)
<1>1. \A k \in 1 .. Len(s) : ~Passes(s[k], num, den)
  BY NothingPasses
<1>2. Len(s) \in Nat /\ t \in [1 .. Len(s) -> {Fin(0)}]
  BY <1>1 DEF Masked
<1>3. GatedTotal(s, num, den) = Total(t)
  BY DEF GatedTotal, Masked
<1> HIDE DEF t
<1>4. t \in Seq({Fin(0)})
  BY <1>2, FunctionIsSeq
<1>5. \A x, y \in {Fin(0)} : Plus(x, y) \in {Fin(0)}
  BY Zero, PlusZero
<1>6. Total(t) \in {Fin(0)}
  BY <1>4, <1>5, TotalIn
<1> QED BY <1>3, <1>6
-------------------------------------------------------------------------------
(* Computing anew.                                                         *)

\* Where the first piece of n items ends, and how many wrap.
EndOf(head, n)  == GetStartPos(head, n) + FirstPart(GetStartPos(head, n), n)
RestOf(head, n) == n - FirstPart(GetStartPos(head, n), n)

Piece1(cells, head, n) == Piece(cells, GetStartPos(head, n), EndOf(head, n))
Piece2(cells, head, n) == Piece(cells, 0, RestOf(head, n))

\* The n cells from one on.
IsPiece(p, S, cells, from, n) ==
  p \in Seq(S) /\ Len(p) = n /\ \A k \in 1 .. n : p[k] = cells[from + k - 1]

LEMMA PieceType ==
  ASSUME NEW S, NEW cells \in [Index -> S], NEW from \in Index, NEW to \in 0 .. MaxLen,
         from <= to
  PROVE  IsPiece(Piece(cells, from, to), S, cells, from, to - from)
<1> DEFINE p == Piece(cells, from, to)
<1>1. to - from \in Nat /\ \A k \in 1 .. to - from : from + k - 1 \in Index
  BY MaxLenAssumption DEF Index
<1>2. p \in [1 .. to - from -> S]
  BY <1>1 DEF Piece
<1>3. \A k \in 1 .. to - from : p[k] = cells[from + k - 1]
  BY DEF Piece
<1> HIDE DEF p
<1>4. p \in Seq(S) /\ Len(p) = to - from
  BY <1>1, <1>2, FunctionIsSeq
<1> QED BY <1>3, <1>4 DEF IsPiece, p

LEMMA PiecesHeld ==
  ASSUME NEW S, NEW cells \in [Index -> S], NEW head \in Index, NEW n \in 0 .. MaxLen
  PROVE  /\ Piece1(cells, head, n) \in Seq(S) /\ Piece2(cells, head, n) \in Seq(S)
         /\ Piece1(cells, head, n) \o Piece2(cells, head, n) = Held(cells, head, n)
         /\ Len(Piece1(cells, head, n)) + Len(Piece2(cells, head, n)) = n
<1> DEFINE start == GetStartPos(head, n)
           last  == EndOf(head, n)
           rest  == RestOf(head, n)
           p     == Piece1(cells, head, n)
           q     == Piece2(cells, head, n)
           held  == Held(cells, head, n)
<1>1. start \in Index
  BY StartPosType
<1>2. p = Piece(cells, start, last) /\ q = Piece(cells, 0, rest)
  BY DEF Piece1, Piece2
<1>3. held \in Seq(S) /\ Len(held) = n /\ \A i \in 1 .. n : held[i] = cells[At(start, i - 1)]
  BY HeldType, HeldAt
<1> HIDE DEF p, q, held
<1>4. /\ last \in 0 .. MaxLen /\ start <= last /\ rest \in 0 .. MaxLen /\ 0 <= rest
      /\ 0 \in Index /\ rest - 0 = rest /\ (last - start) + rest = n
      /\ last - start \in Nat /\ rest \in Nat
  <2> DEFINE k == FirstPart(start, n)
  <2>1. k = IF start + n <= MaxLen THEN n ELSE MaxLen - start
    BY DEF FirstPart
  <2>2. last = start + k /\ rest = n - k
    BY DEF EndOf, RestOf
  <2> HIDE DEF k, start, last, rest
  <2> QED BY <1>1, <2>1, <2>2, MaxLenAssumption DEF Index
<1>5. ASSUME NEW i \in 1 .. n
      PROVE  At(start, i - 1) = IF i <= last - start THEN start + i - 1
                                ELSE 0 + (i - (last - start)) - 1
  BY <1>1, MaxLenAssumption DEF At, Index, EndOf, FirstPart
<1> HIDE DEF start, last, rest
<1>6. /\ p \in Seq(S) /\ Len(p) = last - start
      /\ \A k \in 1 .. last - start : p[k] = cells[start + k - 1]
  <2>1. IsPiece(p, S, cells, start, last - start)
    BY <1>1, <1>2, <1>4, PieceType
  <2> QED BY <2>1 DEF IsPiece
<1>7. /\ q \in Seq(S) /\ Len(q) = rest
      /\ \A k \in 1 .. rest : q[k] = cells[0 + k - 1]
  <2> DEFINE from == 0
  <2>1. from \in Index /\ rest \in 0 .. MaxLen /\ from <= rest /\ q = Piece(cells, from, rest)
    BY <1>2, <1>4
  <2> HIDE DEF from
  <2>2. IsPiece(q, S, cells, from, rest - from)
    BY <2>1, PieceType
  <2> QED BY <1>4, <2>2 DEF from, IsPiece
<1>8. p \o q \in Seq(S) /\ Len(p \o q) = n
  BY <1>4, <1>6, <1>7
<1>9. ASSUME NEW i \in 1 .. n
      PROVE  (p \o q)[i] = held[i]
  <2>1. CASE i <= last - start
    <3>1. i \in 1 .. last - start
      BY <1>4, <2>1
    <3>2. (p \o q)[i] = p[i]
      BY <1>6, <1>7, <3>1
    <3> QED BY <1>3, <1>5, <1>6, <2>1, <3>1, <3>2
  <2>2. CASE ~(i <= last - start)
    <3>1. i - (last - start) \in 1 .. rest
      BY <1>4, <2>2
    <3>2. (p \o q)[i] = q[i - (last - start)]
      <4>1. i \in Len(p) + 1 .. Len(p) + Len(q)
        BY <1>4, <1>6, <1>7, <2>2
      <4>2. (p \o q)[i] = q[i - Len(p)]
        BY <1>6, <1>7, <4>1
      <4> QED BY <1>6, <4>2
    <3> QED BY <1>3, <1>5, <1>7, <2>2, <3>1, <3>2
  <2> QED BY <2>1, <2>2
<1>10. p \o q = held
  BY <1>3, <1>8, <1>9, SameItems
<1> QED BY <1>4, <1>6, <1>7, <1>10 DEF p, q, held

LEMMA TwoPieces ==
  ASSUME NEW cells, NEW head, NEW n, NEW num, NEW den
  PROVE  LET p == Piece1(cells, head, n)
             q == Piece2(cells, head, n)
         IN  SumAndCount(cells, head, n, num, den)
               = [sum   |-> Plus(GatedTotal(p, num, den), GatedTotal(q, num, den)),
                  count |-> CountPassing(p, num, den) + CountPassing(q, num, den)]
  BY DEF SumAndCount, Piece1, Piece2, EndOf, RestOf

\* sum_and_count_gt of any cells.
LEMMA RecountType ==
  ASSUME NEW cells \in [Index -> Number], NEW head \in Index, NEW n \in 0 .. MaxLen,
         NEW num, NEW den
  PROVE  /\ SumAndCount(cells, head, n, num, den).sum \in Number
         /\ SumAndCount(cells, head, n, num, den).count
              = CountPassing(Held(cells, head, n), num, den)
         /\ SumAndCount(cells, head, n, num, den).count \in 0 .. n
<1> DEFINE p == Piece1(cells, head, n)
           q == Piece2(cells, head, n)
<1>1. p \in Seq(Number) /\ q \in Seq(Number) /\ p \o q = Held(cells, head, n)
  BY PiecesHeld, ZenonT(60)
<1>2. SumAndCount(cells, head, n, num, den)
        = [sum   |-> Plus(GatedTotal(p, num, den), GatedTotal(q, num, den)),
           count |-> CountPassing(p, num, den) + CountPassing(q, num, den)]
  BY TwoPieces
<1> HIDE DEF p, q
<1>3. Plus(GatedTotal(p, num, den), GatedTotal(q, num, den)) \in Number
  BY <1>1, GatedTotalType, PlusType
<1>4. CountPassing(p \o q, num, den) = CountPassing(p, num, den) + CountPassing(q, num, den)
  <2>1. p \in Seq(Number) /\ q \in Seq(Number)
    BY <1>1
  <2> QED BY <2>1, CountConcat
<1>5. Held(cells, head, n) \in Seq(Number) /\ Len(Held(cells, head, n)) = n
  BY HeldType
<1>6. CountPassing(Held(cells, head, n), num, den) \in 0 .. n
  BY <1>5, CountType
<1> QED BY <1>1, <1>2, <1>3, <1>4, <1>6

\* With room for the sums it is the sum of the items that are held.
LEMMA RecountSums ==
  ASSUME NEW m \in Nat, Room(MaxLen, m), NEW cells \in [Index -> SquaresTo(m)],
         NEW head \in Index, NEW n \in 0 .. MaxLen, NEW num, NEW den
  PROVE  SumAndCount(cells, head, n, num, den).sum
           = GatedTotal(Held(cells, head, n), num, den)
<1> DEFINE p == Piece1(cells, head, n)
           q == Piece2(cells, head, n)
<1>1. /\ p \in Seq(SquaresTo(m)) /\ q \in Seq(SquaresTo(m))
      /\ p \o q = Held(cells, head, n) /\ Len(p) + Len(q) = n
  BY PiecesHeld, ZenonT(60)
<1>2. SumAndCount(cells, head, n, num, den)
        = [sum   |-> Plus(GatedTotal(p, num, den), GatedTotal(q, num, den)),
           count |-> CountPassing(p, num, den) + CountPassing(q, num, den)]
  BY TwoPieces
<1> HIDE DEF p, q
<1>3. Room(Len(p) + Len(q), m)
  <2>1. n \in Nat /\ n <= MaxLen /\ MaxLen \in Nat
    BY MaxLenAssumption
  <2>2. Room(n, m)
    BY <2>1, RoomForLess
  <2> QED BY <1>1, <2>2
<1>4. GatedTotal(p \o q, num, den) = Plus(GatedTotal(p, num, den), GatedTotal(q, num, den))
  <2>1. p \in Seq(SquaresTo(m)) /\ q \in Seq(SquaresTo(m))
    BY <1>1
  <2> QED BY <1>3, <2>1, GatedTotalConcat
<1> QED BY <1>1, <1>2, <1>4
-------------------------------------------------------------------------------
(* What the operations do to the cells.                                    *)

\* The cells hold members of S.
Holding(S) == buf \in [Index -> S] /\ write_head \in Index /\ size \in 0 .. MaxLen

\* What is written, once it is squared, is in S.
Suits(S) ==
  \A already_squared \in BOOLEAN :
    /\ \A x \in GatedItems :
         (already_squared => MayBeSquares(<<x>>)) => Squared(<<x>>, already_squared) \in Seq(S)
    /\ \A block \in GatedBlocks :
         (already_squared => MayBeSquares(block)) => Squared(block, already_squared) \in Seq(S)

LEMMA WindowHeld ==
  ASSUME NEW S, Holding(S)
  PROVE  /\ Window = Held(buf, write_head, size)
         /\ Window \in Seq(S) /\ Len(Window) = size
<1>1. Window = Held(buf, write_head, size)
  BY DEF Window, Oldest, Held
<1> QED BY <1>1, HeldType DEF Holding

LEMMA SquaredLength ==
  ASSUME NEW block, Len(block) \in Nat, NEW already_squared \in BOOLEAN
  PROVE  Len(Squared(block, already_squared)) = Len(block)
<1>1. CASE already_squared
  BY <1>1 DEF Squared
<1>2. CASE ~already_squared
  <2>1. Squared(block, already_squared) = [i \in 1 .. Len(block) |-> Square(block[i])]
    BY <1>2 DEF Squared, Mapped
  <2> QED BY <2>1
<1> QED BY <1>1, <1>2

\* A write of squares, of at most the capacity, that drives out the oldest.
Written(squares) ==
  /\ Len(squares) \in 1 .. MaxLen
  /\ buf' = WriteData(buf, squares, write_head)
  /\ write_head' = ExtendAdvanceHead(write_head, Len(squares))
  /\ size' = MinSz(MaxLen, size + Len(squares))
  /\ GatedAdjust(squares, Oldest(size + Len(squares) - size'))

\* The mean is dropped.
Drops == cached' = NoMean /\ returned' = NoMean /\ UNCHANGED recalc_threshold

LEMMA AppendWrites ==
  ASSUME NEW S, Holding(S), NEW x, NEW already_squared \in BOOLEAN,
         Squared(<<x>>, already_squared) \in Seq(S), GatedAppend(x, already_squared)
  PROVE  Drops /\ \E squares \in Seq(S) : Written(squares)
<1> DEFINE squares == Squared(<<x>>, already_squared)
           v       == squares[1]
<1>1. squares \in Seq(S) /\ Len(squares) = 1
  BY SquaredLength
<1>2. /\ Push(v)
      /\ GatedAdjust(squares, IF size = MaxLen THEN <<buf[write_head]>> ELSE <<>>)
      /\ Drops
  BY DEF GatedAppend, Drops
<1> HIDE DEF squares
<1>3. v \in S /\ squares = <<v>>
  BY <1>1
<1>4. /\ buf \in [Index -> S] /\ write_head \in Index /\ size \in 0 .. MaxLen
  BY DEF Holding
<1>5. /\ Len(squares) \in 1 .. MaxLen
      /\ buf' = WriteData(buf, squares, write_head)
      /\ write_head' = ExtendAdvanceHead(write_head, Len(squares))
  <2>1. /\ <<v>> \in Seq(S) /\ Len(<<v>>) = 1 /\ Len(<<v>>) \in 1 .. MaxLen
        /\ [buf EXCEPT ![write_head] = v] = WriteData(buf, <<v>>, write_head)
        /\ AppendAdvanceHead(write_head) = ExtendAdvanceHead(write_head, 1)
    <3> HIDE DEF v
    <3> QED BY <1>3, <1>4, ItemIsBlock, Zenon
  <2>2. /\ buf' = [buf EXCEPT ![write_head] = v]
        /\ write_head' = AppendAdvanceHead(write_head)
    BY <1>2 DEF Push
  <2> HIDE DEF v
  <2> QED BY <1>1, <1>3, <2>1, <2>2, Zenon
<1>6. size' = MinSz(MaxLen, size + Len(squares))
  BY <1>1, <1>2, <1>4, MaxLenAssumption DEF Push, MinSz
<1>7. Oldest(size + Len(squares) - size')
        = IF size = MaxLen THEN <<buf[write_head]>> ELSE <<>>
  <2>1. CASE size = MaxLen
    <3>1. size + Len(squares) - size' = 1
      BY <1>1, <1>4, <1>6, <2>1, MaxLenAssumption DEF MinSz
    <3> QED BY <1>4, <2>1, <3>1, OldestOfFull DEF Oldest
  <2>2. CASE size # MaxLen
    <3>1. size + Len(squares) - size' = 0
      BY <1>1, <1>4, <1>6, <2>2, MaxLenAssumption DEF MinSz
    <3> QED BY <1>4, <2>2, <3>1, StartPosType, NothingRead DEF Oldest
  <2> QED BY <2>1, <2>2
<1>8. Written(squares)
  BY <1>2, <1>5, <1>6, <1>7 DEF Written
<1> QED BY <1>1, <1>2, <1>8

LEMMA ExtendPartWrites ==
  ASSUME NEW S, Holding(S), NEW block, Len(block) \in Nat, NEW already_squared \in BOOLEAN,
         Squared(block, already_squared) \in Seq(S), GatedExtendPart(block, already_squared)
  PROVE  Drops /\ \E squares \in Seq(S) : Written(squares)
<1> DEFINE squares == Squared(block, already_squared)
           k       == IF size + Len(block) > MaxLen THEN size + Len(block) - MaxLen ELSE 0
<1>1. squares \in Seq(S) /\ Len(squares) = Len(block) /\ Len(squares) \in 1 .. MaxLen
  BY SquaredLength, MaxLenAssumption DEF GatedExtendPart
<1>2. PushPart(squares) /\ GatedAdjust(squares, Oldest(k)) /\ size \in 0 .. MaxLen /\ Drops
  BY DEF GatedExtendPart, Holding, Drops
<1> HIDE DEF squares
<1>3. size' = MinSz(MaxLen, size + Len(squares))
  BY <1>1, <1>2, MaxLenAssumption DEF PushPart, MinSz
<1>4. k = size + Len(squares) - size'
  BY <1>1, <1>2, <1>3, MaxLenAssumption DEF MinSz
<1>5. /\ buf' = WriteData(buf, squares, write_head)
      /\ write_head' = ExtendAdvanceHead(write_head, Len(squares))
  BY <1>2 DEF PushPart
<1> HIDE DEF k
<1>6. GatedAdjust(squares, Oldest(size + Len(squares) - size'))
  BY <1>2, <1>4
<1>7. Written(squares)
  BY <1>1, <1>3, <1>5, <1>6 DEF Written
<1> QED BY <1>1, <1>2, <1>7

LEMMA ExtendWholeRecounts ==
  ASSUME NEW S, Holding(S), NEW block, Len(block) \in Nat, NEW already_squared \in BOOLEAN,
         Squared(block, already_squared) \in Seq(S), GatedExtendWhole(block, already_squared)
  PROVE  Drops /\ Holding(S)' /\ GatedRecalculated
<1> DEFINE squares == Squared(block, already_squared)
<1>1. squares \in Seq(S) /\ Len(squares) \in Nat /\ Len(squares) >= MaxLen
  BY SquaredLength DEF GatedExtendWhole
<1>2. PushWhole(squares) /\ GatedRecalculated /\ Drops
  BY DEF GatedExtendWhole, Drops
<1> HIDE DEF squares
<1>3. \A i \in Index : Len(squares) - MaxLen + i + 1 \in 1 .. Len(squares)
  BY <1>1, MaxLenAssumption DEF Index
<1>4. buf' = [i \in Index |-> squares[Len(squares) - MaxLen + i + 1]]
      /\ write_head' = 0 /\ size' = MaxLen
  BY <1>2 DEF PushWhole
<1>5. buf' \in [Index -> S]
  BY <1>1, <1>3, <1>4
<1>6. 0 \in Index /\ MaxLen \in 0 .. MaxLen
  BY MaxLenAssumption DEF Index
<1> QED BY <1>2, <1>4, <1>5, <1>6 DEF Holding

LEMMA RemoveRecounts ==
  ASSUME NEW S, Holding(S), NEW target, GatedRemoveItems(target)
  PROVE  Drops /\ Holding(S)' /\ GatedRecalculated
<1> DEFINE start == GetStartPos(write_head, size)
<1>1. PICK f \in KeptOrder(Window, target) :
        /\ buf' = WriteData(buf, [i \in 1 .. Len(f) |-> Window[f[i]]], start)
        /\ size' = Len([i \in 1 .. Len(f) |-> Window[f[i]]])
        /\ write_head' = ExtendAdvanceHead(start, Len([i \in 1 .. Len(f) |-> Window[f[i]]]))
  BY DEF GatedRemoveItems, Filter
<1> DEFINE kept == [i \in 1 .. Len(f) |-> Window[f[i]]]
<1>2. kept \in Seq(S) /\ Len(kept) \in 0 .. size
  BY WindowHeld, KeptItems
<1>3. buf' = WriteData(buf, kept, start) /\ size' = Len(kept)
      /\ write_head' = ExtendAdvanceHead(start, Len(kept))
  BY <1>1
<1> HIDE DEF kept
<1>4. buf \in [Index -> S] /\ write_head \in Index /\ size \in 0 .. MaxLen
  BY DEF Holding
<1>5. buf' \in [Index -> S] /\ write_head' \in Index /\ size' \in 0 .. MaxLen
  BY <1>2, <1>3, <1>4, Compacts
<1> QED BY <1>5 DEF GatedRemoveItems, Holding, Drops

\* Every step is of one of six kinds.
LEMMA StepKinds ==
  ASSUME NEW S, Holding(S), Suits(S), [GatedNext]_gatedVars
  PROVE  \/ Drops /\ \E squares \in Seq(S) : Written(squares)
         \/ Drops /\ Holding(S)' /\ GatedRecalculated
         \/ Drops /\ UNCHANGED <<buf, write_head, size, gatedAccVars>>
         \/ GatedClear
         \/ GetGatedMean
         \/ UNCHANGED gatedVars
<1>1. ASSUME NEW already_squared \in BOOLEAN, NEW x \in GatedItems,
             already_squared => MayBeSquares(<<x>>), GatedAppend(x, already_squared)
      PROVE  Drops /\ \E squares \in Seq(S) : Written(squares)
  <2>1. Squared(<<x>>, already_squared) \in Seq(S)
    BY <1>1 DEF Suits
  <2> QED BY <1>1, <2>1, AppendWrites
<1>2. ASSUME NEW already_squared \in BOOLEAN, NEW block \in GatedBlocks,
             already_squared => MayBeSquares(block)
      PROVE  Squared(block, already_squared) \in Seq(S) /\ Len(block) \in Nat
  BY <1>2, GateAssumption DEF Suits
<1>3. ASSUME NEW already_squared \in BOOLEAN, NEW block \in GatedBlocks,
             already_squared => MayBeSquares(block), GatedExtendWhole(block, already_squared)
      PROVE  Drops /\ Holding(S)' /\ GatedRecalculated
  BY <1>2, <1>3, ExtendWholeRecounts
<1>4. ASSUME NEW already_squared \in BOOLEAN, NEW block \in GatedBlocks,
             already_squared => MayBeSquares(block), GatedExtendPart(block, already_squared)
      PROVE  Drops /\ \E squares \in Seq(S) : Written(squares)
  BY <1>2, <1>4, ExtendPartWrites
<1>5. ASSUME NEW block \in GatedBlocks, GatedExtendRaises(block)
      PROVE  Drops /\ UNCHANGED <<buf, write_head, size, gatedAccVars>>
  BY <1>5 DEF GatedExtendRaises, Drops
<1>6. CASE GatedClearCache
  BY <1>6 DEF GatedClearCache, Drops
<1>7. CASE GatedRecalculate
  BY <1>7 DEF GatedRecalculate, Drops, Holding
<1>8. ASSUME NEW target \in Targets, GatedRemoveItems(target)
      PROVE  Drops /\ Holding(S)' /\ GatedRecalculated
  BY <1>8, RemoveRecounts
<1> QED BY <1>1, <1>3, <1>4, <1>5, <1>6, <1>7, <1>8 DEF GatedNext
-------------------------------------------------------------------------------
(* The count is exact, and the types are kept.                             *)

GatedAccumulator ==
  /\ GatedCountExact
  /\ abs_gated_sum_sq_accum \in Number
  /\ accum_valid \in BOOLEAN /\ operations_since_recalc \in 0 .. MaxOps
  /\ ~accum_valid => ~IsFinite(abs_gated_sum_sq_accum)

GatedMeanOK(mean) == mean.sum \in Number /\ mean.count \in 0 .. MaxLen

GatedInv ==
  /\ Holding(Number) /\ GatedAccumulator /\ recalc_threshold \in Thresholds
  /\ GatedMeanOK(cached)

LEMMA NoMeanYet == GatedMeanOK(NoMean) /\ GatedMeanOK(Mean(Fin(0), 1))
<1>1. NaN \in Number /\ 0 \in 0 .. MaxLen /\ 1 \in 0 .. MaxLen
  BY MaxLenAssumption DEF Number
<1> QED BY <1>1, Zero DEF GatedMeanOK, NoMean, Mean

LEMMA GatedInitHolds == GatedInit => GatedInv
<1> SUFFICES ASSUME GatedInit
             PROVE  GatedInv
  OBVIOUS
<1>1. Holding(Number)
  BY Zero, MaxLenAssumption DEF GatedInit, InitUtility, InitRing, Holding, Index
<1>2. Window \in Seq(Number) /\ Len(Window) = 0
  BY <1>1, WindowHeld DEF GatedInit, InitUtility, InitRing
<1>3. Window = <<>>
  BY <1>2
<1>4. GatedAccumulator
  BY <1>3, LoudNothing, Zero, UtilityAssumption
     DEF GatedInit, InitUtility, GatedAccumulator, GatedCountExact
<1> QED BY <1>1, <1>4, NoMeanYet DEF GatedInit, InitUtility, GatedInv

\* A recalculation is exact whatever the step before it was.
LEMMA RecountKeeps ==
  ASSUME Holding(Number)', GatedRecalculated
  PROVE  GatedAccumulator'
<1> DEFINE result == SumAndCount(buf', write_head', size', AbsGate, 1)
<1>1. /\ abs_gated_sum_sq_accum' = result.sum /\ abs_gated_count_accum' = result.count
      /\ accum_valid' = IsFinite(result.sum) /\ operations_since_recalc' = 0
  BY DEF GatedRecalculated
<1>2. buf' \in [Index -> Number] /\ write_head' \in Index /\ size' \in 0 .. MaxLen
  BY DEF Holding
<1>3. result.sum \in Number /\ result.count = LoudCount(Held(buf', write_head', size'))
  BY <1>2, RecountType DEF LoudCount
<1>4. Window' = Held(buf', write_head', size')
  BY DEF Window, Oldest, Held
<1>5. LoudCount(Window') = LoudCount(Window)'
  BY DEF LoudCount, CountPassing, Passes
<1>6. 0 \in 0 .. MaxOps
  BY UtilityAssumption
<1> HIDE DEF result
<1> QED BY <1>1, <1>3, <1>4, <1>5, <1>6 DEF GatedAccumulator, GatedCountExact, IsFinite

\* What a write does to the items.
LEMMA WrittenSlides ==
  ASSUME NEW S, Holding(S), NEW squares \in Seq(S), Written(squares)
  PROVE  LET gone == Oldest(size + Len(squares) - size')
         IN  /\ Holding(S)' /\ Window' \in Seq(S) /\ Len(Window') = size'
             /\ Window \in Seq(S) /\ Len(Window) = size
             /\ gone \in Seq(S) /\ Len(gone) \in 0 .. size
             /\ gone \o Window' = Window \o squares
             /\ size' <= size + Len(squares) /\ Len(squares) \in 1 .. MaxLen
<1>1. /\ Len(squares) \in 1 .. MaxLen
      /\ buf' = WriteData(buf, squares, write_head)
      /\ write_head' = ExtendAdvanceHead(write_head, Len(squares))
      /\ size' = MinSz(MaxLen, size + Len(squares))
  BY DEF Written
<1>2. buf \in [Index -> S] /\ write_head \in Index /\ size \in 0 .. MaxLen
  BY DEF Holding
<1>3. Holding(S)' /\ size' <= size + Len(squares)
  <2>1. buf' \in [Index -> S] /\ write_head' \in Index /\ size' \in 0 .. MaxLen
    BY <1>1, <1>2, BlockType
  <2>2. size' <= size + Len(squares)
    BY <1>1, <1>2, MaxLenAssumption DEF MinSz
  <2> QED BY <2>1, <2>2 DEF Holding
<1>4. Window = Held(buf, write_head, size) /\ Window' = Held(buf', write_head', size')
  BY DEF Window, Oldest, Held
<1> DEFINE m     == MinSz(MaxLen, size + Len(squares))
           k     == size + Len(squares) - m
           gone  == ReadData(buf, GetStartPos(write_head, size), k)
           after == Held(WriteData(buf, squares, write_head),
                         ExtendAdvanceHead(write_head, Len(squares)), m)
<1>5. Oldest(size + Len(squares) - size') = gone
  BY <1>1 DEF Oldest
<1>6. /\ k \in 0 .. size /\ Len(gone) = k /\ Len(after) = m
      /\ Slides(S, gone, after, Held(buf, write_head, size), squares)
  BY <1>1, <1>2, ComingAndGoing
<1>7. Window' = after /\ m = size'
  BY <1>1, <1>4
<1>8. Window \in Seq(S) /\ Len(Window) = size
  BY WindowHeld
<1> HIDE DEF gone, after, m, k
<1> QED BY <1>1, <1>3, <1>4, <1>5, <1>6, <1>7, <1>8 DEF Slides

\* An adjusted sum is a number, and not finite if it was not.
LEMMA AdjustedType ==
  ASSUME abs_gated_sum_sq_accum \in Number, NEW squares \in Seq(Number),
         NEW gone \in Seq(Number), NEW sum \in Adjusted(squares, gone)
  PROVE  sum \in Number /\ (~IsFinite(abs_gated_sum_sq_accum) => ~IsFinite(sum))
<1> DEFINE moved == Plus(abs_gated_sum_sq_accum, Minus(LoudSum(squares), LoudSum(gone)))
<1>1. LoudSum(squares) \in Number /\ LoudSum(gone) \in Number
  BY GatedTotalType DEF LoudSum
<1>2. Minus(LoudSum(squares), LoudSum(gone)) \in Number
  BY <1>1, NegativeType, PlusType DEF Minus
<1>3. moved \in Number /\ (IsFinite(moved) => IsFinite(abs_gated_sum_sq_accum))
  BY <1>2, PlusType
<1>4. sum = abs_gated_sum_sq_accum \/ sum \in Near(moved, Drift)
  BY DEF Adjusted
<1> HIDE DEF moved
<1> QED BY <1>3, <1>4, NearType

\* A write of a block of at most the capacity keeps the count exact, adjusted or computed
\* anew.
LEMMA WrittenKeeps ==
  ASSUME GatedInv, NEW squares \in Seq(Number), Written(squares)
  PROVE  Holding(Number)' /\ GatedAccumulator'
<1> DEFINE gone == Oldest(size + Len(squares) - size')
           leaving == ~accum_valid /\ \E k \in 1 .. Len(gone) : ~IsFinite(gone[k])
           ops     == (IF leaving THEN size' ELSE operations_since_recalc) + Len(squares)
<1>1. /\ Holding(Number)' /\ Window' \in Seq(Number) /\ gone \in Seq(Number)
      /\ Window \in Seq(Number) /\ gone \o Window' = Window \o squares
      /\ Len(squares) \in 1 .. MaxLen
  <2>1. Holding(Number)
    BY DEF GatedInv
  <2> QED BY <2>1, WrittenSlides
<1>2. \/ GatedRecalculated
      \/ /\ abs_gated_sum_sq_accum' \in Adjusted(squares, gone)
         /\ abs_gated_count_accum' = abs_gated_count_accum
                                      + LoudCount(squares) - LoudCount(gone)
         /\ operations_since_recalc' = ops /\ ops <= MaxOps
         /\ UNCHANGED accum_valid
  BY DEF Written, GatedAdjust
<1>3. ops \in Nat
  <2>1. operations_since_recalc \in Nat /\ size' \in Nat /\ Len(squares) \in Nat
    BY <1>1, UtilityAssumption, MaxLenAssumption DEF GatedInv, GatedAccumulator, Holding
  <2> QED BY <2>1
<1> HIDE DEF gone, ops
<1>4. CASE GatedRecalculated
  BY <1>1, <1>4, RecountKeeps
<1>5. CASE /\ abs_gated_sum_sq_accum' \in Adjusted(squares, gone)
           /\ abs_gated_count_accum' = abs_gated_count_accum
                                        + LoudCount(squares) - LoudCount(gone)
           /\ operations_since_recalc' = ops /\ ops <= MaxOps
           /\ UNCHANGED accum_valid
  <2>1. /\ LoudCount(gone) \in Nat /\ LoudCount(Window') \in Nat
        /\ LoudCount(gone \o Window') = LoudCount(gone) + LoudCount(Window')
    BY <1>1, LoudConcat
  <2>2. /\ LoudCount(Window) \in Nat /\ LoudCount(squares) \in Nat
        /\ LoudCount(Window \o squares) = LoudCount(Window) + LoudCount(squares)
    BY <1>1, LoudConcat
  <2>3. abs_gated_count_accum = LoudCount(Window)
    BY DEF GatedInv, GatedAccumulator, GatedCountExact
  <2>4. abs_gated_count_accum' = LoudCount(Window')
    BY <1>1, <1>5, <2>1, <2>2, <2>3
  <2>5. LoudCount(Window') = LoudCount(Window)'
    BY DEF LoudCount, CountPassing, Passes
  <2>6. /\ abs_gated_sum_sq_accum' \in Number
        /\ ~IsFinite(abs_gated_sum_sq_accum) => ~IsFinite(abs_gated_sum_sq_accum')
    BY <1>1, <1>5, AdjustedType DEF GatedInv, GatedAccumulator
  <2>7. operations_since_recalc' \in 0 .. MaxOps
    BY <1>3, <1>5, UtilityAssumption
  <2>8. accum_valid' \in BOOLEAN /\ (~accum_valid' => ~IsFinite(abs_gated_sum_sq_accum'))
    BY <1>5, <2>6 DEF GatedInv, GatedAccumulator
  <2> QED BY <1>1, <2>4, <2>5, <2>6, <2>7, <2>8 DEF GatedAccumulator, GatedCountExact, IsFinite
<1> QED BY <1>2, <1>4, <1>5

LEMMA NothingCounted ==
  ASSUME Holding(Number), GatedAccumulator,
         UNCHANGED <<buf, write_head, size, gatedAccVars>>
  PROVE  Holding(Number)' /\ GatedAccumulator'
<1>1. Window' = Window
  BY DEF Window, Oldest
<1>2. LoudCount(Window)' = LoudCount(Window')
  BY DEF LoudCount, CountPassing, Passes
<1> QED BY <1>1, <1>2
       DEF Holding, GatedAccumulator, GatedCountExact, gatedAccVars, gateVars, IsFinite

\* The mean of a second pass over any cells.
LEMMA FinalMeanType ==
  ASSUME Holding(Number), NEW sum \in Number, NEW count
  PROVE  GatedMeanOK(FinalMean(sum, count))
<1>1. buf \in [Index -> Number] /\ write_head \in Index /\ size \in 0 .. MaxLen
  BY DEF Holding
<1>2. ASSUME NEW num, NEW den
      PROVE  /\ SumAndCount(buf, write_head, size, num, den).sum \in Number
             /\ SumAndCount(buf, write_head, size, num, den).count \in 0 .. MaxLen
  <2>1. /\ SumAndCount(buf, write_head, size, num, den).sum \in Number
        /\ SumAndCount(buf, write_head, size, num, den).count \in 0 .. size
    BY <1>1, RecountType
  <2> QED BY <1>1, <2>1, MaxLenAssumption
<1> DEFINE result == IF AbsGate * (count * RelDen) > sum.val * RelNum
                     THEN SumAndCount(buf, write_head, size, AbsGate, 1)
                     ELSE SumAndCount(buf, write_head, size, sum.val * RelNum, count * RelDen)
<1>3. FinalMean(sum, count) = IF ~IsFinite(sum) THEN Mean(sum, 1)
                              ELSE IF result.count = 0 THEN Mean(Fin(0), 1)
                              ELSE Mean(result.sum, result.count)
  BY DEF FinalMean
<1>4. result.sum \in Number /\ result.count \in 0 .. MaxLen
  BY <1>2
<1> HIDE DEF result
<1>5. 1 \in 0 .. MaxLen
  BY MaxLenAssumption
<1> QED BY <1>3, <1>4, <1>5, NoMeanYet DEF GatedMeanOK, Mean

\* What gated_mean_square leaves, by what it finds.
LEMMA GetGatedMeanCases ==
  ASSUME GetGatedMean
  PROVE  /\ UNCHANGED <<buf, write_head, size, recalc_threshold>> /\ returned' = cached'
         /\ \/ UNCHANGED <<cached, gatedAccVars>>
            \/ abs_gated_count_accum = 0 /\ cached' = Mean(Fin(0), 1) /\ UNCHANGED gatedAccVars
            \/ /\ abs_gated_count_accum # 0
               /\ \/ GatedShouldRecalc /\ GatedRecalculated
                  \/ ~GatedShouldRecalc /\ UNCHANGED gatedAccVars
               /\ cached' = FinalMean(abs_gated_sum_sq_accum', abs_gated_count_accum')
  BY DEF GetGatedMean

LEMMA GetGatedMeanKeeps ==
  ASSUME GatedInv, GetGatedMean
  PROVE  GatedInv'
<1>1. /\ UNCHANGED <<buf, write_head, size, recalc_threshold>>
      /\ Holding(Number) /\ GatedAccumulator /\ GatedMeanOK(cached)
      /\ recalc_threshold \in Thresholds
  BY GetGatedMeanCases DEF GatedInv
<1>2. Holding(Number)'
  BY <1>1 DEF Holding
<1>3. UNCHANGED gatedAccVars => GatedAccumulator'
  BY <1>1, NothingCounted
<1>4. GatedRecalculated => GatedAccumulator'
  BY <1>2, RecountKeeps
<1>5. GatedAccumulator'
  BY <1>3, <1>4, GetGatedMeanCases
<1>6. abs_gated_sum_sq_accum' \in Number
  BY <1>5 DEF GatedAccumulator
<1>7. GatedMeanOK(FinalMean(abs_gated_sum_sq_accum', abs_gated_count_accum'))
  BY <1>1, <1>6, FinalMeanType
<1>8. GatedMeanOK(cached')
  BY <1>1, <1>7, NoMeanYet, GetGatedMeanCases
<1> QED BY <1>1, <1>2, <1>5, <1>8 DEF GatedInv, GatedMeanOK

LEMMA ClearKeeps ==
  ASSUME Holding(Number), GatedClear
  PROVE  Holding(Number)' /\ Window' = <<>> /\ GatedAccumulator'
<1>1. Holding(Number)' /\ size' = 0 /\ abs_gated_count_accum' = 0
  BY MaxLenAssumption DEF GatedClear, Reset, Holding, Index
<1>2. Window' = <<>>
  <2>1. Window' = Held(buf', write_head', size')
    BY DEF Window, Oldest, Held
  <2>2. Window' \in Seq(Number) /\ Len(Window') = 0
    BY <1>1, <2>1, HeldType DEF Holding
  <2> QED BY <2>2
<1>3. LoudCount(Window)' = LoudCount(Window')
  BY DEF LoudCount, CountPassing, Passes
<1>4. GatedCountExact'
  BY <1>1, <1>2, <1>3, LoudNothing DEF GatedCountExact
<1> QED BY <1>1, <1>2, <1>4, Zero, UtilityAssumption DEF GatedClear, GatedAccumulator

LEMMA NumbersSuit == Suits(Number)
<1>1. ASSUME NEW already_squared \in BOOLEAN, NEW x \in GatedItems
      PROVE  Squared(<<x>>, already_squared) \in Seq(Number)
  <2>1. <<x>> \in Seq(Number)
    BY GateAssumption
  <2> QED BY <2>1, SquaredType
<1>2. ASSUME NEW already_squared \in BOOLEAN, NEW block \in GatedBlocks
      PROVE  Squared(block, already_squared) \in Seq(Number)
  BY GateAssumption, SquaredType
<1> QED BY <1>1, <1>2 DEF Suits

LEMMA GatedStepHolds == GatedInv /\ [GatedNext]_gatedVars => GatedInv'
<1> SUFFICES ASSUME GatedInv, [GatedNext]_gatedVars
             PROVE  GatedInv'
  OBVIOUS
<1>1. Holding(Number) /\ GatedAccumulator /\ recalc_threshold \in Thresholds /\ GatedMeanOK(cached)
  BY DEF GatedInv
<1>2. ASSUME Drops, Holding(Number)', GatedAccumulator'
      PROVE  GatedInv'
  <2>1. cached' = NoMean /\ recalc_threshold' \in Thresholds
    BY <1>1, <1>2 DEF Drops
  <2>2. GatedMeanOK(cached)' = GatedMeanOK(cached')
    BY DEF GatedMeanOK
  <2> QED BY <1>2, <2>1, <2>2, NoMeanYet DEF GatedInv
<1>3. CASE Drops /\ \E squares \in Seq(Number) : Written(squares)
  BY <1>2, <1>3, WrittenKeeps
<1>4. CASE Drops /\ Holding(Number)' /\ GatedRecalculated
  BY <1>2, <1>4, RecountKeeps
<1>5. CASE Drops /\ UNCHANGED <<buf, write_head, size, gatedAccVars>>
  BY <1>1, <1>2, <1>5, NothingCounted
<1>6. CASE GatedClear
  BY <1>1, <1>2, <1>6, ClearKeeps DEF GatedClear, Drops
<1>7. CASE GetGatedMean
  BY <1>7, GetGatedMeanKeeps
<1>8. CASE UNCHANGED gatedVars
  <2>1. Holding(Number)' /\ GatedAccumulator'
    BY <1>1, <1>8, NothingCounted DEF gatedVars
  <2> QED BY <1>1, <1>8, <2>1 DEF gatedVars, GatedInv, GatedMeanOK
<1> QED BY <1>1, <1>3, <1>4, <1>5, <1>6, <1>7, <1>8, NumbersSuit, StepKinds

LEMMA GatedInvImplies == GatedInv => GatedTypeOK /\ GatedCountExact
<1> SUFFICES ASSUME GatedInv
             PROVE  GatedTypeOK /\ GatedCountExact
  OBVIOUS
<1>1. /\ buf \in [Index -> Number] /\ write_head \in Index /\ size \in 0 .. MaxLen
      /\ recalc_threshold \in Thresholds /\ abs_gated_sum_sq_accum \in Number
      /\ accum_valid \in BOOLEAN /\ operations_since_recalc \in 0 .. MaxOps
      /\ cached.sum \in Number /\ cached.count \in 0 .. MaxLen
      /\ ~accum_valid => ~IsFinite(abs_gated_sum_sq_accum)
      /\ GatedCountExact
  BY DEF GatedInv, Holding, GatedAccumulator, GatedMeanOK
<1>2. Window \in Seq(Number) /\ Len(Window) = size
  BY WindowHeld DEF GatedInv
<1>3. abs_gated_count_accum \in 0 .. size
  BY <1>1, <1>2, CountType DEF GatedCountExact, LoudCount
<1> QED BY <1>1, <1>3 DEF GatedTypeOK

\* The head and the size stay in range, the count stays between zero, where a size_t would
\* wrap, and the size, and accum_valid is only lost with a sum that is not finite.
THEOREM GatedTypeCorrect == GatedSpec => []GatedTypeOK
  BY GatedInitHolds, GatedStepHolds, GatedInvImplies, PTL DEF GatedSpec

\* The count that divides the gated sum is the number of items above the absolute gate
\* after every call, whatever came, left, was filtered or raised.
THEOREM GatedCountStaysExact == GatedSpec => []GatedCountExact
  BY GatedInitHolds, GatedStepHolds, GatedInvImplies, PTL DEF GatedSpec
-------------------------------------------------------------------------------
(* The gated mean is the one of the items.                                 *)

\* The bound on the squares leaves room for two windows.
GatedBounded(m) ==
  /\ m \in Nat /\ 2 * (MaxLen * m) <= MaxFinite
  /\ \A x \in GatedItems : x \in GatedFit(m)
  /\ \A block \in GatedBlocks : block \in Seq(GatedFit(m))

LEMMA GatedRoom ==
  ASSUME NEW m, GatedBounded(m)
  PROVE  m \in Nat /\ m <= MaxFinite /\ Room(MaxLen, m) /\ Room(2 * MaxLen, m)
<1>1. m \in Nat /\ 2 * (MaxLen * m) <= MaxFinite /\ MaxLen \in Nat /\ 1 <= MaxLen
      /\ MaxFinite \in Nat
  BY MaxLenAssumption, MaxFiniteAssumption DEF GatedBounded
<1>2. 1 * m <= MaxLen * m /\ 0 * m <= MaxLen * m
  BY <1>1, LargerProduct
<1> DEFINE p == MaxLen * m
<1>3. p \in Int /\ m <= p /\ 0 <= p /\ 2 * p <= MaxFinite /\ (2 * MaxLen) * m = 2 * p
  BY <1>1, <1>2
<1> HIDE DEF p
<1>4. m <= MaxFinite /\ p <= MaxFinite
  BY <1>1, <1>3
<1> QED BY <1>1, <1>3, <1>4 DEF Room, p

LEMMA SquareOfFit ==
  ASSUME NEW m, GatedBounded(m), NEW x \in GatedFit(m)
  PROVE  Square(x) \in SquaresTo(m)
<1>1. m \in Nat /\ m <= MaxFinite /\ x \in Number
  BY GatedRoom DEF GatedFit
<1>2. CASE x = NaN \/ x = PosInf \/ x = NegInf
  <2>1. Square(x) = NaN \/ Square(x) = PosInf
    BY <1>2 DEF Square, IsNaN, IsInf, IsFinite, NaN, PosInf, NegInf
  <2> QED BY <2>1, SpecialsAreNot DEF SquaresTo, Within
<1>3. CASE IsFinite(x)
  <2> DEFINE v == x.val
             w == v * v
  <2>1. v \in Int /\ w <= m /\ x = Fin(v)
    BY <1>1, <1>3, Kinds, SpecialsAreNot DEF GatedFit
  <2>2. Square(x) = Rounded(w)
    BY <1>3 DEF Square, IsNaN, IsInf, IsFinite
  <2>3. w \in Int /\ 0 <= w
    <3> HIDE DEF v
    <3> QED BY <2>1
  <2> HIDE DEF v, w
  <2>4. w \in -MaxFinite .. MaxFinite /\ w \in -m .. m
    BY <1>1, <2>1, <2>3, MaxFiniteAssumption
  <2>5. Rounded(w) = Fin(w)
    BY <2>4, MaxFiniteAssumption DEF Rounded
  <2>6. Fin(w).val = w /\ Fin(w) # NegInf /\ Fin(w) \in Number
    BY <2>4 DEF Fin, NegInf, Number
  <2> QED BY <2>2, <2>3, <2>4, <2>5, <2>6 DEF SquaresTo, Within
<1> QED BY <1>1, <1>2, <1>3, Kinds

\* Items that a caller says are squares.
LEMMA FitAlready ==
  ASSUME NEW m, GatedBounded(m), NEW x \in GatedFit(m), x = NaN \/ x.val >= 0
  PROVE  x \in SquaresTo(m)
<1>1. x \in Number /\ (IsFinite(x) => x.val \in -m .. m)
  BY DEF GatedFit
<1>2. x # NegInf /\ (IsFinite(x) => x.val >= 0)
  BY DEF NegInf, NaN, IsFinite
<1> QED BY <1>1, <1>2 DEF SquaresTo, Within

LEMMA BlockFits ==
  ASSUME NEW m, GatedBounded(m), NEW block \in Seq(GatedFit(m)),
         NEW already_squared \in BOOLEAN, already_squared => MayBeSquares(block)
  PROVE  Squared(block, already_squared) \in Seq(SquaresTo(m))
<1>1. CASE already_squared
  <2>1. \A k \in 1 .. Len(block) : block[k] \in SquaresTo(m)
    BY <1>1, FitAlready DEF MayBeSquares
  <2> QED BY <1>1, <2>1 DEF Squared
<1>2. CASE ~already_squared
  <2>1. Squared(block, already_squared) = [i \in 1 .. Len(block) |-> Square(block[i])]
    BY <1>2 DEF Squared, Mapped
  <2>2. \A i \in 1 .. Len(block) : Square(block[i]) \in SquaresTo(m)
    BY SquareOfFit
  <2>3. [i \in 1 .. Len(block) |-> Square(block[i])] \in [1 .. Len(block) -> SquaresTo(m)]
    BY <2>2
  <2> QED BY <2>1, <2>3
<1> QED BY <1>1, <1>2

LEMMA SquaresSuit ==
  ASSUME NEW m, GatedBounded(m)
  PROVE  Suits(SquaresTo(m))
<1>1. ASSUME NEW already_squared \in BOOLEAN, NEW x \in GatedItems,
             already_squared => MayBeSquares(<<x>>)
      PROVE  Squared(<<x>>, already_squared) \in Seq(SquaresTo(m))
  <2>1. <<x>> \in Seq(GatedFit(m))
    BY DEF GatedBounded
  <2> QED BY <1>1, <2>1, BlockFits
<1>2. ASSUME NEW already_squared \in BOOLEAN, NEW block \in GatedBlocks,
             already_squared => MayBeSquares(block)
      PROVE  Squared(block, already_squared) \in Seq(SquaresTo(m))
  BY <1>2, BlockFits DEF GatedBounded
<1> QED BY <1>1, <1>2 DEF Suits

\* What the sums of squares come to.
LEMMA LoudWithin ==
  ASSUME NEW m, GatedBounded(m), NEW s \in Seq(SquaresTo(m)), Len(s) \in 0 .. MaxLen
  PROVE  /\ LoudSum(s) \in Within(MaxLen * m)
         /\ IsFinite(LoudSum(s)) <=> AllFinite(s, Len(s))
<1> DEFINE p == MaxLen * m
<1>1. PICK l \in Nat : l = Len(s) /\ l <= MaxLen
  BY MaxLenAssumption
<1>2. m \in Nat /\ MaxLen \in Nat /\ Room(MaxLen, m)
  BY GatedRoom, MaxLenAssumption
<1>3. l * m \in Nat /\ Room(l, m) /\ MaxLen * m \in Nat
  BY <1>1, <1>2, RoomForLess
<1>4. LoudSum(s) \in Sums(l, m) /\ (IsFinite(LoudSum(s)) <=> AllFinite(s, Len(s)))
  BY <1>1, <1>2, <1>3, GatedTotalWithin DEF LoudSum
<1>5. l * m <= MaxLen * m
  <2>1. l \in Int /\ MaxLen \in Int /\ m \in Nat /\ l <= MaxLen
    BY <1>1, <1>2
  <2> QED BY <2>1, LargerProduct, Zenon
<1> DEFINE q == l * m
<1>6. LoudSum(s) \in Within(q) /\ q \in Nat /\ p \in Nat /\ q <= p
  BY <1>3, <1>4, <1>5 DEF Sums
<1> HIDE DEF p, q
<1>7. LoudSum(s) \in Within(p)
  BY <1>6, MoreWithin
<1> QED BY <1>4, <1>7 DEF p

LEMMA LoudSumConcat ==
  ASSUME NEW m \in Nat, NEW s \in Seq(SquaresTo(m)), NEW t \in Seq(SquaresTo(m)),
         Room(Len(s) + Len(t), m)
  PROVE  LoudSum(s \o t) = Plus(LoudSum(s), LoudSum(t))
<1> DEFINE one == 1
<1>1. GatedTotal(s \o t, AbsGate, one) = Plus(GatedTotal(s, AbsGate, one), GatedTotal(t, AbsGate, one))
  <2> HIDE DEF one
  <2> QED BY GatedTotalConcat
<1> QED BY <1>1 DEF LoudSum, one

\* What a write of at most the capacity does to the sum of what is loud.
LEMMA WrittenMoves ==
  ASSUME NEW m, GatedBounded(m), Holding(SquaresTo(m)), NEW squares \in Seq(SquaresTo(m)),
         Written(squares), NEW gone, gone = Oldest(size + Len(squares) - size')
  PROVE  /\ Moves(MaxLen * m, LoudSum(Window), LoudSum(squares), LoudSum(gone),
                  LoudSum(Window'))
         /\ IsFinite(LoudSum(gone)) <=> AllFinite(gone, Len(gone))
<1> DEFINE now == Window'
           was == Window
           p   == MaxLen * m
<1>1. /\ now \in Seq(SquaresTo(m)) /\ Len(now) = size' /\ size' \in 0 .. MaxLen
      /\ was \in Seq(SquaresTo(m)) /\ Len(was) = size /\ size \in 0 .. MaxLen
      /\ gone \in Seq(SquaresTo(m)) /\ Len(gone) \in 0 .. size
      /\ gone \o now = was \o squares /\ Len(squares) \in 1 .. MaxLen
  <2>1. size \in 0 .. MaxLen
    BY DEF Holding
  <2>2. Holding(SquaresTo(m))' => size' \in 0 .. MaxLen
    BY DEF Holding
  <2> QED BY <2>1, <2>2, WrittenSlides
<1>2. m \in Nat /\ MaxLen \in Nat /\ Room(2 * MaxLen, m) /\ 2 * MaxLen \in Nat
  BY GatedRoom, MaxLenAssumption
<1>3. /\ Len(gone) \in 0 .. MaxLen /\ Len(now) \in 0 .. MaxLen /\ Len(was) \in 0 .. MaxLen
      /\ Len(squares) \in 0 .. MaxLen
  BY <1>1, MaxLenAssumption
<1> HIDE DEF now, was, p
<1>4. Room(Len(gone) + Len(now), m) /\ Room(Len(was) + Len(squares), m)
  <2>1. /\ Len(gone) + Len(now) \in Nat /\ Len(gone) + Len(now) <= 2 * MaxLen
        /\ Len(was) + Len(squares) \in Nat /\ Len(was) + Len(squares) <= 2 * MaxLen
    BY <1>3, MaxLenAssumption
  <2> QED BY <1>2, <2>1, RoomForLess
<1>5. LoudSum(gone \o now) = Plus(LoudSum(gone), LoudSum(now))
  <2>1. gone \in Seq(SquaresTo(m)) /\ now \in Seq(SquaresTo(m))
    BY <1>1
  <2> QED BY <1>2, <1>4, <2>1, LoudSumConcat
<1>6. LoudSum(was \o squares) = Plus(LoudSum(was), LoudSum(squares))
  <2>1. was \in Seq(SquaresTo(m))
    BY <1>1
  <2> QED BY <1>2, <1>4, <2>1, LoudSumConcat
<1>7. Plus(LoudSum(gone), LoudSum(now)) = Plus(LoudSum(was), LoudSum(squares))
  BY <1>1, <1>5, <1>6
<1>8. /\ LoudSum(gone) \in Within(p) /\ LoudSum(now) \in Within(p)
      /\ LoudSum(was) \in Within(p) /\ LoudSum(squares) \in Within(p)
      /\ IsFinite(LoudSum(gone)) <=> AllFinite(gone, Len(gone))
  BY <1>1, <1>3, LoudWithin DEF p
<1>9. p \in Nat /\ 2 * p <= MaxFinite
  BY <1>2 DEF GatedBounded, p
<1>10. Moves(p, LoudSum(was), LoudSum(squares), LoudSum(gone), LoudSum(now))
  BY <1>7, <1>8, <1>9 DEF Moves
<1> QED BY <1>8, <1>10 DEF now, was, p

\* Leaving a sum alone when nothing loud comes or goes is one way of rounding it.
LEMMA AdjustedNear ==
  ASSUME abs_gated_sum_sq_accum \in Number, NEW squares \in Seq(Number),
         NEW gone \in Seq(Number), NEW sum \in Adjusted(squares, gone)
  PROVE  sum \in Near(Plus(abs_gated_sum_sq_accum, Minus(LoudSum(squares), LoudSum(gone))), Drift)
<1> DEFINE a == abs_gated_sum_sq_accum
<1>1. CASE LoudCount(squares) = 0 /\ LoudCount(gone) = 0
  <2>1. LoudSum(squares) = Fin(0) /\ LoudSum(gone) = Fin(0)
    BY <1>1, NothingToSum DEF LoudCount, LoudSum
  <2>2. Minus(Fin(0), Fin(0)) = Fin(0)
    <3>1. Negative(Fin(0)) = Fin(0)
      BY DEF Negative, Fin
    <3> QED BY <3>1, Zero, PlusZero DEF Minus
  <2>3. Plus(a, Fin(0)) = a
    BY PlusZero
  <2>4. sum = a
    BY <1>1 DEF Adjusted
  <2>5. a \in Near(a, Drift)
    <3>1. CASE IsFinite(a)
      <4> DEFINE v == a.val
      <4>1. v \in -MaxFinite .. MaxFinite /\ a = Fin(v)
        BY <3>1, Kinds, SpecialsAreNot
      <4> HIDE DEF v
      <4>2. Fin(v).val = v /\ IsFinite(Fin(v)) /\ v + 0 = v
        BY <4>1, MaxFiniteAssumption DEF Fin, IsFinite
      <4>3. Rounded(v + 0) = Fin(v)
        BY <4>1, <4>2, MaxFiniteAssumption DEF Rounded
      <4>4. 0 \in -Drift .. Drift
        BY UtilityAssumption
      <4>5. Near(a, Drift) = {Rounded(v + e) : e \in -Drift .. Drift}
        BY <4>1, <4>2 DEF Near
      <4> QED BY <4>1, <4>3, <4>4, <4>5
    <3>2. CASE ~IsFinite(a)
      BY <3>2 DEF Near
    <3> QED BY <3>1, <3>2
  <2> QED BY <2>1, <2>2, <2>3, <2>4, <2>5
<1>2. CASE ~(LoudCount(squares) = 0 /\ LoudCount(gone) = 0)
  BY <1>2 DEF Adjusted
<1> QED BY <1>1, <1>2

SumIsSound ==
  Sound(abs_gated_sum_sq_accum, accum_valid, operations_since_recalc, LoudSum(Window), size)

\* Sums are constants of what they are sums of.
LEMMA SumPrimed == LoudSum(Window)' = LoudSum(Window')
  BY DEF LoudSum, GatedTotal, Total, Passes, Plus, Rounded, IsFinite, IsNaN, IsInf, Fin,
         NaN, PosInf, NegInf

LEMMA SoundPrimed ==
  ASSUME Sound(abs_gated_sum_sq_accum', accum_valid', operations_since_recalc',
               LoudSum(Window'), size')
  PROVE  SumIsSound'
  BY SumPrimed DEF SumIsSound, Sound, IsFinite, Distance

\* A sum computed anew is the sum.
LEMMA RecountFollows ==
  ASSUME NEW m, GatedBounded(m), Holding(SquaresTo(m))', GatedRecalculated
  PROVE  /\ SumIsSound' /\ abs_gated_sum_sq_accum' = LoudSum(Window')
         /\ operations_since_recalc' = 0
<1> DEFINE result == SumAndCount(buf', write_head', size', AbsGate, 1)
<1>1. /\ abs_gated_sum_sq_accum' = result.sum
      /\ accum_valid' = IsFinite(result.sum) /\ operations_since_recalc' = 0
  BY DEF GatedRecalculated
<1>2. buf' \in [Index -> SquaresTo(m)] /\ write_head' \in Index /\ size' \in 0 .. MaxLen
  BY DEF Holding
<1>3. result.sum = LoudSum(Held(buf', write_head', size'))
  BY <1>2, GatedRoom, RecountSums DEF LoudSum
<1>4. Window' = Held(buf', write_head', size')
  BY DEF Window, Oldest, Held
<1>5. result.sum \in Number
  <2>1. buf' \in [Index -> Number]
    BY <1>2, GatedRoom, SquaresAreNumbers
  <2> QED BY <1>2, <2>1, RecountType
<1> HIDE DEF result
<1>6. Sound(result.sum, IsFinite(result.sum), 0, result.sum, size')
  BY <1>5, RecountSound
<1> QED BY <1>1, <1>3, <1>4, <1>6, SoundPrimed

\* A write adjusts the sum by what it adds to the items and takes from them.
LEMMA WrittenFollows ==
  ASSUME NEW m, GatedBounded(m), GatedInv, Holding(SquaresTo(m)), SumIsSound,
         NEW squares \in Seq(SquaresTo(m)), Written(squares)
  PROVE  Holding(SquaresTo(m))' /\ SumIsSound'
<1> DEFINE gone    == Oldest(size + Len(squares) - size')
           leaving == ~accum_valid /\ \E k \in 1 .. Len(gone) : ~IsFinite(gone[k])
           ops     == (IF leaving THEN size' ELSE operations_since_recalc) + Len(squares)
<1>1. /\ Holding(SquaresTo(m))' /\ gone \in Seq(SquaresTo(m))
      /\ size' <= size + Len(squares) /\ Len(squares) \in 1 .. MaxLen
  BY WrittenSlides
<1>2. \/ GatedRecalculated
      \/ /\ abs_gated_sum_sq_accum' \in Adjusted(squares, gone)
         /\ operations_since_recalc' = ops /\ UNCHANGED accum_valid
  BY DEF Written, GatedAdjust
<1>3. CASE GatedRecalculated
  BY <1>1, <1>3, RecountFollows
<1>4. CASE /\ abs_gated_sum_sq_accum' \in Adjusted(squares, gone)
           /\ operations_since_recalc' = ops /\ UNCHANGED accum_valid
  <2>1. /\ Moves(MaxLen * m, LoudSum(Window), LoudSum(squares), LoudSum(gone),
                 LoudSum(Window'))
        /\ IsFinite(LoudSum(gone)) <=> AllFinite(gone, Len(gone))
    BY WrittenMoves
  <2>2. /\ abs_gated_sum_sq_accum \in Number /\ operations_since_recalc \in Nat
        /\ ~accum_valid => ~IsFinite(abs_gated_sum_sq_accum)
        /\ size \in Nat /\ size' \in Nat
    BY <1>1, UtilityAssumption, MaxLenAssumption DEF GatedInv, GatedAccumulator, Holding
  <2>3. Counts(Len(squares), accum_valid, operations_since_recalc, ops, LoudSum(gone),
               size, size')
    <3>1. ~accum_valid /\ ~leaving => IsFinite(LoudSum(gone))
      BY <2>1 DEF AllFinite
    <3> QED BY <1>1, <2>2, <3>1 DEF Counts
  <2>4. abs_gated_sum_sq_accum'
          \in Near(Plus(abs_gated_sum_sq_accum, Minus(LoudSum(squares), LoudSum(gone))), Drift)
    <3>1. squares \in Seq(Number) /\ gone \in Seq(Number)
      BY <1>1, GatedRoom, SquareSeqs
    <3> HIDE DEF gone
    <3> QED BY <1>4, <2>2, <3>1, AdjustedNear
  <2> HIDE DEF gone, ops, leaving
  <2>5. Sound(abs_gated_sum_sq_accum, accum_valid, operations_since_recalc, LoudSum(Window),
              size)
    BY DEF SumIsSound
  <2>6. Sound(abs_gated_sum_sq_accum', accum_valid, ops, LoudSum(Window'), size')
    BY <2>1, <2>2, <2>3, <2>4, <2>5, WriteSound
  <2>7. Sound(abs_gated_sum_sq_accum', accum_valid', operations_since_recalc',
              LoudSum(Window'), size')
    BY <1>4, <2>6
  <2> QED BY <1>1, <2>7, SoundPrimed
<1> QED BY <1>2, <1>3, <1>4

\* What the relative gate, applied to a mean of (sum + d) / count, lets pass of what is loud.
Kept(s, d) ==
  {k \in 1 .. Len(s) :
     Loud(s[k]) /\ s[k].val * (LoudCount(s) * RelDen) > (LoudSum(s).val + d) * RelNum}

\* A second pass that lets the same items pass computes the gated mean.
LEMMA PassIsMean ==
  ASSUME NEW s \in Seq(Number), IsFinite(LoudSum(s)), NEW num, NEW den, NEW d,
         {k \in 1 .. Len(s) : Passes(s[k], num, den)} = Kept(s, d)
  PROVE  (IF CountPassing(s, num, den) = 0 THEN Mean(Fin(0), 1)
          ELSE Mean(GatedTotal(s, num, den), CountPassing(s, num, den))) = GatedMean(s, d)
<1> DEFINE kept == Kept(s, d)
           sum  == Total([k \in 1 .. Len(s) |-> IF k \in kept THEN s[k] ELSE Fin(0)])
<1>1. GatedMean(s, d) = IF kept = {} THEN Mean(Fin(0), 1) ELSE Mean(sum, Cardinality(kept))
  BY DEF GatedMean, Kept
<1>2. CountPassing(s, num, den) = Cardinality(kept)
  BY DEF CountPassing
<1>3. CountPassing(s, num, den) = 0 <=> kept = {}
  BY NothingPasses
<1>4. \A k \in 1 .. Len(s) : k \in kept <=> Passes(s[k], num, den)
  OBVIOUS
<1> HIDE DEF kept
<1>5. [k \in 1 .. Len(s) |-> IF k \in kept THEN s[k] ELSE Fin(0)] = Masked(s, num, den)
  BY <1>4 DEF Masked
<1>6. sum = GatedTotal(s, num, den)
  BY <1>5 DEF GatedTotal, Masked
<1> HIDE DEF sum
<1> QED BY <1>1, <1>2, <1>3, <1>6

\* The greater of both gates: when r/e, the relative one, is below the absolute one, what is
\* loud exceeds it too; otherwise what exceeds it is loud.
LEMMA GreaterGate ==
  ASSUME NEW a \in Nat, NEW r \in Int, NEW e \in Nat, e >= 1, NEW v \in Int
  PROVE  /\ a * e > r => (v > a <=> v > a /\ v * e > r)
         /\ ~(a * e > r) => (v * e > r <=> v > a /\ v * e > r)
<1>1. v > a => a * e <= v * e
  BY LargerProduct
<1>2. ~(v > a) => v * e <= a * e
  BY LargerProduct
<1> DEFINE p == a * e
           q == v * e
<1>3. p \in Int /\ q \in Int
  OBVIOUS
<1> HIDE DEF p, q
<1>4. (v > a => p <= q) /\ (~(v > a) => q <= p)
  BY <1>1, <1>2 DEF p, q
<1>5. /\ p > r => (v > a <=> v > a /\ q > r)
      /\ ~(p > r) => (q > r <=> v > a /\ q > r)
  BY <1>3, <1>4
<1> QED BY <1>5 DEF p, q

LEMMA FinitePasses ==
  ASSUME NEW x \in Number, IsFinite(x), NEW num, NEW den
  PROVE  Passes(x, num, den) <=> x.val * den > num
  BY SpecialsAreNot DEF Passes, IsNaN, IsFinite

\* The second pass, with a first sum a of what is loud.
LEMMA FinalMeanFollows ==
  ASSUME NEW m, GatedBounded(m), Holding(SquaresTo(m)), NEW a \in Number, IsFinite(a),
         NEW c, c = LoudCount(Window), c # 0, IsFinite(LoudSum(Window))
  PROVE  FinalMean(a, c) = GatedMean(Window, a.val - LoudSum(Window).val)
<1> DEFINE s     == Window
           total == LoudSum(s).val
           d     == a.val - total
           r     == a.val * RelNum
           e     == c * RelDen
<1>1. s = Held(buf, write_head, size) /\ s \in Seq(SquaresTo(m)) /\ Len(s) = size
      /\ size \in 0 .. MaxLen /\ s \in Seq(Number) /\ m \in Nat
  <2>1. s = Held(buf, write_head, size) /\ s \in Seq(SquaresTo(m)) /\ Len(s) = size
    BY WindowHeld
  <2>2. size \in 0 .. MaxLen /\ m \in Nat
    BY GatedRoom DEF Holding
  <2> HIDE DEF s
  <2> QED BY <2>1, <2>2, SquareSeqs
<1>2. buf \in [Index -> SquaresTo(m)] /\ write_head \in Index /\ Room(MaxLen, m)
      /\ buf \in [Index -> Number]
  BY GatedRoom, SquaresAreNumbers DEF Holding
<1>3. /\ AllFinite(s, Len(s)) /\ total \in Int
  <2>1. LoudSum(s) \in Within(MaxLen * m) /\ AllFinite(s, Len(s))
    BY <1>1, LoudWithin
  <2> HIDE DEF s
  <2>2. LoudSum(s) \in Number
    BY <2>1 DEF Within
  <2> QED BY <2>1, <2>2, Kinds, SpecialsAreNot, MaxFiniteAssumption DEF s
<1>4. a.val \in Int /\ total + d = a.val
  <2>1. a.val \in Int
    BY Kinds, SpecialsAreNot, MaxFiniteAssumption
  <2> HIDE DEF total
  <2> QED BY <1>3, <2>1
<1>5. c \in Nat /\ c >= 1
  <2>1. c \in Nat
    BY <1>1, CountType DEF LoudCount
  <2> QED BY <2>1
<1>6. r \in Int /\ e \in Nat /\ e >= 1 /\ AbsGate \in Nat
  <2>1. RelNum \in Nat /\ RelDen \in Nat /\ 1 <= RelDen
    BY GateAssumption
  <2>2. 1 * c <= RelDen * c /\ RelDen * c \in Nat
    BY <1>5, <2>1, LargerProduct
  <2>3. e = RelDen * c /\ 1 * c = c
    BY <1>5, <2>1
  <2> QED BY <1>4, <1>5, <2>1, <2>2, <2>3, GateAssumption
<1>7. ASSUME NEW num, NEW den
      PROVE  /\ SumAndCount(buf, write_head, size, num, den).sum = GatedTotal(s, num, den)
             /\ SumAndCount(buf, write_head, size, num, den).count = CountPassing(s, num, den)
  BY <1>1, <1>2, RecountSums, RecountType
<1>8. Kept(s, d) = {k \in 1 .. Len(s) : Loud(s[k]) /\ s[k].val * e > r}
  BY <1>4 DEF Kept
<1> HIDE DEF r, e, d, total
<1>9. ASSUME NEW k \in 1 .. Len(s)
      PROVE  /\ Loud(s[k]) <=> s[k].val > AbsGate
             /\ Passes(s[k], r, e) <=> s[k].val * e > r
             /\ s[k].val \in Int
  <2>1. s[k] \in Number /\ IsFinite(s[k])
    BY <1>1, <1>3 DEF AllFinite
  <2> HIDE DEF s
  <2>2. s[k].val \in Int
    BY <2>1, Kinds, SpecialsAreNot, MaxFiniteAssumption
  <2>3. s[k].val * 1 = s[k].val
    BY <2>2
  <2> QED BY <2>1, <2>2, <2>3, FinitePasses DEF Loud
<1>10. FinalMean(a, c)
         = LET result == IF AbsGate * e > r
                         THEN SumAndCount(buf, write_head, size, AbsGate, 1)
                         ELSE SumAndCount(buf, write_head, size, r, e)
           IN  IF result.count = 0 THEN Mean(Fin(0), 1) ELSE Mean(result.sum, result.count)
  BY DEF FinalMean, r, e
<1> HIDE DEF s
<1>11. CASE AbsGate * e > r
  <2>1. ASSUME NEW k \in 1 .. Len(s)
        PROVE  Loud(s[k]) <=> Loud(s[k]) /\ s[k].val * e > r
    BY <1>6, <1>9, <1>11, GreaterGate
  <2>2. {k \in 1 .. Len(s) : Passes(s[k], AbsGate, 1)} = Kept(s, d)
    BY <1>8, <2>1 DEF Loud
  <2>3. (IF CountPassing(s, AbsGate, 1) = 0 THEN Mean(Fin(0), 1)
         ELSE Mean(GatedTotal(s, AbsGate, 1), CountPassing(s, AbsGate, 1))) = GatedMean(s, d)
    <3>1. IsFinite(LoudSum(s))
      BY DEF s
    <3> QED BY <1>1, <2>2, <3>1, PassIsMean
  <2> QED BY <1>7, <1>10, <1>11, <2>3 DEF s, d, total
<1>12. CASE ~(AbsGate * e > r)
  <2>1. ASSUME NEW k \in 1 .. Len(s)
        PROVE  Passes(s[k], r, e) <=> Loud(s[k]) /\ s[k].val * e > r
    BY <1>6, <1>9, <1>12, GreaterGate
  <2>2. {k \in 1 .. Len(s) : Passes(s[k], r, e)} = Kept(s, d)
    BY <1>8, <2>1
  <2>3. (IF CountPassing(s, r, e) = 0 THEN Mean(Fin(0), 1)
         ELSE Mean(GatedTotal(s, r, e), CountPassing(s, r, e))) = GatedMean(s, d)
    <3>1. IsFinite(LoudSum(s))
      BY DEF s
    <3> QED BY <1>1, <2>2, <3>1, PassIsMean
  <2> QED BY <1>7, <1>10, <1>12, <2>3 DEF s, d, total
<1> QED BY <1>11, <1>12

\* A mean of what is in s, whose first sum may be off by error.
GatedRight(mean, s, error) ==
  mean # NoMean => \E d \in -error .. error : mean = GatedMean(s, d)

LEMMA FinalMeanRight ==
  ASSUME NEW m, GatedBounded(m), Holding(SquaresTo(m)), NEW a \in Number,
         NEW c, c = LoudCount(Window), c # 0, NEW error \in Nat,
         \/ IsFinite(a) /\ IsFinite(LoudSum(Window)) /\ Distance(a, LoudSum(Window)) <= error
         \/ ~IsFinite(a) /\ a = LoudSum(Window)
  PROVE  GatedRight(FinalMean(a, c), Window, error)
<1> DEFINE s == Window
<1>1. CASE ~IsFinite(a) /\ a = LoudSum(s)
  <2>1. FinalMean(a, c) = Mean(a, 1)
    BY <1>1 DEF FinalMean
  <2>2. GatedMean(s, 0) = Mean(a, 1)
    BY <1>1 DEF GatedMean
  <2>3. 0 \in -error .. error
    OBVIOUS
  <2> QED BY <2>1, <2>2, <2>3 DEF GatedRight
<1>2. CASE /\ IsFinite(a) /\ IsFinite(LoudSum(s))
           /\ Distance(a, LoudSum(s)) <= error
  <2> DEFINE total == LoudSum(s)
             d     == a.val - total.val
  <2>1. FinalMean(a, c) = GatedMean(s, d)
    BY <1>2, FinalMeanFollows
  <2>2. a.val \in Int /\ total.val \in Int
    <3>1. s \in Seq(SquaresTo(m)) /\ Len(s) \in 0 .. MaxLen
      BY WindowHeld DEF Holding
    <3>2. total \in Within(MaxLen * m)
      BY <3>1, LoudWithin
    <3>3. total \in Number
      BY <3>2 DEF Within
    <3> QED BY <1>2, <3>3, Kinds, SpecialsAreNot, MaxFiniteAssumption
  <2>3. d \in -error .. error
    <3> HIDE DEF total
    <3>1. Distance(a, total) <= error
      BY <1>2 DEF total
    <3> QED BY <2>2, <3>1 DEF Distance
  <2> HIDE DEF d
  <2> QED BY <2>1, <2>3 DEF GatedRight
<1> QED BY <1>1, <1>2

LEMMA NoError == ASSUME NEW error \in Nat PROVE 0 \in -error .. error
  OBVIOUS

\* Nothing is loud: the mean is zero.
LEMMA SilentMean ==
  ASSUME NEW s \in Seq(Number), LoudCount(s) = 0, NEW error \in Nat
  PROVE  GatedRight(Mean(Fin(0), 1), s, error)
<1>1. LoudSum(s) = Fin(0) /\ IsFinite(Fin(0))
  BY NothingToSum DEF LoudCount, LoudSum, IsFinite, Fin
<1>2. \A k \in 1 .. Len(s) : ~Loud(s[k])
  BY NothingPasses DEF LoudCount, Loud
<1>3. Kept(s, 0) = {}
  BY <1>2 DEF Kept
<1>4. GatedMean(s, 0) = Mean(Fin(0), 1)
  <2>1. IsFinite(LoudSum(s)) /\ Kept(s, 0) = {}
    BY <1>1, <1>3
  <2> QED BY <2>1 DEF GatedMean, Kept
<1>5. 0 \in -error .. error
  BY NoError, Zenon
<1> QED BY <1>4, <1>5 DEF GatedRight

GatedError == Drift * operations_since_recalc

GatedMeansRight ==
  GatedRight(cached, Window, GatedError) /\ GatedRight(returned, Window, GatedError)

GatedFollows(m) == GatedInv /\ Holding(SquaresTo(m)) /\ SumIsSound /\ GatedMeansRight

\* A gated mean is a constant of what it is the mean of.
LEMMA MeansPrimed ==
  ASSUME GatedRight(cached', Window', GatedError'), GatedRight(returned', Window', GatedError')
  PROVE  GatedMeansRight'
  BY Zenon DEF GatedMeansRight, GatedRight, GatedMean, LoudSum, LoudCount, CountPassing, GatedTotal,
         Total, Passes, Loud, Plus, Rounded, Mean, NoMean, IsFinite, IsNaN, IsInf, Fin, NaN,
         PosInf, NegInf

LEMMA SumStaysSound ==
  ASSUME SumIsSound, UNCHANGED <<buf, write_head, size, gatedAccVars>>
  PROVE  SumIsSound' /\ Window' = Window /\ GatedError' = GatedError
<1>1. Window' = Window /\ size' = size
  BY DEF Window, Oldest
<1>2. /\ abs_gated_sum_sq_accum' = abs_gated_sum_sq_accum /\ accum_valid' = accum_valid
      /\ operations_since_recalc' = operations_since_recalc
  BY DEF gatedAccVars, gateVars
<1>3. Sound(abs_gated_sum_sq_accum', accum_valid', operations_since_recalc',
            LoudSum(Window'), size')
  BY <1>1, <1>2 DEF SumIsSound
<1> QED BY <1>1, <1>2, <1>3, SoundPrimed DEF GatedError

\* gated_mean_square.
LEMMA GetGatedMeanFollows ==
  ASSUME NEW m, GatedBounded(m), GatedFollows(m), GetGatedMean
  PROVE  GatedFollows(m)'
<1>1. /\ UNCHANGED <<buf, write_head, size>> /\ returned' = cached'
      /\ GatedInv /\ Holding(SquaresTo(m)) /\ SumIsSound
      /\ GatedRight(cached, Window, GatedError)
  BY GetGatedMeanCases DEF GatedFollows, GatedMeansRight
<1>2. GatedInv' /\ Holding(SquaresTo(m))' /\ Window' = Window
  BY <1>1, GetGatedMeanKeeps DEF Holding, Window, Oldest
<1>3. /\ abs_gated_sum_sq_accum \in Number /\ abs_gated_sum_sq_accum' \in Number
      /\ abs_gated_count_accum = LoudCount(Window) /\ operations_since_recalc \in Nat
      /\ ~accum_valid => ~IsFinite(abs_gated_sum_sq_accum)
      /\ size \in Nat
  BY <1>1, <1>2, UtilityAssumption, MaxLenAssumption
     DEF GatedInv, GatedAccumulator, GatedCountExact, Holding
<1>4. abs_gated_count_accum' = LoudCount(Window)
  <2>1. LoudCount(Window)' = LoudCount(Window')
    BY DEF LoudCount, CountPassing, Passes
  <2>2. abs_gated_count_accum' = LoudCount(Window)'
    BY <1>2 DEF GatedInv, GatedAccumulator, GatedCountExact
  <2> QED BY <1>2, <2>1, <2>2
<1>5. GatedError \in Nat
  <2>1. Drift * operations_since_recalc \in Nat
    BY <1>3, MoreDrift
  <2> QED BY <2>1 DEF GatedError
<1>6. ASSUME SumIsSound', GatedRight(cached', Window, GatedError')
      PROVE  GatedFollows(m)'
  <2>1. GatedMeansRight'
    BY <1>1, <1>2, <1>6, MeansPrimed
  <2> QED BY <1>2, <1>6, <2>1 DEF GatedFollows, SquaresTo, Within, Holding
<1>7. CASE UNCHANGED <<cached, gatedAccVars>>
  BY <1>1, <1>6, <1>7, SumStaysSound
<1>8. CASE abs_gated_count_accum = 0 /\ cached' = Mean(Fin(0), 1) /\ UNCHANGED gatedAccVars
  <2>1. SumIsSound' /\ GatedError' = GatedError
    BY <1>1, <1>8, SumStaysSound
  <2>2. Window \in Seq(Number)
    BY WindowHeld DEF GatedFollows, GatedInv
  <2>3. GatedRight(Mean(Fin(0), 1), Window, GatedError)
    BY <1>3, <1>5, <1>8, <2>2, SilentMean
  <2> QED BY <1>6, <1>8, <2>1, <2>3
<1>9. CASE /\ abs_gated_count_accum # 0 /\ GatedRecalculated
           /\ cached' = FinalMean(abs_gated_sum_sq_accum', abs_gated_count_accum')
  <2>1. /\ SumIsSound' /\ abs_gated_sum_sq_accum' = LoudSum(Window)
        /\ operations_since_recalc' = 0
    BY <1>2, <1>9, RecountFollows
  <2>2. GatedError' = 0
    BY <2>1, UtilityAssumption DEF GatedError
  <2>3. abs_gated_count_accum' # 0
    BY <1>3, <1>4, <1>9
  <2>4. IsFinite(abs_gated_sum_sq_accum') =>
          Distance(abs_gated_sum_sq_accum', LoudSum(Window)) <= 0
    BY <1>3, <2>1, NoDistance
  <2> DEFINE error == 0
  <2>5. error \in Nat
    OBVIOUS
  <2> HIDE DEF error
  <2>6. GatedRight(FinalMean(abs_gated_sum_sq_accum', abs_gated_count_accum'), Window, error)
    BY <1>1, <1>3, <1>4, <2>1, <2>3, <2>4, <2>5, FinalMeanRight DEF error
  <2> QED BY <1>6, <1>9, <2>1, <2>2, <2>6 DEF error
<1>10. CASE /\ abs_gated_count_accum # 0 /\ ~GatedShouldRecalc /\ UNCHANGED gatedAccVars
            /\ cached' = FinalMean(abs_gated_sum_sq_accum', abs_gated_count_accum')
  <2>1. SumIsSound' /\ GatedError' = GatedError
    BY <1>1, <1>10, SumStaysSound
  <2>2. abs_gated_sum_sq_accum' = abs_gated_sum_sq_accum /\ abs_gated_count_accum' # 0
    BY <1>3, <1>4, <1>10 DEF gatedAccVars, gateVars
  <2> DEFINE a == abs_gated_sum_sq_accum
  <2>3. \/ IsFinite(a) /\ IsFinite(LoudSum(Window)) /\ Distance(a, LoudSum(Window)) <= GatedError
        \/ ~IsFinite(a) /\ a = LoudSum(Window)
    <3>1. CASE accum_valid
      BY <1>1, <1>10, <3>1 DEF GatedShouldRecalc, SumIsSound, Sound, GatedError
    <3>2. CASE ~accum_valid
      <4>1. operations_since_recalc < size
        BY <1>3, <1>10, <3>2 DEF GatedShouldRecalc
      <4> QED BY <1>1, <1>3, <3>2, <4>1 DEF SumIsSound, Sound
    <3> QED BY <3>1, <3>2
  <2>4. GatedRight(FinalMean(a, abs_gated_count_accum'), Window, GatedError)
    BY <1>1, <1>3, <1>4, <1>5, <2>2, <2>3, FinalMeanRight
  <2> QED BY <1>6, <1>10, <2>1, <2>2, <2>4
<1> QED BY <1>7, <1>8, <1>9, <1>10, GetGatedMeanCases

LEMMA GatedInitFollows ==
  ASSUME NEW m, GatedBounded(m), GatedInit
  PROVE  GatedFollows(m)
<1>1. GatedInv
  BY GatedInitHolds
<1>2. Holding(SquaresTo(m))
  BY <1>1, GatedRoom, SquaresAreNumbers DEF GatedInit, InitUtility, InitRing, GatedInv, Holding
<1>3. LoudSum(<<>>) = Fin(0)
  <2>1. <<>> \in Seq(Number) /\ LoudCount(<<>>) = 0
    BY LoudNothing
  <2> QED BY <2>1, NothingToSum DEF LoudCount, LoudSum
<1>4. Window = <<>>
  <2>1. Window \in Seq(Number) /\ Len(Window) = 0
    BY <1>1, WindowHeld DEF GatedInv, GatedInit, InitUtility, InitRing
  <2> QED BY <2>1
<1>5. Sound(Fin(0), IsFinite(Fin(0)), 0, Fin(0), 0)
  BY Zero, RecountSound
<1>6. SumIsSound
  BY <1>3, <1>4, <1>5 DEF SumIsSound, Sound, GatedInit, InitUtility, InitRing
<1>7. GatedMeansRight
  BY DEF GatedInit, InitUtility, GatedMeansRight, GatedRight
<1> QED BY <1>1, <1>2, <1>6, <1>7 DEF GatedFollows

LEMMA GatedStepFollows ==
  ASSUME NEW m, GatedBounded(m), GatedFollows(m), [GatedNext]_gatedVars
  PROVE  GatedFollows(m)'
<1>1. GatedInv /\ Holding(SquaresTo(m)) /\ SumIsSound
  BY DEF GatedFollows
<1>2. GatedInv'
  BY <1>1, GatedStepHolds
<1>3. ASSUME Holding(SquaresTo(m))', SumIsSound', Drops
      PROVE  GatedFollows(m)'
  <2>1. GatedMeansRight'
    BY <1>3, MeansPrimed DEF Drops, GatedRight
  <2> QED BY <1>2, <1>3, <2>1 DEF GatedFollows, Holding, SquaresTo, Within
<1>4. ASSUME UNCHANGED <<buf, write_head, size>>
      PROVE  Holding(SquaresTo(m))'
  BY <1>1, <1>4 DEF Holding
<1>5. CASE Drops /\ \E squares \in Seq(SquaresTo(m)) : Written(squares)
  BY <1>1, <1>3, <1>5, WrittenFollows
<1>6. CASE Drops /\ Holding(SquaresTo(m))' /\ GatedRecalculated
  BY <1>3, <1>6, RecountFollows
<1>7. CASE Drops /\ UNCHANGED <<buf, write_head, size, gatedAccVars>>
  BY <1>1, <1>3, <1>4, <1>7, SumStaysSound
<1>8. CASE GatedClear
  <2>1. Holding(SquaresTo(m))'
    BY <1>1, <1>8, MaxLenAssumption DEF GatedClear, Reset, Holding, Index
  <2>2. Window' = <<>>
    BY <1>1, <1>8, ClearKeeps DEF GatedInv
  <2>3. LoudSum(<<>>) = Fin(0)
    <3>1. <<>> \in Seq(Number) /\ LoudCount(<<>>) = 0
      BY LoudNothing
    <3> QED BY <3>1, NothingToSum DEF LoudCount, LoudSum
  <2>4. IsFinite(Fin(0)) /\ Sound(Fin(0), IsFinite(Fin(0)), 0, Fin(0), 0)
    BY Zero, RecountSound DEF IsFinite, Fin
  <2>5. /\ abs_gated_sum_sq_accum' = Fin(0) /\ operations_since_recalc' = 0
        /\ accum_valid' = TRUE /\ size' = 0 /\ Drops
    BY <1>8 DEF GatedClear, Reset, Drops
  <2>6. Sound(abs_gated_sum_sq_accum', accum_valid', operations_since_recalc',
              LoudSum(Window'), size')
    BY <2>2, <2>3, <2>4, <2>5 DEF Sound
  <2>7. SumIsSound'
    BY <2>6, SoundPrimed
  <2> QED BY <1>3, <2>1, <2>5, <2>7
<1>9. CASE GetGatedMean
  BY <1>9, GetGatedMeanFollows
<1>10. CASE UNCHANGED gatedVars
  <2>1. /\ UNCHANGED <<buf, write_head, size, gatedAccVars>>
        /\ cached' = cached /\ returned' = returned
    BY <1>10 DEF gatedVars
  <2>2. SumIsSound' /\ Window' = Window /\ GatedError' = GatedError
    BY <1>1, <2>1, SumStaysSound
  <2>3. GatedMeansRight'
    BY <2>1, <2>2, MeansPrimed DEF GatedFollows, GatedMeansRight
  <2>4. Holding(SquaresTo(m))'
    BY <1>4, <2>1
  <2> QED BY <1>2, <2>2, <2>3, <2>4 DEF GatedFollows, Holding, SquaresTo, Within
<1> QED BY <1>1, <1>5, <1>6, <1>7, <1>8, <1>9, <1>10, SquaresSuit, StepKinds

LEMMA GatedFollowsImplies ==
  ASSUME NEW m, GatedFollows(m)
  PROVE  GatedMeanFollowsItems
  BY DEF GatedFollows, GatedMeansRight, GatedRight, GatedError, GatedMeanFollowsItems

\* What gated_mean_square returns is the gated mean of the items there are, for every gate,
\* threshold, capacity and mix of items and blocks, while no finite sum overflows.
THEOREM GatedMeanStaysRight ==
  ASSUME NoGateOverflows
  PROVE  GatedSpec => []GatedMeanFollowsItems
<1>1. PICK m \in 0 .. MaxFinite : GatedBounded(m)
  BY MaxFiniteAssumption DEF NoGateOverflows, GatedBounded
<1>2. GatedInit => GatedFollows(m)
  BY <1>1, GatedInitFollows
<1>3. GatedFollows(m) /\ [GatedNext]_gatedVars => GatedFollows(m)'
  BY <1>1, GatedStepFollows
<1>4. GatedFollows(m) => GatedMeanFollowsItems
  BY GatedFollowsImplies
<1> QED BY <1>2, <1>3, <1>4, PTL DEF GatedSpec
===============================================================================

------------------------- MODULE UtilityBuffer_proofs -------------------------
(***************************************************************************)
(* Sums of the numbers of ExtendedReals, and how far an adjusted           *)
(* accumulator is from the sum of the items: what the theorems about all   *)
(* three buffers with statistics rest on.                                  *)
(***************************************************************************)
EXTENDS UtilityBuffer, CircKernel_proofs, WellFoundedInduction

(* A set that holds zero and every successor holds every number.           *)
LEMMA SetInduction ==
  ASSUME NEW T, T \subseteq Nat, 0 \in T, \A n \in T : n + 1 \in T
  PROVE  Nat \subseteq T
<1> DEFINE U == Nat \ T
           R == OpToRel(<, Nat)
<1>1. IsWellFoundedOn(R, Nat)
  BY NatLessThanWellFounded, Zenon
<1>2. U \subseteq Nat
  OBVIOUS
<1>3. \A x, y \in Nat : <<y, x>> \in R <=> y < x
  BY Zenon DEF OpToRel
<1> HIDE DEF R
<1> SUFFICES ASSUME U # {}
             PROVE  FALSE
  OBVIOUS
<1> HIDE DEF U
<1>4. PICK m \in U : \A k \in U : ~(<<k, m>> \in R)
  BY <1>1, <1>2, WFMin
<1>5. m \in Nat /\ m # 0 /\ m \notin T
  BY DEF U
<1>6. m - 1 \in Nat /\ m - 1 < m /\ (m - 1) + 1 = m
  BY <1>5
<1>7. m - 1 \notin U
  BY <1>3, <1>4, <1>5, <1>6
<1>8. m - 1 \in T
  BY <1>6, <1>7 DEF U
<1> QED BY <1>5, <1>6, <1>8
-------------------------------------------------------------------------------
(* Sums.                                                                   *)

\* The loop of a sum over s, with what it has added up after each of its n steps.
SumLoop(s, f, n) == f = [k \in 0 .. n |-> IF k = 0 THEN Fin(0) ELSE Plus(f[k - 1], s[k])]

LEMMA LoopExists ==
  ASSUME NEW s
  PROVE  \A n \in Nat : \E f : SumLoop(s, f, n)
<1> DEFINE T == {n \in Nat : \E f : SumLoop(s, f, n)}
<1>1. 0 \in T
  <2>1. SumLoop(s, [k \in 0 .. 0 |-> Fin(0)], 0)
    BY DEF SumLoop
  <2> QED BY <2>1
<1>2. ASSUME NEW n \in T
      PROVE  n + 1 \in T
  <2>1. n \in Nat /\ n + 1 \in Nat /\ \E f : SumLoop(s, f, n)
    OBVIOUS
  <2>2. PICK f : SumLoop(s, f, n)
    BY <2>1
  <2> DEFINE g == [k \in 0 .. n + 1 |-> IF k \in 0 .. n THEN f[k] ELSE Plus(f[n], s[n + 1])]
  <2>3. ASSUME NEW k \in 0 .. n + 1
        PROVE  g[k] = IF k = 0 THEN Fin(0) ELSE Plus(g[k - 1], s[k])
    <3>1. CASE k = 0
      BY <2>1, <2>2, <3>1 DEF SumLoop
    <3>2. CASE k \in 1 .. n
      <4>1. k \in 0 .. n /\ k - 1 \in 0 .. n /\ k # 0 /\ k - 1 \in 0 .. n + 1
        BY <2>1, <3>2
      <4>2. g[k] = f[k] /\ g[k - 1] = f[k - 1]
        BY <4>1
      <4>3. f[k] = Plus(f[k - 1], s[k])
        BY <2>2, <4>1 DEF SumLoop
      <4> QED BY <4>1, <4>2, <4>3
    <3>3. CASE k = n + 1
      <4>1. k \notin 0 .. n /\ k - 1 = n /\ n \in 0 .. n /\ k # 0 /\ n \in 0 .. n + 1
        BY <2>1, <3>3
      <4>2. g[k] = Plus(f[n], s[n + 1]) /\ g[n] = f[n]
        BY <4>1
      <4> HIDE DEF g
      <4> QED BY <3>3, <4>1, <4>2
    <3> QED BY <2>1, <3>1, <3>2, <3>3
  <2>4. g = [k \in 0 .. n + 1 |-> g[k]]
    OBVIOUS
  <2> HIDE DEF g
  <2>5. SumLoop(s, g, n + 1)
    BY <2>3, <2>4 DEF SumLoop
  <2>6. \E h : SumLoop(s, h, n + 1)
    BY <2>5
  <2> QED BY <2>1, <2>6
<1>3. T \subseteq Nat
  OBVIOUS
<1> HIDE DEF T
<1>4. Nat \subseteq T
  BY <1>1, <1>2, <1>3, SetInduction
<1> QED BY <1>4 DEF T

LEMMA TotalLoops ==
  ASSUME NEW s, Len(s) \in Nat
  PROVE  \E f : Total(s) = f[Len(s)] /\ SumLoop(s, f, Len(s))
<1> DEFINE P(f) == f = [k \in 0 .. Len(s) |-> IF k = 0 THEN Fin(0) ELSE Plus(f[k - 1], s[k])]
           c    == CHOOSE f : P(f)
<1>1. P(c)
  <2>1. \E f : P(f)
    BY LoopExists DEF SumLoop
  <2> HIDE DEF P
  <2> QED BY <2>1
<1>2. Total(s) = c[Len(s)]
  BY Zenon DEF Total
<1> HIDE DEF c
<1> QED BY <1>1, <1>2 DEF SumLoop

\* A sum stays in every set that has zero and the sums of any two of its members.
LEMMA TotalIn ==
  ASSUME NEW S, Fin(0) \in S, \A x, y \in S : Plus(x, y) \in S, NEW s \in Seq(S)
  PROVE  Total(s) \in S
<1>1. Len(s) \in Nat /\ \A k \in 1 .. Len(s) : s[k] \in S
  OBVIOUS
<1>2. PICK f : Total(s) = f[Len(s)] /\ SumLoop(s, f, Len(s))
  BY <1>1, TotalLoops
<1> DEFINE T == {n \in Nat : n <= Len(s) => f[n] \in S}
<1>3. \A k \in 0 .. Len(s) : f[k] = IF k = 0 THEN Fin(0) ELSE Plus(f[k - 1], s[k])
  BY <1>2 DEF SumLoop
<1>4. 0 \in T
  BY <1>1, <1>3
<1>5. ASSUME NEW n \in T
      PROVE  n + 1 \in T
  <2>1. CASE n + 1 <= Len(s)
    <3>1. n \in Nat /\ n + 1 \in 0 .. Len(s) /\ n + 1 \in 1 .. Len(s) /\ f[n] \in S
      BY <1>1, <2>1
    <3>2. f[n + 1] = Plus(f[n], s[n + 1])
      BY <1>3, <3>1
    <3>3. f[n + 1] \in S
      BY <1>1, <3>1, <3>2
    <3> QED BY <3>1, <3>3
  <2> QED BY <2>1
<1>6. T \subseteq Nat
  OBVIOUS
<1> HIDE DEF T
<1>7. Len(s) \in T
  BY <1>1, <1>4, <1>5, <1>6, SetInduction
<1> QED BY <1>1, <1>2, <1>7 DEF T
-------------------------------------------------------------------------------
(* Numbers.                                                                *)

LEMMA Kinds ==
  ASSUME NEW x \in Number
  PROVE  \/ x = NaN \/ x = PosInf \/ x = NegInf
         \/ IsFinite(x) /\ x.val \in -MaxFinite .. MaxFinite /\ x = Fin(x.val)
  BY DEF Number, IsFinite, Fin

LEMMA RoundedType ==
  ASSUME NEW v \in Int
  PROVE  /\ Rounded(v) \in Number
         /\ IsFinite(Rounded(v)) => Rounded(v).val = v
  BY MaxFiniteAssumption DEF Rounded, Number, Fin, PosInf, NegInf, IsFinite

LEMMA NegativeType ==
  ASSUME NEW x \in Number
  PROVE  Negative(x) \in Number
<1>1. CASE x = NaN \/ x = PosInf \/ x = NegInf
  BY <1>1 DEF Negative, NaN, PosInf, NegInf, Number
<1>2. CASE IsFinite(x) /\ x.val \in -MaxFinite .. MaxFinite /\ x = Fin(x.val)
  <2> DEFINE v == x.val
  <2>1. v \in -MaxFinite .. MaxFinite /\ x = Fin(v)
    BY <1>2
  <2> HIDE DEF v
  <2>2. Negative(x) = Fin(-v)
    BY <2>1 DEF Negative, Fin
  <2>3. -v \in -MaxFinite .. MaxFinite
    BY <2>1, MaxFiniteAssumption
  <2> QED BY <2>2, <2>3 DEF Number
<1> QED BY <1>1, <1>2, Kinds

\* A sum is a number, and finite only if both of its parts are.
LEMMA PlusType ==
  ASSUME NEW x \in Number, NEW y \in Number
  PROVE  /\ Plus(x, y) \in Number
         /\ IsFinite(Plus(x, y)) =>
              IsFinite(x) /\ IsFinite(y) /\ Plus(x, y).val = x.val + y.val
<1> DEFINE Special(z) == z = NaN \/ z = PosInf \/ z = NegInf
<1>1. CASE IsFinite(x) /\ IsFinite(y)
  <2>1. x.val \in Int /\ y.val \in Int /\ ~IsNaN(x) /\ ~IsNaN(y)
    BY <1>1, Kinds, MaxFiniteAssumption DEF IsFinite, IsNaN, NaN, PosInf, NegInf
  <2>2. Plus(x, y) = Rounded(x.val + y.val)
    BY <1>1, <2>1 DEF Plus, IsFinite, IsInf
  <2>3. x.val + y.val \in Int
    BY <2>1
  <2> QED BY <1>1, <2>2, <2>3, RoundedType
<1>2. CASE Special(x) /\ Special(y)
  BY <1>2 DEF Plus, IsFinite, IsNaN, IsInf, NaN, PosInf, NegInf, Number
<1>3. CASE Special(x) /\ IsFinite(y)
  BY <1>3 DEF Plus, IsFinite, IsNaN, IsInf, NaN, PosInf, NegInf, Number
<1>4. CASE IsFinite(x) /\ Special(y)
  BY <1>4 DEF Plus, IsFinite, IsNaN, IsInf, NaN, PosInf, NegInf, Number
<1> QED BY <1>1, <1>2, <1>3, <1>4, Kinds

LEMMA NearType ==
  ASSUME NEW x \in Number, NEW y \in Near(x, Drift)
  PROVE  y \in Number /\ (~IsFinite(x) => ~IsFinite(y))
<1>1. CASE IsFinite(x)
  <2>1. x.val \in Int
    BY <1>1, Kinds, MaxFiniteAssumption DEF IsFinite, NaN, PosInf, NegInf
  <2>2. PICK e \in -Drift .. Drift : y = Rounded(x.val + e)
    BY <1>1 DEF Near
  <2>3. x.val + e \in Int
    BY <2>1, UtilityAssumption
  <2> QED BY <1>1, <2>2, <2>3, RoundedType
<1>2. CASE ~IsFinite(x)
  BY <1>2 DEF Near
<1> QED BY <1>1, <1>2

\* Not below zero, if it is finite at all.
NonNegative == {x \in Number : IsFinite(x) => x.val >= 0}

\* Below zero by ABS_TOL at most, if it is finite at all.
Tolerated == {x \in Number : IsFinite(x) => x.val >= -AbsTol}

LEMMA NonNegativeIsTolerated == NonNegative \subseteq Tolerated
<1> SUFFICES ASSUME NEW x \in NonNegative, IsFinite(x)
             PROVE  x.val >= -AbsTol
  BY DEF NonNegative, Tolerated
<1>1. x.val \in Int /\ x.val >= 0
  BY Kinds, MaxFiniteAssumption DEF NonNegative, IsFinite, NaN, PosInf, NegInf
<1> QED BY <1>1, UtilityAssumption

LEMMA Zero == Fin(0) \in Number /\ Fin(0) \in NonNegative
  BY MaxFiniteAssumption DEF Number, NonNegative, Fin

LEMMA NonNegativeSums ==
  ASSUME NEW x \in NonNegative, NEW y \in NonNegative
  PROVE  Plus(x, y) \in NonNegative
<1>1. x \in Number /\ y \in Number
  BY DEF NonNegative
<1>2. ASSUME IsFinite(Plus(x, y))
      PROVE  Plus(x, y).val >= 0
  <2>1. IsFinite(x) /\ IsFinite(y) /\ Plus(x, y).val = x.val + y.val
    BY <1>1, <1>2, PlusType
  <2>2. x.val \in Int /\ y.val \in Int
    BY <1>1, <2>1, Kinds, MaxFiniteAssumption DEF IsFinite, NaN, PosInf, NegInf
  <2>3. x.val >= 0 /\ y.val >= 0
    BY <2>1 DEF NonNegative
  <2> QED BY <2>1, <2>2, <2>3
<1> QED BY <1>1, <1>2, PlusType DEF NonNegative

-------------------------------------------------------------------------------
(* Sums that do not overflow.                                              *)

\* Finite values of at most m.
Within(m) == {x \in Number : IsFinite(x) => x.val \in -m .. m}

\* A sum that cannot overflow is exact, and finite just when both parts are.
LEMMA PlusWithin ==
  ASSUME NEW p \in Nat, NEW q \in Nat, p + q <= MaxFinite,
         NEW x \in Within(p), NEW y \in Within(q)
  PROVE  /\ Plus(x, y) \in Within(p + q)
         /\ IsFinite(Plus(x, y)) <=> IsFinite(x) /\ IsFinite(y)
         /\ IsFinite(Plus(x, y)) => Plus(x, y) = Fin(x.val + y.val)
<1>1. x \in Number /\ y \in Number
  BY DEF Within
<1>2. Plus(x, y) \in Number
      /\ (IsFinite(Plus(x, y)) =>
            IsFinite(x) /\ IsFinite(y) /\ Plus(x, y).val = x.val + y.val)
  BY <1>1, PlusType
<1>3. CASE IsFinite(x) /\ IsFinite(y)
  <2>1. x.val \in -p .. p /\ y.val \in -q .. q /\ ~IsNaN(x) /\ ~IsNaN(y)
    BY <1>3 DEF Within, IsFinite, IsNaN
  <2>2. Plus(x, y) = Rounded(x.val + y.val)
    BY <1>3, <2>1 DEF Plus, IsFinite, IsInf
  <2>3. x.val + y.val \in -(p + q) .. p + q
    BY <2>1
  <2>4. Rounded(x.val + y.val) = Fin(x.val + y.val)
    BY <2>3, MaxFiniteAssumption DEF Rounded
  <2>5. IsFinite(Fin(x.val + y.val)) /\ Fin(x.val + y.val).val = x.val + y.val
    BY DEF Fin, IsFinite
  <2> QED BY <1>2, <1>3, <2>2, <2>3, <2>4, <2>5 DEF Within
<1>4. CASE ~(IsFinite(x) /\ IsFinite(y))
  BY <1>2, <1>4 DEF Within
<1> QED BY <1>3, <1>4

\* What a sum that is not finite comes to.
LEMMA PlusSpecial ==
  /\ \A x \in Number : Plus(x, NaN) = NaN /\ Plus(NaN, x) = NaN
  /\ Plus(PosInf, PosInf) = PosInf /\ Plus(NegInf, NegInf) = NegInf
  /\ Plus(PosInf, NegInf) = NaN /\ Plus(NegInf, PosInf) = NaN
  /\ \A x \in Number : IsFinite(x) => /\ Plus(x, PosInf) = PosInf /\ Plus(PosInf, x) = PosInf
                                      /\ Plus(x, NegInf) = NegInf /\ Plus(NegInf, x) = NegInf
<1>1. \A x \in Number : Plus(x, NaN) = NaN /\ Plus(NaN, x) = NaN
  BY DEF Plus, IsNaN, IsInf, IsFinite, NaN, PosInf, NegInf
<1>2. /\ Plus(PosInf, PosInf) = PosInf /\ Plus(NegInf, NegInf) = NegInf
      /\ Plus(PosInf, NegInf) = NaN /\ Plus(NegInf, PosInf) = NaN
  BY DEF Plus, IsNaN, IsInf, IsFinite, NaN, PosInf, NegInf
<1>3. ASSUME NEW x \in Number, IsFinite(x)
      PROVE  /\ Plus(x, PosInf) = PosInf /\ Plus(PosInf, x) = PosInf
             /\ Plus(x, NegInf) = NegInf /\ Plus(NegInf, x) = NegInf
  BY <1>3 DEF Plus, IsNaN, IsInf, IsFinite, NaN, PosInf, NegInf
<1> QED BY <1>1, <1>2, <1>3

LEMMA SpecialsAreNot ==
  /\ ~IsFinite(NaN) /\ ~IsFinite(PosInf) /\ ~IsFinite(NegInf)
  /\ NaN # PosInf /\ NaN # NegInf /\ PosInf # NegInf
  /\ NaN \in Number /\ PosInf \in Number /\ NegInf \in Number
  BY DEF IsFinite, NaN, PosInf, NegInf, Number

\* Without overflow it does not matter how a sum is split.
LEMMA PlusAssociates ==
  ASSUME NEW p \in Nat, NEW q \in Nat, NEW r \in Nat, p + q + r <= MaxFinite,
         NEW x \in Within(p), NEW y \in Within(q), NEW z \in Within(r)
  PROVE  Plus(Plus(x, y), z) = Plus(x, Plus(y, z))
<1>1. x \in Number /\ y \in Number /\ z \in Number
  BY DEF Within
<1>2. /\ p + q <= MaxFinite /\ q + r <= MaxFinite /\ p + q \in Nat /\ q + r \in Nat
      /\ (p + q) + r <= MaxFinite /\ p + (q + r) <= MaxFinite
  BY MaxFiniteAssumption
<1>3. /\ Plus(x, y) \in Within(p + q) /\ Plus(y, z) \in Within(q + r)
      /\ IsFinite(Plus(x, y)) <=> IsFinite(x) /\ IsFinite(y)
      /\ IsFinite(Plus(y, z)) <=> IsFinite(y) /\ IsFinite(z)
      /\ Plus(x, y) \in Number /\ Plus(y, z) \in Number
  <2>1. /\ Plus(x, y) \in Within(p + q)
        /\ IsFinite(Plus(x, y)) <=> IsFinite(x) /\ IsFinite(y)
    BY <1>2, PlusWithin
  <2>2. /\ Plus(y, z) \in Within(q + r)
        /\ IsFinite(Plus(y, z)) <=> IsFinite(y) /\ IsFinite(z)
    BY <1>2, PlusWithin
  <2> QED BY <2>1, <2>2 DEF Within
<1>4. CASE IsFinite(x) /\ IsFinite(y) /\ IsFinite(z)
  <2>1. Plus(x, y) = Fin(x.val + y.val) /\ Plus(y, z) = Fin(y.val + z.val)
    BY <1>2, <1>4, PlusWithin
  <2>2. /\ IsFinite(Plus(Plus(x, y), z))
        /\ Plus(Plus(x, y), z) = Fin(Plus(x, y).val + z.val)
    BY <1>2, <1>3, <1>4, PlusWithin
  <2>3. /\ IsFinite(Plus(x, Plus(y, z)))
        /\ Plus(x, Plus(y, z)) = Fin(x.val + Plus(y, z).val)
    BY <1>2, <1>3, <1>4, PlusWithin
  <2>4. Plus(x, y).val = x.val + y.val /\ Plus(y, z).val = y.val + z.val
    BY <2>1 DEF Fin
  <2>5. x.val \in Int /\ y.val \in Int /\ z.val \in Int
    BY <1>4 DEF Within
  <2> QED BY <2>2, <2>3, <2>4, <2>5
<1>5. CASE ~(IsFinite(x) /\ IsFinite(y) /\ IsFinite(z))
  <2>1. \A v \in {x, y, z} : v = NaN \/ v = PosInf \/ v = NegInf \/ IsFinite(v)
    BY <1>1, Kinds
  <2>2. CASE x = NaN \/ y = NaN \/ z = NaN
    BY <1>1, <1>3, <2>2, PlusSpecial
  <2>3. CASE ~(x = NaN \/ y = NaN \/ z = NaN)
    <3>1. CASE x = PosInf
      BY <1>1, <1>3, <2>1, <2>3, <3>1, PlusSpecial, SpecialsAreNot
    <3>2. CASE x = NegInf
      BY <1>1, <1>3, <2>1, <2>3, <3>2, PlusSpecial, SpecialsAreNot
    <3>3. CASE IsFinite(x)
      BY <1>1, <1>3, <1>5, <2>1, <2>3, <3>3, PlusSpecial, SpecialsAreNot
    <3> QED BY <2>1, <2>3, <3>1, <3>2, <3>3
  <2> QED BY <2>2, <2>3
<1> QED BY <1>4, <1>5

\* Sums of n items of at most m, and whether they all stay in range.
Sums(n, m) == Within(n * m)
Room(n, m) == n * m <= MaxFinite

LEMMA SumsOfNone ==
  ASSUME NEW m \in Nat
  PROVE  Fin(0) \in Sums(0, m) /\ IsFinite(Fin(0))
<1>1. 0 * m = 0
  OBVIOUS
<1> QED BY <1>1, Zero DEF Sums, Within, Fin, IsFinite

LEMMA RoomForLess ==
  ASSUME NEW m \in Nat, NEW l \in Nat, Room(l, m), NEW n \in Nat, n <= l
  PROVE  n * m \in Nat /\ Room(n, m)
<1>1. 0 * m <= n * m /\ 0 * m = 0 /\ n * m <= l * m
  BY LargerProduct
<1> DEFINE p == n * m
           q == l * m
<1>2. p \in Nat /\ q \in Int /\ p <= q /\ q <= MaxFinite
  BY <1>1 DEF Room
<1> HIDE DEF p, q
<1>3. p \in Nat /\ p <= MaxFinite
  BY <1>2, MaxFiniteAssumption
<1> QED BY <1>3 DEF Room, p

\* Two sums whose items together have room.
LEMMA SumsAdd ==
  ASSUME NEW m \in Nat, NEW l \in Nat, Room(l, m), NEW n \in Nat, NEW k \in Nat, n + k <= l,
         NEW x \in Sums(n, m), NEW y \in Sums(k, m)
  PROVE  /\ Plus(x, y) \in Sums(n + k, m)
         /\ IsFinite(Plus(x, y)) <=> IsFinite(x) /\ IsFinite(y)
         /\ IsFinite(Plus(x, y)) => Plus(x, y) = Fin(x.val + y.val)
<1> DEFINE p == n * m
           q == k * m
<1>1. p \in Nat /\ q \in Nat /\ (n + k) * m = p + q
  <2>1. n <= l /\ k <= l
    OBVIOUS
  <2> QED BY <2>1, RoomForLess
<1>2. p + q <= MaxFinite
  <2>1. n + k \in Nat
    OBVIOUS
  <2>2. Room(n + k, m)
    BY <2>1, RoomForLess
  <2> HIDE DEF p, q
  <2> QED BY <1>1, <2>2 DEF Room
<1>3. x \in Within(p) /\ y \in Within(q)
  BY DEF Sums
<1> HIDE DEF p, q
<1>4. /\ Plus(x, y) \in Within(p + q)
      /\ IsFinite(Plus(x, y)) <=> IsFinite(x) /\ IsFinite(y)
      /\ IsFinite(Plus(x, y)) => Plus(x, y) = Fin(x.val + y.val)
  BY <1>1, <1>2, <1>3, PlusWithin
<1>5. Sums(n + k, m) = Within(p + q)
  BY <1>1 DEF Sums
<1> QED BY <1>4, <1>5

LEMMA SumsOfOne ==
  ASSUME NEW m \in Nat
  PROVE  Sums(1, m) = Within(m)
<1>1. 1 * m = m
  OBVIOUS
<1> QED BY <1>1 DEF Sums

LEMMA SumsAssociate ==
  ASSUME NEW m \in Nat, NEW l \in Nat, Room(l, m),
         NEW i \in Nat, NEW j \in Nat, NEW k \in Nat, i + j + k <= l,
         NEW x \in Sums(i, m), NEW y \in Sums(j, m), NEW z \in Sums(k, m)
  PROVE  Plus(Plus(x, y), z) = Plus(x, Plus(y, z))
<1> DEFINE p == i * m
           q == j * m
           r == k * m
<1>1. p \in Nat /\ q \in Nat /\ r \in Nat /\ (i + j + k) * m = p + q + r
  <2>1. i <= l /\ j <= l /\ k <= l
    OBVIOUS
  <2>2. p \in Nat /\ q \in Nat /\ r \in Nat
    BY <2>1, RoomForLess
  <2> QED BY <2>2
<1>2. p + q + r <= MaxFinite
  <2>1. i + j + k \in Nat
    OBVIOUS
  <2>2. Room(i + j + k, m)
    BY <2>1, RoomForLess
  <2> HIDE DEF p, q, r
  <2> QED BY <1>1, <2>2 DEF Room
<1>3. x \in Within(p) /\ y \in Within(q) /\ z \in Within(r)
  BY DEF Sums
<1> HIDE DEF p, q, r
<1> QED BY <1>1, <1>2, <1>3, PlusAssociates

\* Whether the first n items are finite.
AllFinite(s, n) == \A k \in 1 .. n : IsFinite(s[k])

\* What a loop over items of at most m has added up after n of them.
SumSound(s, f, m, n) ==
  /\ f[n] \in Sums(n, m)
  /\ IsFinite(f[n]) <=> AllFinite(s, n)

\* A loop over items of at most m, none of whose sums overflows.
LEMMA LoopWithin ==
  ASSUME NEW m \in Nat, NEW s \in Seq(Within(m)), NEW l \in Nat, Len(s) = l, Room(l, m),
         NEW f, SumLoop(s, f, l)
  PROVE  \A n \in 0 .. l : SumSound(s, f, m, n)
<1> DEFINE Good(n) == SumSound(s, f, m, n)
           T == {n \in Nat : n <= l => Good(n)}
<1>1. /\ \A k \in 1 .. l : s[k] \in Sums(1, m)
      /\ \A k \in 0 .. l : f[k] = IF k = 0 THEN Fin(0) ELSE Plus(f[k - 1], s[k])
  BY SumsOfOne DEF SumLoop
<1>2. Good(0)
  <2>1. f[0] = Fin(0)
    BY <1>1
  <2> QED BY <2>1, SumsOfNone DEF AllFinite, SumSound
<1>3. ASSUME NEW n \in Nat, n + 1 <= l, Good(n)
      PROVE  Good(n + 1)
  <2>1. n + 1 \in 0 .. l /\ n + 1 \in 1 .. l /\ n + 1 # 0 /\ (n + 1) - 1 = n
    BY <1>3
  <2>2. f[n + 1] = Plus(f[n], s[n + 1]) /\ s[n + 1] \in Sums(1, m)
    BY <1>1, <2>1
  <2>3. /\ Plus(f[n], s[n + 1]) \in Sums(n + 1, m)
        /\ IsFinite(Plus(f[n], s[n + 1])) <=> IsFinite(f[n]) /\ IsFinite(s[n + 1])
    BY <1>3, <2>2, SumsAdd DEF SumSound
  <2>4. AllFinite(s, n + 1) <=> AllFinite(s, n) /\ IsFinite(s[n + 1])
    <3>1. \A k \in 1 .. n + 1 : k \in 1 .. n \/ k = n + 1
      OBVIOUS
    <3>2. \A k \in 1 .. n : k \in 1 .. n + 1
      OBVIOUS
    <3>3. n + 1 \in 1 .. n + 1
      OBVIOUS
    <3> QED BY <3>1, <3>2, <3>3 DEF AllFinite
  <2> QED BY <1>3, <2>2, <2>3, <2>4 DEF SumSound
<1> HIDE DEF Good
<1>4. T \subseteq Nat /\ 0 \in T
  BY <1>2
<1>5. ASSUME NEW n \in T
      PROVE  n + 1 \in T
  BY <1>3
<1> HIDE DEF T
<1>6. Nat \subseteq T
  BY <1>4, <1>5, SetInduction
<1>7. ASSUME NEW n \in 0 .. l
      PROVE  Good(n)
  BY <1>6 DEF T
<1> QED BY <1>7 DEF Good

\* A sum of items of at most m is finite just when they all are.
LEMMA TotalWithin ==
  ASSUME NEW m \in Nat, NEW s \in Seq(Within(m)), Room(Len(s), m)
  PROVE  /\ Total(s) \in Sums(Len(s), m)
         /\ IsFinite(Total(s)) <=> AllFinite(s, Len(s))
<1>1. PICK l \in Nat : l = Len(s)
  OBVIOUS
<1>2. PICK f : Total(s) = f[l] /\ SumLoop(s, f, l)
  BY <1>1, TotalLoops
<1>3. l \in 0 .. l
  OBVIOUS
<1>4. Room(l, m)
  BY <1>1
<1>5. \A n \in 0 .. l : SumSound(s, f, m, n)
  BY <1>1, <1>2, <1>4, LoopWithin
<1>6. SumSound(s, f, m, l)
  BY <1>3, <1>5, Zenon
<1> QED BY <1>1, <1>2, <1>6, Zenon DEF SumSound

\* Two loops over the same items come to the same sum.
LEMMA SameLoops ==
  ASSUME NEW s, NEW t, NEW n \in Nat, NEW l \in Nat, n <= l, NEW f, NEW g,
         SumLoop(s, f, n), SumLoop(t, g, l), \A k \in 1 .. n : s[k] = t[k]
  PROVE  f[n] = g[n]
<1> DEFINE T == {k \in Nat : k <= n => f[k] = g[k]}
<1>1. /\ \A k \in 0 .. n : f[k] = IF k = 0 THEN Fin(0) ELSE Plus(f[k - 1], s[k])
      /\ \A k \in 0 .. l : g[k] = IF k = 0 THEN Fin(0) ELSE Plus(g[k - 1], t[k])
  BY DEF SumLoop
<1>2. 0 \in T
  BY <1>1
<1>3. ASSUME NEW k \in T
      PROVE  k + 1 \in T
  <2> SUFFICES ASSUME k + 1 <= n
               PROVE  f[k + 1] = g[k + 1]
    OBVIOUS
  <2>1. /\ k \in Nat /\ f[k] = g[k] /\ k + 1 \in 0 .. n /\ k + 1 \in 0 .. l /\ k + 1 \in 1 .. n
        /\ k + 1 # 0 /\ (k + 1) - 1 = k
    OBVIOUS
  <2>2. f[k + 1] = Plus(f[k], s[k + 1]) /\ g[k + 1] = Plus(g[k], t[k + 1])
    BY <1>1, <2>1
  <2> QED BY <2>1, <2>2
<1>4. T \subseteq Nat
  OBVIOUS
<1> HIDE DEF T
<1>5. Nat \subseteq T
  BY <1>2, <1>3, <1>4, SetInduction
<1> QED BY <1>5 DEF T

LEMMA PlusZero ==
  ASSUME NEW x \in Number
  PROVE  Plus(x, Fin(0)) = x /\ Plus(Fin(0), x) = x
<1>1. CASE IsFinite(x)
  <2>1. x.val \in -MaxFinite .. MaxFinite /\ x = Fin(x.val)
    BY <1>1, Kinds, SpecialsAreNot
  <2>2. Plus(x, Fin(0)) = Rounded(x.val + 0) /\ Plus(Fin(0), x) = Rounded(0 + x.val)
    BY <1>1 DEF Plus, IsFinite, IsNaN, IsInf, Fin
  <2>3. x.val + 0 = x.val /\ 0 + x.val = x.val
    BY <2>1, MaxFiniteAssumption
  <2>4. Rounded(x.val) = Fin(x.val)
    BY <2>1, MaxFiniteAssumption DEF Rounded
  <2> QED BY <2>1, <2>2, <2>3, <2>4
<1>2. CASE ~IsFinite(x)
  <2>1. x = NaN \/ x = PosInf \/ x = NegInf
    BY <1>2, Kinds
  <2>2. Fin(0) \in Number /\ IsFinite(Fin(0))
    BY Zero DEF IsFinite, Fin
  <2> QED BY <2>1, <2>2, PlusSpecial
<1> QED BY <1>1, <1>2

\* The sum of two sequences, one after the other, is the sum of their sums.
LEMMA TotalConcat ==
  ASSUME NEW m \in Nat, NEW s \in Seq(Within(m)), NEW t \in Seq(Within(m)),
         Room(Len(s) + Len(t), m)
  PROVE  Total(s \o t) = Plus(Total(s), Total(t))
<1> DEFINE u == s \o t
<1>1. PICK a \in Nat, b \in Nat : a = Len(s) /\ b = Len(t)
  OBVIOUS
<1>2. /\ u \in Seq(Within(m)) /\ Len(u) = a + b /\ a + b \in Nat /\ Room(a + b, m)
      /\ \A k \in 1 .. a : u[k] = s[k]
      /\ \A k \in 1 .. b : u[a + k] = t[k]
      /\ \A k \in 1 .. b : t[k] \in Sums(1, m)
  BY <1>1, SumsOfOne
<1> HIDE DEF u
<1>3. PICK f : Total(u) = f[a + b] /\ SumLoop(u, f, a + b)
  <2>1. Len(u) \in Nat
    BY <1>2
  <2> QED BY <1>2, <2>1, TotalLoops
<1>4. PICK g : Total(s) = g[a] /\ SumLoop(s, g, a)
  BY <1>1, TotalLoops
<1>5. PICK h : Total(t) = h[b] /\ SumLoop(t, h, b)
  BY <1>1, TotalLoops
<1>6. f[a] = g[a]
  <2>1. a <= a + b /\ \A k \in 1 .. a : s[k] = u[k]
    BY <1>2
  <2>2. g[a] = f[a]
    BY <1>2, <1>3, <1>4, <2>1, SameLoops
  <2> QED BY <2>2
<1>7. Room(a, m) /\ Room(b, m)
  <2>1. a <= a + b /\ b <= a + b
    OBVIOUS
  <2> QED BY <1>2, <2>1, RoomForLess
<1>8. g[a] \in Sums(a, m) /\ \A n \in 0 .. b : h[n] \in Sums(n, m)
  <2>1. \A n \in 0 .. a : SumSound(s, g, m, n)
    BY <1>1, <1>4, <1>7, LoopWithin
  <2>2. \A n \in 0 .. b : SumSound(t, h, m, n)
    BY <1>1, <1>5, <1>7, LoopWithin
  <2>3. a \in 0 .. a
    OBVIOUS
  <2> QED BY <2>1, <2>2, <2>3 DEF SumSound
<1>9. /\ \A k \in 0 .. a + b : f[k] = IF k = 0 THEN Fin(0) ELSE Plus(f[k - 1], u[k])
      /\ \A k \in 0 .. b : h[k] = IF k = 0 THEN Fin(0) ELSE Plus(h[k - 1], t[k])
  BY <1>3, <1>5 DEF SumLoop
<1> DEFINE Good(n) == f[a + n] = Plus(g[a], h[n])
           T == {n \in Nat : n <= b => Good(n)}
<1>10. Good(0)
  <2>1. h[0] = Fin(0) /\ a + 0 = a
    <3>1. 0 \in 0 .. b
      OBVIOUS
    <3>2. h[0] = Fin(0)
      BY <1>9, <3>1
    <3> QED BY <3>2
  <2>2. Plus(g[a], Fin(0)) = g[a]
    <3>1. g[a] \in Number
      BY <1>8 DEF Sums, Within
    <3> QED BY <3>1, PlusZero
  <2> QED BY <1>6, <2>1, <2>2
<1>11. ASSUME NEW n \in Nat, n + 1 <= b, Good(n)
       PROVE  Good(n + 1)
  <2>1. f[a + (n + 1)] = Plus(f[a + n], t[n + 1])
    <3> DEFINE j == a + (n + 1)
    <3>1. j \in 0 .. a + b /\ j # 0 /\ j - 1 = a + n /\ n + 1 \in 1 .. b
      BY <1>11
    <3>2. u[j] = t[n + 1]
      BY <1>2, <3>1
    <3> HIDE DEF j
    <3>3. f[j] = Plus(f[j - 1], u[j])
      BY <1>9, <3>1
    <3>4. f[j] = Plus(f[a + n], t[n + 1])
      BY <3>1, <3>2, <3>3
    <3> QED BY <3>4 DEF j
  <2>2. h[n + 1] = Plus(h[n], t[n + 1])
    <3>1. n + 1 \in 0 .. b /\ n + 1 # 0 /\ (n + 1) - 1 = n
      BY <1>11
    <3> QED BY <1>9, <3>1
  <2>3. Plus(Plus(g[a], h[n]), t[n + 1]) = Plus(g[a], Plus(h[n], t[n + 1]))
    <3>1. n \in 0 .. b /\ n + 1 \in 1 .. b /\ a + n + 1 <= a + b
      BY <1>11
    <3>2. h[n] \in Sums(n, m) /\ t[n + 1] \in Sums(1, m)
      BY <1>2, <1>8, <3>1
    <3> QED BY <1>2, <1>8, <3>1, <3>2, SumsAssociate
  <2> QED BY <1>11, <2>1, <2>2, <2>3
<1> HIDE DEF Good
<1>12. T \subseteq Nat /\ 0 \in T
  BY <1>10
<1>13. ASSUME NEW n \in T
       PROVE  n + 1 \in T
  BY <1>11
<1> HIDE DEF T
<1>14. b \in T
  BY <1>12, <1>13, SetInduction
<1>15. f[a + b] = Plus(g[a], h[b])
  BY <1>14 DEF T, Good
<1> QED BY <1>3, <1>4, <1>5, <1>15 DEF u
\* The same for a sequence that holds the items of both.
LEMMA TotalSplit ==
  ASSUME NEW m \in Nat, NEW p \in Seq(Within(m)), NEW q \in Seq(Within(m)),
         NEW r \in Seq(Within(m)), Len(r) = Len(p) + Len(q), Room(Len(r), m),
         \A i \in 1 .. Len(p) : r[i] = p[i],
         \A i \in 1 .. Len(q) : r[Len(p) + i] = q[i]
  PROVE  Total(r) = Plus(Total(p), Total(q))
<1>1. p \o q \in Seq(Within(m)) /\ Len(p \o q) = Len(r)
  OBVIOUS
<1>2. ASSUME NEW i \in 1 .. Len(r)
      PROVE  r[i] = (p \o q)[i]
  <2>1. CASE i <= Len(p)
    BY <2>1
  <2>2. CASE ~(i <= Len(p))
    <3>1. i - Len(p) \in 1 .. Len(q) /\ i = Len(p) + (i - Len(p))
      BY <2>2
    <3>2. r[i] = q[i - Len(p)]
      BY <3>1
    <3>3. (p \o q)[i] = q[i - Len(p)]
      BY <2>2
    <3> QED BY <3>2, <3>3
  <2> QED BY <2>1, <2>2
<1>3. r = p \o q
  BY <1>1, <1>2, SameItems
<1>4. Room(Len(p) + Len(q), m)
  OBVIOUS
<1>5. Total(p \o q) = Plus(Total(p), Total(q))
  BY <1>4, TotalConcat
<1> QED BY <1>3, <1>5
-------------------------------------------------------------------------------
(* An adjusted accumulator follows the sum of the items.                   *)

LEMMA MoreWithin ==
  ASSUME NEW p \in Nat, NEW q \in Nat, p <= q, NEW x \in Within(p)
  PROVE  x \in Within(q)
  BY DEF Within

LEMMA NegativeWithin ==
  ASSUME NEW p \in Nat, NEW x \in Within(p)
  PROVE  /\ Negative(x) \in Within(p)
         /\ IsFinite(Negative(x)) <=> IsFinite(x)
         /\ IsFinite(x) => Negative(x).val = -x.val
<1>1. x \in Number
  BY DEF Within
<1>2. Negative(x) \in Number
  BY <1>1, NegativeType
<1>3. /\ IsFinite(Negative(x)) <=> IsFinite(x)
      /\ IsFinite(x) => Negative(x).val = -x.val
  <2>1. CASE x = NaN \/ x = PosInf \/ x = NegInf
    BY <2>1 DEF Negative, NaN, PosInf, NegInf, IsFinite
  <2>2. CASE x = Fin(x.val)
    <3> DEFINE v == x.val
    <3>1. x = Fin(v)
      BY <2>2
    <3> HIDE DEF v
    <3>2. Negative(x) = Fin(-v) /\ x.val = v
      BY <3>1 DEF Negative, Fin
    <3>3. IsFinite(x) /\ IsFinite(Fin(-v)) /\ Fin(-v).val = -v
      BY <3>1 DEF IsFinite, Fin
    <3> QED BY <3>2, <3>3
  <2> QED BY <1>1, <2>1, <2>2, Kinds
<1> QED BY <1>2, <1>3 DEF Within

\* What a write adds and removes, when neither overflows.
LEMMA MinusWithin ==
  ASSUME NEW p \in Nat, 2 * p <= MaxFinite, NEW x \in Within(p), NEW y \in Within(p)
  PROVE  /\ Minus(x, y) \in Number
         /\ IsFinite(Minus(x, y)) <=> IsFinite(x) /\ IsFinite(y)
         /\ IsFinite(Minus(x, y)) => Minus(x, y).val = x.val - y.val
<1>1. /\ Negative(y) \in Within(p)
      /\ IsFinite(Negative(y)) <=> IsFinite(y)
      /\ IsFinite(y) => Negative(y).val = -y.val
  BY NegativeWithin
<1>2. /\ Plus(x, Negative(y)) \in Within(p + p)
      /\ IsFinite(Plus(x, Negative(y))) <=> IsFinite(x) /\ IsFinite(Negative(y))
      /\ IsFinite(Plus(x, Negative(y))) =>
           Plus(x, Negative(y)) = Fin(x.val + Negative(y).val)
  <2>1. p + p <= MaxFinite
    OBVIOUS
  <2> QED BY <1>1, <2>1, PlusWithin
<1>3. IsFinite(x) => x.val \in Int
  BY DEF Within
<1>4. IsFinite(y) => y.val \in Int
  BY DEF Within
<1>5. ASSUME IsFinite(Minus(x, y))
      PROVE  Minus(x, y).val = x.val - y.val
  <2>1. IsFinite(x) /\ IsFinite(y) /\ Minus(x, y) = Fin(x.val + (-y.val))
    BY <1>1, <1>2, <1>5 DEF Minus
  <2> QED BY <1>3, <1>4, <2>1 DEF Fin
<1> QED BY <1>1, <1>2, <1>5 DEF Minus, Within

\* An accumulator that is finite after a write was finite before it, and so is all that it
\* stands for: the write took it no further from the sum than it rounded.
LEMMA FiniteFollows ==
  ASSUME NEW p \in Nat, 2 * p <= MaxFinite,
         NEW was \in Within(p), NEW added \in Within(p),
         NEW removed \in Within(p), NEW is \in Within(p),
         Plus(removed, is) = Plus(was, added),
         NEW a \in Number, NEW b \in Near(Plus(a, Minus(added, removed)), Drift),
         IsFinite(b), IsFinite(a) => IsFinite(was)
  PROVE  /\ IsFinite(a) /\ IsFinite(is)
         /\ Distance(b, is) <= Distance(a, was) + Drift
<1>1. /\ Minus(added, removed) \in Number
      /\ IsFinite(Minus(added, removed)) <=> IsFinite(added) /\ IsFinite(removed)
      /\ IsFinite(Minus(added, removed)) => Minus(added, removed).val = added.val - removed.val
  BY MinusWithin
<1>2. /\ Plus(a, Minus(added, removed)) \in Number
      /\ IsFinite(Plus(a, Minus(added, removed))) =>
           /\ IsFinite(a) /\ IsFinite(Minus(added, removed))
           /\ Plus(a, Minus(added, removed)).val = a.val + Minus(added, removed).val
  BY <1>1, PlusType
<1>3. IsFinite(Plus(a, Minus(added, removed)))
  BY <1>2, NearType
<1>4. /\ IsFinite(a) /\ IsFinite(added) /\ IsFinite(removed) /\ IsFinite(was)
      /\ Plus(a, Minus(added, removed)).val = a.val + (added.val - removed.val)
  BY <1>1, <1>2, <1>3
<1>5. /\ a.val \in Int /\ added.val \in Int /\ removed.val \in Int /\ was.val \in Int
  <2>1. a.val \in Int
    BY <1>4, Kinds, SpecialsAreNot, MaxFiniteAssumption
  <2> QED BY <1>4, <2>1 DEF Within
<1>6. p + p <= MaxFinite
  OBVIOUS
<1>7. /\ IsFinite(is) /\ is.val \in Int
      /\ removed.val + is.val = was.val + added.val
  <2>1. /\ IsFinite(Plus(was, added)) <=> IsFinite(was) /\ IsFinite(added)
        /\ IsFinite(Plus(was, added)) => Plus(was, added) = Fin(was.val + added.val)
    BY <1>6, PlusWithin
  <2>2. /\ IsFinite(Plus(removed, is)) <=> IsFinite(removed) /\ IsFinite(is)
        /\ IsFinite(Plus(removed, is)) => Plus(removed, is) = Fin(removed.val + is.val)
    BY <1>6, PlusWithin
  <2>3. IsFinite(is) /\ Fin(removed.val + is.val) = Fin(was.val + added.val)
    BY <1>4, <2>1, <2>2
  <2>4. is.val \in Int
    BY <2>3 DEF Within
  <2> QED BY <2>3, <2>4 DEF Fin
<1>8. PICK e \in -Drift .. Drift : b = Rounded(Plus(a, Minus(added, removed)).val + e)
  BY <1>3 DEF Near
<1>9. Drift \in Nat /\ e \in Int /\ -Drift <= e /\ e <= Drift
  BY UtilityAssumption
<1>10. b.val = a.val + (added.val - removed.val) + e
  <2>1. Plus(a, Minus(added, removed)).val + e \in Int
    BY <1>4, <1>5, <1>9
  <2>2. b.val = Plus(a, Minus(added, removed)).val + e
    BY <1>8, <2>1, RoundedType
  <2> QED BY <1>4, <2>2
<1>11. b.val - is.val = (a.val - was.val) + e
  BY <1>5, <1>7, <1>9, <1>10
<1>12. b.val \in Int
  BY <1>5, <1>9, <1>10
<1>13. Distance(b, is) <= Distance(a, was) + Drift
  BY <1>5, <1>7, <1>9, <1>11, <1>12 DEF Distance
<1> QED BY <1>4, <1>7, <1>13

\* A spoilt accumulator that stands for a spoilt sum goes on to do so, as long as what
\* leaves is finite.
LEMMA SpoiltFollows ==
  ASSUME NEW p \in Nat, 2 * p <= MaxFinite,
         NEW was \in Within(p), NEW added \in Within(p),
         NEW removed \in Within(p), NEW is \in Within(p),
         Plus(removed, is) = Plus(was, added),
         NEW b \in Near(Plus(was, Minus(added, removed)), Drift),
         ~IsFinite(was), IsFinite(removed)
  PROVE  b = is
<1>1. was \in Number /\ added \in Number /\ removed \in Number /\ is \in Number
  BY DEF Within
<1>2. p + p <= MaxFinite
  OBVIOUS
<1>3. /\ IsFinite(Plus(was, added)) <=> IsFinite(was) /\ IsFinite(added)
      /\ IsFinite(Plus(removed, is)) <=> IsFinite(removed) /\ IsFinite(is)
  BY <1>2, PlusWithin
<1>4. ~IsFinite(is)
  BY <1>3
<1>5. is = NaN \/ is = PosInf \/ is = NegInf
  BY <1>1, <1>4, Kinds
<1>6. Plus(removed, is) = is
  BY <1>1, <1>5, PlusSpecial
<1>7. was = NaN \/ was = PosInf \/ was = NegInf
  BY <1>1, Kinds
<1>8. Plus(was, Minus(added, removed)) = is
  <2>1. CASE IsFinite(added)
    <3>1. Minus(added, removed) \in Number /\ IsFinite(Minus(added, removed))
      BY <2>1, MinusWithin
    <3>2. Plus(was, Minus(added, removed)) = was
      BY <1>7, <3>1, PlusSpecial
    <3>3. Plus(was, added) = was
      BY <1>1, <1>7, <2>1, PlusSpecial
    <3> QED BY <1>6, <3>2, <3>3
  <2>2. CASE ~IsFinite(added)
    <3>1. added = NaN \/ added = PosInf \/ added = NegInf
      BY <1>1, <2>2, Kinds
    <3>2. Negative(removed) \in Number /\ IsFinite(Negative(removed))
      BY NegativeWithin DEF Within
    <3>3. Minus(added, removed) = added
      BY <3>1, <3>2, PlusSpecial DEF Minus
    <3> QED BY <1>6, <3>3
  <2> QED BY <2>1, <2>2
<1>9. b = Plus(was, Minus(added, removed))
  BY <1>4, <1>8 DEF Near
<1> QED BY <1>8, <1>9
-------------------------------------------------------------------------------
\* What an accumulator a is worth, for n items that come to sum.
Sound(a, valid, ops, sum, n) ==
  /\ valid /\ IsFinite(a) => IsFinite(sum) /\ Distance(a, sum) <= Drift * ops
  /\ ~valid /\ ops < n => a = sum

LEMMA NoDistance ==
  ASSUME NEW x \in Number
  PROVE  IsFinite(x) => Distance(x, x) = 0
<1>1. IsFinite(x) => x.val \in Int
  BY Kinds, SpecialsAreNot, MaxFiniteAssumption
<1> QED BY <1>1 DEF Distance

LEMMA MoreDrift ==
  ASSUME NEW ops \in Nat, NEW n \in Nat, n >= 1
  PROVE  /\ Drift * ops \in Nat /\ Drift * ops + Drift <= Drift * (ops + n)
         /\ Drift * 0 = 0
<1>1. Drift \in Nat
  BY UtilityAssumption
<1>2. (ops + 1) * Drift <= (ops + n) * Drift /\ 0 * Drift <= ops * Drift
  BY <1>1, LargerProduct
<1>3. /\ (ops + 1) * Drift = Drift * ops + Drift /\ (ops + n) * Drift = Drift * (ops + n)
      /\ 0 * Drift = 0 /\ ops * Drift = Drift * ops /\ Drift * 0 = 0
      /\ Drift * ops \in Int
  BY <1>1
<1> QED BY <1>2, <1>3

\* A write moves the sum, from was to is.
Moves(p, was, added, removed, is) ==
  /\ p \in Nat /\ 2 * p <= MaxFinite
  /\ was \in Within(p) /\ added \in Within(p) /\ removed \in Within(p) /\ is \in Within(p)
  /\ Plus(removed, is) = Plus(was, added)

\* A write of n items counts them as operations, from ops to after, unless an item that is not
\* finite leaves and the accumulator is known to be spoilt.
Counts(n, valid, ops, after, removed, size0, size1) ==
  /\ n \in Nat /\ n >= 1 /\ ops \in Nat /\ size0 \in Nat /\ size1 \in Nat /\ size1 <= size0 + n
  /\ \/ after = ops + n /\ (~valid => IsFinite(removed))
     \/ ~valid /\ after = size1 + n

\* Such a write leaves the accumulator as sound as it was.
LEMMA WriteSound ==
  ASSUME NEW p, NEW was, NEW added, NEW removed, NEW is, Moves(p, was, added, removed, is),
         NEW a \in Number, NEW valid, NEW ops, ~valid => ~IsFinite(a),
         NEW n, NEW size0, NEW size1, NEW after,
         Counts(n, valid, ops, after, removed, size0, size1),
         Sound(a, valid, ops, was, size0),
         NEW b \in Near(Plus(a, Minus(added, removed)), Drift)
  PROVE  Sound(b, valid, after, is, size1)
<1> USE DEF Moves, Counts
<1>1. ASSUME valid, IsFinite(b)
      PROVE  IsFinite(is) /\ Distance(b, is) <= Drift * after
  <2>1. IsFinite(a) => IsFinite(was) /\ Distance(a, was) <= Drift * ops
    BY <1>1 DEF Sound
  <2>2. IsFinite(a) /\ IsFinite(is) /\ Distance(b, is) <= Distance(a, was) + Drift
    BY <1>1, <2>1, FiniteFollows
  <2>3. b.val \in Int /\ a.val \in Int
    <3>1. Minus(added, removed) \in Number
      BY MinusWithin
    <3>2. Plus(a, Minus(added, removed)) \in Number
      BY <3>1, PlusType
    <3>3. b \in Number
      BY <3>2, NearType
    <3> QED BY <1>1, <2>2, <3>3, Kinds, SpecialsAreNot, MaxFiniteAssumption
  <2>4. was.val \in Int /\ is.val \in Int
    BY <2>1, <2>2 DEF Within
  <2>5. Distance(b, is) \in Int /\ Distance(a, was) \in Int
    BY <2>3, <2>4 DEF Distance
  <2> DEFINE x == Drift * ops
             y == Drift * (ops + n)
  <2>6. x \in Nat /\ x + Drift <= y /\ y \in Int /\ Drift \in Nat
    BY MoreDrift, UtilityAssumption
  <2>7. Distance(a, was) <= x
    BY <2>1, <2>2
  <2>8. Distance(b, is) <= y
    <3> HIDE DEF x, y
    <3> QED BY <2>2, <2>5, <2>6, <2>7
  <2>9. after = ops + n
    BY <1>1
  <2> QED BY <2>2, <2>8, <2>9
<1>2. ASSUME ~valid, after < size1
      PROVE  b = is
  <2>1. ops < size0 /\ IsFinite(removed)
    BY <1>2
  <2>2. a = was /\ ~IsFinite(was)
    BY <1>2, <2>1 DEF Sound
  <2> QED BY <2>1, <2>2, SpoiltFollows
<1> QED BY <1>1, <1>2 DEF Sound

\* An accumulator computed anew.
LEMMA RecountSound ==
  ASSUME NEW a \in Number, NEW n
  PROVE  Sound(a, IsFinite(a), 0, a, n)
<1>1. Drift * 0 = 0
  BY UtilityAssumption
<1> QED BY <1>1, NoDistance DEF Sound

Cells == buf \in [Index -> Number] /\ write_head \in Index /\ size \in 0 .. MaxLen
===============================================================================

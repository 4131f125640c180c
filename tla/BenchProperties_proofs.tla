------------------------ MODULE BenchProperties_proofs ------------------------
(***************************************************************************)
(* The benchmark tools, for every machine, program, limit, size and        *)
(* calc_every: the arithmetic of bench_utils.py, and that the system of    *)
(* files, benchmarks, focus calls, executor and scripts keeps its          *)
(* properties.  The inductive invariant Inv says, component by component,  *)
(* how far each has come, and whose turn it is among them.                 *)
(***************************************************************************)
EXTENDS BenchProperties, FiniteSetTheorems, WellFoundedInduction, TLAPS

(* The arithmetic.                                                         *)

\* Division with remainder.
LEMMA Quotient ==
  ASSUME NEW a \in Nat, NEW b \in Nat \ {0}
  PROVE  /\ a \div b \in Nat
         /\ b * (a \div b) <= a /\ a < b * (a \div b) + b
  BY SMT

\* A number that leaves no remainder is a multiple.
LEMMA NoRemainder ==
  ASSUME NEW a \in Nat, NEW b \in Nat \ {0}, a % b = 0
  PROVE  \E d \in Nat : a = d * b
<1>1. a = (a \div b) * b /\ a \div b \in Nat
  BY SMT
<1> QED BY <1>1

\* The sizes a plan starts from are numbers.
LEMMA SizesType ==
  ASSUME NEW a \in PlanArgs
  PROVE  Sizes(a) \in [max_elems : Nat, block_size : Nat, maxlen : Nat]
<1>1. \A x \in Nat : x \div a.elem_bytes \in Nat
  BY Quotient DEF PlanArgs
<1> QED BY <1>1 DEF PlanArgs, Sizes, Omitted

\* What one run takes.
LEMMA RunSizes ==
  ASSUME NEW b \in Nat, NEW m \in Nat, b >= 1, m > 2, m >= b, NEW fill \in BOOLEAN
  PROVE  /\ LinearRun(b, m, fill) \in Nat \ {0}
         /\ OffsetSize(b, m) \in Nat
         /\ WrapRun(b, m, fill) = LinearRun(b, m, fill) + OffsetSize(b, m)
         /\ OffsetSize(b, m) = m - 1 \/ OffsetSize(b, m) = m - (b \div 2)
<1>1. b \div 2 \in Nat /\ b \div 2 <= b
  BY SMT
<1> QED BY <1>1 DEF LinearRun, OffsetSize, WrapRun, AtLeastOne

\* The division of a plan: k pairs fit, and k + 1 do not.
LEMMA PairsFit ==
  ASSUME NEW m \in Nat, NEW fixed \in Nat, NEW p \in Nat \ {0}, fixed + p <= m
  PROVE  LET k == (m - fixed) \div p
         IN  k \in Nat \ {0} /\ fixed + k * p <= m /\ m < fixed + (k + 1) * p
<1> DEFINE k == (m - fixed) \div p
<1>1. k \in Nat /\ p * k <= m - fixed /\ m - fixed < p * k + p
  BY Quotient
<1>2. k # 0
  BY <1>1
<1> HIDE DEF k
<1>3. p * k = k * p /\ (k + 1) * p = k * p + p
  BY <1>1
<1>4. k * p \in Int
  BY <1>1
<1>5. k \in Nat \ {0} /\ fixed + k * p <= m /\ m < fixed + (k + 1) * p
  BY <1>1, <1>2, <1>3, <1>4
<1> QED BY <1>5 DEF k

\* The runs of k pairs, and of k pairs and one more, with an offset row for each pair.
LEMMA RunsOfPairs ==
  ASSUME NEW k \in Nat, NEW l \in Nat, NEW o \in Nat
  PROVE  /\ (2 * k) * l + ((2 * k) \div 2) * o = k * (2 * l + o)
         /\ (2 * k + 1) * l + ((2 * k + 1) \div 2) * o = k * (2 * l + o) + l
<1>1. (2 * k) \div 2 = k /\ (2 * k + 1) \div 2 = k
  OBVIOUS
<1>2. (2 * k) * l + k * o = k * (2 * l + o)
  OBVIOUS
<1>3. (2 * k + 1) * l + k * o = k * (2 * l + o) + l
  OBVIOUS
<1> QED BY <1>1, <1>2, <1>3

\* What a plan counts for n runs, with an offset row for each that wraps.
Planned(b, m, n, fill) ==
  2 * m + n * LinearRun(b, m, fill) + (n \div 2) * OffsetSize(b, m)

\* What n runs really take is that, or an item more for each row where a block is one item.
LEMMA ItemsOfRuns ==
  ASSUME NEW s, NEW b \in Nat, NEW m \in Nat, NEW n \in Nat, NEW fill \in BOOLEAN,
         b >= 1, m > 2, m >= b, s.block_size = b, s.maxlen = m
  PROVE  /\ ItemsFor(s, n, fill) \in Nat /\ Planned(b, m, n, fill) \in Nat
         /\ Planned(b, m, n, fill) <= ItemsFor(s, n, fill)
         /\ b > 1 => ItemsFor(s, n, fill) = Planned(b, m, n, fill)
<1> DEFINE l == LinearRun(b, m, fill)
           o == OffsetSize(b, m)
           h == n \div 2
           cols == m - (b \div 2)
           filled == IF fill THEN n * m ELSE 0
<1>1. b \div 2 \in Nat /\ b \div 2 <= b /\ h \in Nat /\ (b > 1 => b \div 2 >= 1)
  OBVIOUS
<1>2. cols \in Nat /\ o \in Nat /\ o <= cols /\ (b > 1 => cols = o)
  BY <1>1 DEF OffsetSize, AtLeastOne
<1>3. l = b + (IF fill THEN m ELSE 0) /\ l \in Nat
  BY DEF LinearRun
<1>4. Shapes(n, b, m) = [data |-> <<n, b>>, warmup |-> <<1, m>>, offset |-> <<h, cols>>,
                         fill |-> <<n, m>>]
  BY DEF Shapes
<1>5. ItemsFor(s, n, fill) = m + n * b + 1 * m + h * cols + filled
  BY <1>4 DEF ItemsFor
<1> HIDE DEF h, o, l, cols
<1>6. n * l = n * b + filled /\ n * b \in Nat /\ n * m \in Nat /\ filled \in Nat
  BY <1>3
<1>7. h * o <= h * cols /\ h * o \in Nat /\ h * cols \in Nat
  BY <1>1, <1>2
<1> HIDE DEF filled
<1>8. /\ ItemsFor(s, n, fill) \in Nat /\ 2 * m + n * l + h * o \in Nat
      /\ 2 * m + n * l + h * o <= ItemsFor(s, n, fill)
  BY <1>5, <1>6, <1>7
<1>9. b > 1 => ItemsFor(s, n, fill) = 2 * m + n * l + h * o
  BY <1>2, <1>5, <1>6, <1>7
<1> QED BY <1>8, <1>9 DEF Planned, h, o, l

\* A call is refused only when a run of either kind does not fit, with the files as they
\* are made; any other answer has both, fits, unless blocks are single items, and leaves
\* less than a run that wraps takes.
THEOREM PlanLeavesLittle ==
  ASSUME NEW a \in PlanArgs
  PROVE  LeavesLessThanARun(a)
<1> DEFINE s == Sizes(a)
           b == s.block_size
           m == s.maxlen
           fixed == 2 * m
           l == LinearRun(b, m, a.with_fill)
           o == OffsetSize(b, m)
           wrap == WrapRun(b, m, a.with_fill)
           pair == wrap + l
           k == (s.max_elems - fixed) \div pair
           Need(n) == Planned(b, m, n, a.with_fill)
           two == 2
           Real(n) == ItemsFor(s, n, a.with_fill)
<1>1. s \in [max_elems : Nat, block_size : Nat, maxlen : Nat] /\ a.with_fill \in BOOLEAN
  BY SizesType DEF PlanArgs
<1>2. CASE b <= 0 \/ m <= 2 \/ m < b
  <2>1. DetermineNumRuns(a) = Refused
    BY <1>2 DEF DetermineNumRuns
  <2> QED BY <2>1, <1>2 DEF LeavesLessThanARun
<1>3. CASE ~(b <= 0 \/ m <= 2 \/ m < b)
  <2>1. /\ b \in Nat /\ m \in Nat /\ b >= 1 /\ m > 2 /\ m >= b
    BY <1>1, <1>3
  <2>2. l \in Nat \ {0} /\ o \in Nat /\ wrap = l + o
    BY <1>1, <2>1, RunSizes
  <2>3. pair \in Nat \ {0} /\ pair = 2 * l + o /\ fixed \in Nat /\ s.max_elems \in Nat
    BY <1>1, <2>1, <2>2
  <2>4. ASSUME NEW n \in Nat
        PROVE  /\ Real(n) \in Nat /\ Need(n) \in Nat /\ Need(n) <= Real(n)
               /\ b > 1 => Real(n) = Need(n)
    <3>1. s.block_size = b /\ s.maxlen = m /\ a.with_fill \in BOOLEAN
      BY <1>1
    <3> HIDE DEF s, b, m
    <3>2. /\ ItemsFor(s, n, a.with_fill) \in Nat /\ Planned(b, m, n, a.with_fill) \in Nat
          /\ Planned(b, m, n, a.with_fill) <= ItemsFor(s, n, a.with_fill)
          /\ b > 1 => ItemsFor(s, n, a.with_fill) = Planned(b, m, n, a.with_fill)
      BY <2>1, <2>4, <3>1, ItemsOfRuns
    <3> QED BY <3>2
  <2>8. \A n \in Nat : Need(n) = fixed + n * l + (n \div 2) * o
    BY DEF Planned
  <2>9. two \in Nat
    OBVIOUS
  <2> HIDE DEF Real, Need, b, m, s, l, o, pair, wrap
  <2>5. CASE fixed + pair > s.max_elems
    <3>1. DetermineNumRuns(a) = Refused
      BY <2>5 DEF DetermineNumRuns, s, b, m, l, pair, wrap
    <3>2. Need(two) = fixed + pair
      <4>1. Need(two) = fixed + two * l + (two \div 2) * o
        <5> HIDE DEF two
        <5> QED BY <2>8, <2>9
      <4> QED BY <4>1, <2>2, <2>3
    <3>3. Real(two) \in Nat /\ Need(two) <= Real(two)
      <4> HIDE DEF two
      <4> QED BY <2>4, <2>9
    <3>4. Real(two) > s.max_elems
      <4> HIDE DEF two
      <4> QED BY <2>3, <2>5, <3>2, <3>3
    <3> QED BY <3>1, <3>4 DEF LeavesLessThanARun, Real, s
  <2>6. CASE fixed + pair <= s.max_elems
    <3> DEFINE one == IF fixed + k * pair + wrap <= s.max_elems THEN 1 ELSE 0
    <3>1. DetermineNumRuns(a) = [n_runs |-> 2 * k + one, block_size |-> b, maxlen |-> m]
      BY <2>6, <1>3, <2>3 DEF DetermineNumRuns, s, b, m, l, pair, wrap
    <3>2. k \in Nat \ {0} /\ fixed + k * pair <= s.max_elems
          /\ s.max_elems < fixed + (k + 1) * pair
      BY <2>3, <2>6, PairsFit
    <3> HIDE DEF k
    <3>3. k * pair \in Nat /\ (k + 1) * pair = k * pair + pair
      BY <2>3, <3>2
    <3>4. /\ Need(2 * k) = fixed + k * pair
          /\ Need(2 * k + 1) = fixed + k * pair + l
      <4>1. 2 * k \in Nat /\ 2 * k + 1 \in Nat
        BY <3>2
      <4>2. /\ Need(2 * k) = fixed + (2 * k) * l + ((2 * k) \div 2) * o
            /\ Need(2 * k + 1) = fixed + (2 * k + 1) * l + ((2 * k + 1) \div 2) * o
        BY <2>8, <4>1
      <4>3. /\ (2 * k) * l + ((2 * k) \div 2) * o = k * pair
            /\ (2 * k + 1) * l + ((2 * k + 1) \div 2) * o = k * pair + l
        BY <2>2, <2>3, <3>2, RunsOfPairs
      <4>4. /\ (2 * k) * l \in Int /\ ((2 * k) \div 2) * o \in Int
            /\ (2 * k + 1) * l \in Int /\ ((2 * k + 1) \div 2) * o \in Int
        <5>1. (2 * k) \div 2 \in Int /\ (2 * k + 1) \div 2 \in Int
          BY <4>1
        <5> QED BY <2>2, <4>1, <5>1
      <4> QED BY <2>2, <2>3, <3>3, <4>2, <4>3, <4>4
    <3>5. 2 * k + one \in Nat /\ 2 * k + one >= 2
      BY <3>2
    <3>6. Need(2 * k + one) <= s.max_elems /\ Need(2 * k + one) + wrap > s.max_elems
      <4>1. CASE fixed + k * pair + wrap <= s.max_elems
        <5>1. one = 1
          BY <4>1
        <5> QED BY <5>1, <4>1, <3>2, <3>3, <3>4, <2>2, <2>3
      <4>2. CASE ~(fixed + k * pair + wrap <= s.max_elems)
        <5>1. one = 0 /\ 2 * k + one = 2 * k
          BY <4>2, <3>2
        <5> QED BY <5>1, <4>2, <3>2, <3>3, <3>4, <2>2, <2>3
      <4> QED BY <4>1, <4>2
    <3>7. DetermineNumRuns(a) # Refused /\ DetermineNumRuns(a).n_runs = 2 * k + one
      BY <3>1, <3>5 DEF Refused
    <3> DEFINE n == 2 * k + one
    <3> HIDE DEF one, n
    <3>8. n \in Nat /\ Need(n) <= s.max_elems /\ Need(n) + wrap > s.max_elems
      BY <3>5, <3>6 DEF n
    <3>9. Real(n) \in Nat /\ Need(n) \in Nat /\ Need(n) <= Real(n) /\ (b > 1 => Real(n) = Need(n))
      BY <2>4, <3>8
    <3>10. (b > 1 => Real(n) <= s.max_elems) /\ Real(n) + wrap > s.max_elems
      BY <2>2, <2>3, <3>8, <3>9
    <3> QED BY <3>5, <3>7, <3>10 DEF LeavesLessThanARun, Real, s, b, m, wrap, n
  <2> QED BY <2>3, <2>5, <2>6
<1> QED BY <1>2, <1>3

\* "The number of benchmark iterations possible" is not what determine_num_runs answers,
\* and it raises where "the total_byte_limit is insufficient for a single run" is not so:
\* for some sizes one run more would fit, and for some a call is refused though one would.
THEOREM PlanMissesARun ==
  /\ \E a \in PlanArgs :
       LET plan == DetermineNumRuns(a)
       IN plan # Refused /\ ItemsFor(Sizes(a), plan.n_runs + 1, a.with_fill) <= Sizes(a).max_elems
  /\ \E a \in PlanArgs :
       /\ DetermineNumRuns(a) = Refused /\ Sizes(a).block_size = 2 /\ Sizes(a).maxlen = 3
       /\ ItemsFor(Sizes(a), 1, a.with_fill) <= Sizes(a).max_elems
<1> DEFINE args(limit) ==
             [elem_bytes |-> 1, total_byte_limit |-> limit, maxlen_byte_limit |-> Omitted,
              block_byte_limit |-> Omitted, maxlen |-> 3, block_size |-> 2, with_fill |-> FALSE]
<1>1. ASSUME NEW limit \in Nat
      PROVE  /\ args(limit) \in PlanArgs
             /\ Sizes(args(limit)) = [max_elems |-> limit, block_size |-> 2, maxlen |-> 3]
  BY DEF PlanArgs, Omitted, Sizes
<1> DEFINE a == args(14)
           c == args(10)
<1>3. Sizes(a) = [max_elems |-> 14, block_size |-> 2, maxlen |-> 3] /\ a \in PlanArgs
  BY <1>1
<1>4. Sizes(c) = [max_elems |-> 10, block_size |-> 2, maxlen |-> 3] /\ c \in PlanArgs
  BY <1>1
<1>5. ~a.with_fill /\ ~c.with_fill
  OBVIOUS
<1> HIDE DEF a, c
<1>6. /\ LinearRun(2, 3, a.with_fill) = 2 /\ LinearRun(2, 3, c.with_fill) = 2
      /\ OffsetSize(2, 3) = 2
  BY <1>5 DEF LinearRun, OffsetSize, AtLeastOne
<1>7. WrapRun(2, 3, a.with_fill) = 4 /\ WrapRun(2, 3, c.with_fill) = 4
  BY <1>6 DEF WrapRun
<1>8. DetermineNumRuns(a) = [n_runs |-> 2, block_size |-> 2, maxlen |-> 3]
  <2>1. (14 - 2 * 3) \div (4 + 2) = 1
    OBVIOUS
  <2> QED BY <1>3, <1>6, <1>7, <2>1 DEF DetermineNumRuns
<1>9. DetermineNumRuns(c) = Refused
  BY <1>4, <1>6, <1>7 DEF DetermineNumRuns
<1>10. ItemsFor(Sizes(a), 3, a.with_fill) = 14 /\ ItemsFor(Sizes(c), 1, c.with_fill) = 8
  BY <1>3, <1>4, <1>5 DEF ItemsFor, Shapes
<1>11. DetermineNumRuns(a) # Refused /\ DetermineNumRuns(a).n_runs + 1 = 3
  BY <1>8 DEF Refused
<1>12. /\ DetermineNumRuns(a) # Refused
       /\ ItemsFor(Sizes(a), DetermineNumRuns(a).n_runs + 1, a.with_fill) <= Sizes(a).max_elems
  BY <1>3, <1>10, <1>11
<1>13. /\ DetermineNumRuns(c) = Refused /\ Sizes(c).block_size = 2 /\ Sizes(c).maxlen = 3
       /\ ItemsFor(Sizes(c), 1, c.with_fill) <= Sizes(c).max_elems
  BY <1>4, <1>9, <1>10
<1> QED BY <1>3, <1>4, <1>12, <1>13
-------------------------------------------------------------------------------
\* Up to where the multiples of b stay on one side of a.
LEMMA MultiplesUpTo ==
  ASSUME NEW a \in Int, NEW b \in Nat \ {0}, NEW x \in Int
  PROVE  x <= a \div b <=> x * b <= a
<1> DEFINE q == a \div b
<1>1. q \in Int /\ q * b <= a /\ a < (q + 1) * b
  <2>1. q \in Int /\ b * q <= a /\ a < b * q + b
    BY SMT
  <2> QED BY <2>1
<1> HIDE DEF q
<1>2. CASE x <= q
  <2>1. x * b <= q * b /\ q * b \in Int /\ x * b \in Int
    BY <1>1, <1>2
  <2> QED BY <1>1, <1>2, <2>1 DEF q
<1>3. CASE ~(x <= q)
  <2>1. (q + 1) * b <= x * b /\ (q + 1) * b \in Int /\ x * b \in Int
    BY <1>1, <1>3
  <2> QED BY <1>1, <1>3, <2>1 DEF q
<1> QED BY <1>1, <1>2, <1>3

\* FloorDiv as Python rounds: the bounds of a quotient, whatever the signs.
LEMMA FloorDivBounds ==
  ASSUME NEW a \in Int, NEW b \in Int \ {0}, NEW x \in Int
  PROVE  /\ b > 0 => (x <= FloorDiv(a, b) <=> x * b <= a)
         /\ b < 0 => (x <= FloorDiv(a, b) <=> x * b >= a)
         /\ b > 0 => (x >= -FloorDiv(-a, b) <=> x * b >= a)
         /\ b < 0 => (x >= -FloorDiv(-a, b) <=> x * b <= a)
         /\ FloorDiv(a, b) \in Int /\ FloorDiv(-a, b) \in Int
<1>1. CASE b > 0
  <2>1. x <= a \div b <=> x * b <= a
    BY <1>1, MultiplesUpTo
  <2>2. -x <= (-a) \div b <=> (-x) * b <= -a
    BY <1>1, MultiplesUpTo
  <2>3. (-x) * b = -(x * b) /\ x * b \in Int
    BY <1>1
  <2>4. a \div b \in Int /\ (-a) \div b \in Int
    BY <1>1, SMT
  <2>5. FloorDiv(a, b) = a \div b /\ FloorDiv(-a, b) = (-a) \div b
    BY <1>1 DEF FloorDiv
  <2> QED BY <1>1, <2>1, <2>2, <2>3, <2>4, <2>5
<1>2. CASE b < 0
  <2>1. -b \in Nat \ {0} /\ -(-a) = a
    BY <1>2
  <2>2. x <= (-a) \div (-b) <=> x * (-b) <= -a
    BY <2>1, MultiplesUpTo
  <2>3. -x <= a \div (-b) <=> (-x) * (-b) <= a
    BY <2>1, MultiplesUpTo
  <2>4. (-x) * (-b) = x * b /\ x * (-b) = -(x * b) /\ x * b \in Int
    BY <1>2
  <2>5. a \div (-b) \in Int /\ (-a) \div (-b) \in Int
    BY <2>1, SMT
  <2>6. FloorDiv(a, b) = (-a) \div (-b) /\ FloorDiv(-a, b) = a \div (-b)
    BY <1>2, <2>1 DEF FloorDiv
  <2> QED BY <1>2, <2>2, <2>3, <2>4, <2>5, <2>6
<1> QED BY <1>1, <1>2

\* The bounds drawn from, before they are cut at the ends of the type, are those of the
\* numbers whose result stays in it; cutting never moves one past the other's result.
LEMMA RandBoundsExact ==
  ASSUME NEW info, IntegerType(info), NEW mul \in Int \ {0},
         mul > 0 \/ info.min # 0,
         NEW sub \in info.min .. info.max, NEW x \in Int
  PROVE  LET r == RandBounds(info, mul, sub)
         IN  /\ r.low \in info.min .. info.max /\ r.high \in info.min .. info.max
             /\ x \in r.low .. r.high <=>
                  x \in info.min .. info.max /\ x * mul - sub \in info.min .. info.max
<1> DEFINE first == (IF mul > 0 THEN info.min ELSE info.max) + sub
           last  == (IF mul > 0 THEN info.max ELSE info.min) + sub
           low   == -FloorDiv(-first, mul)
           high  == FloorDiv(last, mul)
<1>1. /\ info.min \in Int /\ info.max \in Nat \ {0} /\ sub \in Int /\ info.min <= info.max
      /\ info.min <= sub /\ sub <= info.max
      /\ info.min = 0 \/ info.min = -info.max - 1
  BY DEF IntegerType
<1>2. first \in Int /\ last \in Int
  BY <1>1
<1>3. /\ mul > 0 => first = info.min + sub /\ last = info.max + sub
      /\ mul < 0 => first = info.max + sub /\ last = info.min + sub
  OBVIOUS
<1> HIDE DEF first, last
<1>4. low \in Int /\ high \in Int
  <2>1. FloorDiv(-first, mul) \in Int /\ FloorDiv(last, mul) \in Int
    BY <1>2, FloorDivBounds
  <2> QED BY <2>1
<1>5. \A y \in Int : /\ mul > 0 => (y >= low <=> y * mul >= first)
                     /\ mul < 0 => (y >= low <=> y * mul <= first)
  BY <1>2, FloorDivBounds
<1>6. \A y \in Int : /\ mul > 0 => (y <= high <=> y * mul <= last)
                     /\ mul < 0 => (y <= high <=> y * mul >= last)
  BY <1>2, FloorDivBounds
<1> HIDE DEF low, high
<1>7. \A y \in Int : (y >= low /\ y <= high) <=> y * mul - sub \in info.min .. info.max
  <2> SUFFICES ASSUME NEW y \in Int
               PROVE  (y >= low /\ y <= high) <=> y * mul - sub \in info.min .. info.max
    OBVIOUS
  <2>0. y * mul \in Int
    OBVIOUS
  <2>1. CASE mul > 0
    <3>1. (y <= high <=> y * mul <= info.max + sub) /\ (y >= low <=> y * mul >= info.min + sub)
      BY <2>1, <1>1, <1>3, <1>5, <1>6
    <3> QED BY <3>1, <1>1, <2>0
  <2>2. CASE ~(mul > 0)
    <3>1. (y <= high <=> y * mul >= info.min + sub) /\ (y >= low <=> y * mul <= info.max + sub)
      BY <2>2, <1>1, <1>3, <1>5, <1>6
    <3> QED BY <3>1, <1>1, <2>0
  <2> QED BY <2>1, <2>2
<1>8. low <= info.max /\ high >= info.min
  <2>1. CASE mul > 0
    <3>1. info.max * mul >= info.max /\ info.max * mul \in Int
      BY <2>1, <1>1
    <3>2. info.min * mul <= info.min /\ info.min * mul \in Int
      BY <2>1, <1>1
    <3>3. info.max >= low <=> info.max * mul >= info.min + sub
      BY <2>1, <1>1, <1>3, <1>5, <1>6
    <3>4. info.min <= high <=> info.min * mul <= info.max + sub
      BY <2>1, <1>1, <1>3, <1>5, <1>6
    <3> QED BY <1>1, <1>4, <3>1, <3>2, <3>3, <3>4
  <2>2. CASE ~(mul > 0)
    <3>1. info.max * mul <= -info.max /\ info.max * mul \in Int
      BY <2>2, <1>1
    <3>2. info.min * mul >= -info.min /\ info.min * mul \in Int
      BY <2>2, <1>1
    <3>3. info.max >= low <=> info.max * mul <= info.max + sub
      BY <2>2, <1>1, <1>3, <1>5, <1>6
    <3>4. info.min <= high <=> info.min * mul >= info.min + sub
      BY <2>2, <1>1, <1>3, <1>5, <1>6
    <3> QED BY <1>1, <1>4, <2>2, <3>1, <3>2, <3>3, <3>4
  <2> QED BY <2>1, <2>2
<1>9. RandBounds(info, mul, sub) = [low |-> Clamped(low, info), high |-> Clamped(high, info)]
  BY DEF RandBounds, first, last, low, high
<1>10. /\ Clamped(low, info) = IF low < info.min THEN info.min ELSE low
      /\ Clamped(high, info) = IF high > info.max THEN info.max ELSE high
  BY <1>1, <1>4, <1>8 DEF Clamped
<1> QED BY <1>1, <1>4, <1>7, <1>8, <1>9, <1>10

\* Calculates safe bounds to prevent overflow: for every integer type, every factor and
\* every offset of the type, what the array may hold is what stays in the type.
THEOREM RandomStaysInRange ==
  ASSUME NEW info, IntegerType(info), NEW mul \in Int, NEW sub \in info.min .. info.max
  PROVE  KeepsRange(info, mul, sub)
<1> DEFINE whole == info.min .. info.max
           safe  == {x * mul - sub : x \in whole} \cap whole
           r     == RandBounds(info, mul, sub)
<1>1. info.min \in Int /\ info.max \in Int /\ sub \in Int /\ info.min \in whole
  BY DEF IntegerType
<1>2. CASE mul = 0
  <2>1. \A x \in whole : x * mul - sub = -sub
    BY <1>1, <1>2
  <2>2. {x * mul - sub : x \in whole} = {-sub}
    BY <1>1, <2>1
  <2>3. -sub = 0 - sub
    BY <1>1
  <2> QED BY <1>2, <2>2 DEF KeepsRange, RandRefused, RandValues
<1>3. CASE mul # 0 /\ ~(mul > 0) /\ info.min = 0
  <2>1. mul < 0
    BY <1>3
  <2> QED BY <1>3, <2>1 DEF KeepsRange, RandRefused
<1>4. CASE mul # 0 /\ (mul > 0 \/ info.min # 0)
  <2>1. r.low \in whole /\ r.high \in whole
    BY <1>4, RandBoundsExact
  <2>2. \A x \in Int : x \in r.low .. r.high <=> x \in whole /\ x * mul - sub \in whole
    BY <1>4, RandBoundsExact
  <2>3. r.low .. r.high \subseteq Int /\ whole \subseteq Int
    BY <1>1, <2>1
  <2> HIDE DEF r, whole
  <2>4. {x * mul - sub : x \in r.low .. r.high} = safe
    BY <2>2, <2>3
  <2>5. ~(mul < 0 /\ info.min = 0)
    BY <1>4
  <2>6. CASE r.low > r.high
    <3>1. r.low \in Int /\ r.high \in Int
      BY <2>1, <2>3
    <3>2. \A x \in r.low .. r.high : FALSE
      BY <3>1, <2>6
    <3>3. safe = {}
      BY <2>4, <3>2
    <3> QED BY <1>4, <2>6, <3>3 DEF KeepsRange, RandRefused, r, whole
  <2>7. CASE ~(r.low > r.high)
    <3>1. ~RandRefused(info, mul, sub)
      BY <1>4, <2>5, <2>7 DEF RandRefused, r
    <3>2. RandValues(info, mul, sub) = {x * mul - sub : x \in r.low .. r.high}
      BY <1>4, <3>1 DEF RandValues, r
    <3> QED BY <2>4, <3>1, <3>2 DEF KeepsRange, whole
  <2> QED BY <2>6, <2>7
<1> QED BY <1>2, <1>3, <1>4
-------------------------------------------------------------------------------
\* Includes a calculation callback every N steps: of any calc_every runs that follow
\* each other, exactly one is followed by a calculation.
THEOREM CalculationsEvenly ==
  ASSUME NEW length \in Nat, NEW c \in Nat \ {0}, NEW first \in Nat,
         first + c <= length
  PROVE  \E i \in first .. first + c - 1 :
           CalcMask(length, c) \cap (first .. first + c - 1) = {i}
<1> DEFINE q == first \div c
           i == q * c + (c - 1)
<1>1. q \in Nat /\ q * c <= first /\ first < q * c + c /\ q * c \in Nat
  <2>1. q \in Nat /\ c * q <= first /\ first < c * q + c
    BY Quotient
  <2> QED BY <2>1
<1> HIDE DEF q
<1>2. i \in first .. first + c - 1 /\ i \in 0 .. length - 1 /\ i >= c - 1
  BY <1>1
<1>3. (i - (c - 1)) % c = 0
  <2>1. i - (c - 1) = q * c
    BY <1>1
  <2>2. (q * c) % c = 0
    BY <1>1
  <2> QED BY <2>1, <2>2
<1>4. i \in CalcMask(length, c)
  BY <1>2, <1>3 DEF CalcMask
<1>5. ASSUME NEW j \in CalcMask(length, c) \cap (first .. first + c - 1)
      PROVE  j = i
  <2>1. j \in Nat /\ j >= c - 1 /\ (j - (c - 1)) % c = 0 /\ first <= j /\ j < first + c
    BY <1>5 DEF CalcMask
  <2>2. PICK d \in Nat : j - (c - 1) = d * c
    <3>1. j - (c - 1) \in Nat
      BY <2>1
    <3> QED BY <2>1, <3>1, NoRemainder
  <2>3. d * c \in Nat
    OBVIOUS
  <2>4. d = q
    <3>1. CASE d < q
      <4>1. d * c + c <= q * c
        <5>1. (d + 1) * c <= q * c /\ (d + 1) * c = d * c + c
          BY <1>1, <3>1
        <5> QED BY <5>1
      <4> QED BY <1>1, <2>1, <2>2, <2>3, <4>1
    <3>2. CASE d > q
      <4>1. q * c + c <= d * c
        <5>1. (q + 1) * c <= d * c /\ (q + 1) * c = q * c + c
          BY <1>1, <3>2
        <5> QED BY <5>1
      <4> QED BY <1>1, <2>1, <2>2, <2>3, <4>1
    <3> QED BY <1>1, <3>1, <3>2
  <2> QED BY <2>1, <2>2, <2>3, <2>4
<1> QED BY <1>2, <1>4, <1>5

-------------------------------------------------------------------------------
(* The inductive invariant, component by component.                        *)

At_Rest == {"closed", "left"}

\* The files a program asks for.
Wanted(program) ==
  IF program \in {"raw_util_buffers", "bench_op_f"} THEN Kinds ELSE AllButFill

Asked(l) == IF l = "inner" THEN Kinds ELSE Wanted(script.program)

Extents == Int \X Int \X Int

Shape == [data : Int \X Int, warmup : Int \X Int, offset : Int \X Int, fill : Int \X Int]

Managers ==
  [at : {"closed", "generating", "open", "removing", "left"}, raised : BOOLEAN,
   next : DOMAIN FileKind,
   wanted : SUBSET Kinds, open : SUBSET Kinds, kept : SUBSET Kinds, item_size : Nat,
   shapes : Shape]

Configs ==
  {e \in [dtype : Dtype \cup {Unset}, bytes : Nat, item_size : Nat] :
     /\ e.bytes # 0 => e.bytes >= 8
     /\ e.item_size # 0 => e.dtype # Unset /\ e.item_size = ItemSize[e.dtype]}

\* Nothing is left to be filled on first access.
IsRead(e) == e.bytes # 0 /\ e.dtype # Unset /\ e.item_size # 0

FilesTyped ==
  /\ host \in Host /\ evict \in Configs
  /\ disk \in [Level -> [Kinds -> Extents]]
  /\ mgr \in [Level -> Managers]

\* What a file is made of, but for the eviction array.
Shaped(m, k) == <<m.shapes[k][1], m.shapes[k][2], m.item_size>>

\* How far a context has come with its files.
Progress(m, d, asked, e) ==
  /\ m.at \in {"generating", "open", "removing"} => m.wanted = asked
  /\ m.raised => m.at = "left"
  /\ \A k \in Kinds \ asked : d[k] = NoFile
  /\ m.at = "generating" =>
       \A i \in 1 .. 5 : FileKind[i] \in asked /\ i < m.next =>
                         d[FileKind[i]] = Shaped(m, FileKind[i])
  /\ m.at = "generating" => m.open = {FileKind[i] : i \in 1 .. m.next - 1} \cap asked
  /\ m.at = "open" =>
       /\ m.open = asked
       /\ \A k \in asked \ {"evict"} : d[k] = Shaped(m, k)
       /\ IsRead(e) /\ d["evict"] = EvictFile(e)
  /\ m.at = "removing" =>
       \A i \in 1 .. 5 : i < m.next /\ d[FileKind[i]] # NoFile => FileKind[i] \in m.kept
  /\ m.at = "left" /\ ~m.raised => \A k \in Kinds : d[k] # NoFile => k \in m.kept

FilesInv == FilesTyped /\ \A l \in Level : Progress(mgr[l], disk[l], Asked(l), evict)
-------------------------------------------------------------------------------
ProgramNames == {"raw_overwrite_buf", "raw_blocking_buf", "raw_util_buffers",
                 "bench_raw_buf", "bench_op_f", "application"}

Plans == [n_runs : Nat, block_size : Nat, maxlen : Nat]

JobKinds == [kind : BenchKinds, ring : Rings, buffer_type : {"mean", "mean_square", "other"}]

RoundsOf(program) ==
  {r \in [dtype : Dtype, plan : PlanArgs, wanted : {Wanted(program)}, jobs : Seq(JobKinds)] :
     r.plan.with_fill <=> r.wanted = Kinds}

InRound == {"generating", "jobs", "focusing", "measuring", "sweeping", "saved", "leaving"}

ScriptInv ==
  /\ script \in [program : ProgramNames, round : Nat \ {0}, job : Nat \ {0}, saved : Nat,
                 failed : BOOLEAN, zero : BOOLEAN, plan : Plans,
                 at : InRound \cup {"calling", "planning", "done", "raised"}]
  /\ script.at \in InRound =>
       /\ script.round \in DOMAIN Rounds
       /\ script.plan = DetermineNumRuns(CurrentRound.plan) /\ script.plan # Refused
  /\ script.at = "focusing" => script.job <= Len(CurrentRound.jobs)
  /\ script.at = "calling" => script.program = "application"
  /\ script.program = "application" => script.at \in {"calling", "done"}
  /\ answer = [op |-> "none"] \/ answer \in Questions

\* Which turn of the script the outer context is in.
OuterTurn ==
  LET m == mgr["outer"]
  IN /\ script.program = "application" => m.at = "closed"
     /\ script.at \in {"calling", "planning", "done", "raised"} => m.at \in At_Rest
     /\ script.at = "generating" => m.at \in {"generating", "open"} \/ m.raised
     /\ script.at \in {"jobs", "focusing", "measuring", "sweeping", "saved"} => m.at = "open"
     /\ script.at = "leaving" => m.at \in {"removing", "left"}
     /\ script.at \in InRound => 
          m.shapes = Shapes(script.plan.n_runs, script.plan.block_size, script.plan.maxlen)

Called == {"idle", "returned", "raised"}

InnerTurn ==
  LET m == mgr["inner"]
  IN /\ focus.at \in Called => m.at \in At_Rest
     /\ focus.at = "generating" => m.at \in {"generating", "open"} \/ m.raised
     /\ focus.at \in Focus => m.at = "open"
     /\ focus.at = "leaving" => m.at \in {"removing", "left"}
     /\ focus.at \in Focus \cup {"generating"} =>
          m.shapes = Shapes(focus.n_runs, focus.args.block_size, focus.args.buffer_maxlen)
     /\ focus.at \notin Called => script.at \in {"focusing", "calling"}
     /\ script.at = "calling" /\ script.job = 1 => focus.at \in Called

FocusInv ==
  /\ focus \in [at : Called \cup Focus \cup {"generating", "leaving"}, args : FocusCalls,
                n_runs : Nat, times : [Focus -> Times \cup {Absent}], failed : BOOLEAN,
                result : Focus \cup {"none"}]
  /\ focus.at \notin Called =>
       /\ ~InvalidFocus(focus.args)
       /\ focus.n_runs = FocusRuns(focus.args) /\ focus.n_runs >= focus.args.calc_every
  /\ focus.at = "extend/append" => focus.times["calculation"] \in Times
  /\ focus.at = "leaving" => focus.result \in Focus
  /\ focus.at = "returned" /\ ~(focus.n_runs < focus.args.calc_every) => focus.result \in Focus
  /\ focus.at \in {"leaving", "returned"} =>
       IF focus.failed \/ focus.n_runs < focus.args.calc_every
       THEN focus.result = focus.args.fallback
       ELSE \A f \in Focus :
              focus.times[f] \in Times /\ focus.times[focus.result] <= focus.times[f]
-------------------------------------------------------------------------------
BenchTyped ==
  /\ bench \in [at : Half \cup {"idle", "returned", "raised"}, by : Process, job : JobArgs,
                i : Nat, timed : [Half -> SUBSET Nat], calcs : [Half -> SUBSET Nat],
                wrapped : SUBSET Nat, time : Times \cup {0}]
  /\ gc \in [Process -> BOOLEAN]

\* The runs of the half h that have been measured.
MeasuredRuns(h) ==
  IF bench.at = h THEN 0 .. bench.i - 1
  ELSE IF bench.at = "wrap" THEN {} ELSE 0 .. HalfLen(bench.job.n_runs, h) - 1

BenchInv ==
  /\ BenchTyped
  /\ CollectorBackOn
  /\ bench.at \in Half \cup {"returned"} =>
       /\ RowsMatch(bench.job)
       /\ \A h \in Half : bench.timed[h] = MeasuredRuns(h)
       /\ bench.job.kind = "raw_bench_with_calc" =>
            \A h \in Half : bench.calcs[h] =
              CalcMask(HalfLen(bench.job.n_runs, h), bench.job.calc_every) \cap MeasuredRuns(h)
  /\ bench.at \in Half => bench.i <= HalfRows(bench.job, bench.at)
  /\ OwnDataWraps

\* Whose benchmark it is.
BenchTurn ==
  /\ bench.at # "idle" /\ bench.by = "worker" =>
       script.at = "sweeping" /\ pool.running # 0 /\ ~pool.dead
  /\ bench.at # "idle" /\ bench.by = "main" =>
       script.at = "measuring" \/ focus.at \in Focus \/ script.program = "application"
  /\ pool.running # 0 /\ ~pool.dead => bench.by = "worker" /\ bench.at # "idle"
  /\ bench.at = "returned" => bench.time \in Times
-------------------------------------------------------------------------------
Combos == [version : Rings, block_size : Nat, maxlen : Nat, calc_every : Nat \ {0}]
Tasks  == [version : Rings, block_size : Nat, maxlen : Nat, calc_every : Nat, n_runs : Nat]

Pools ==
  [at : {"closed", "submitting", "asking", "collecting", "shutting_down", "ended"},
   program : Sweeps \cup {"none"}, todo : Seq(Combos), noted : Seq(Tasks),
   state : Seq({"pending", "running", "done", "failed"}), running : Nat,
   dead : BOOLEAN, broken : BOOLEAN, scan : Nat, found : SUBSET Nat,
   completed : SUBSET Nat, locals : Tasks,
   rows : Seq([label : Tasks, task : Nat]), failed : BOOLEAN]

PoolTyped ==
  /\ pool \in Pools
  /\ Len(pool.state) = Len(pool.noted) /\ Len(pool.noted) <= Len(pool.todo)

RowsInv ==
  /\ \A i \in DOMAIN pool.rows :
       LET k == pool.rows[i].task
       IN k \in pool.completed /\ pool.state[k] = "done" /\ pool.rows[i].label = pool.noted[k]
  /\ \A k \in pool.completed : pool.state[k] = "done" =>
       \E i \in DOMAIN pool.rows : pool.rows[i].task = k
  /\ \A i, j \in DOMAIN pool.rows : pool.rows[i].task = pool.rows[j].task => i = j

PoolInv ==
  /\ PoolTyped /\ RowsInv
  /\ pool.at = "closed" => pool = ClosedPool
  /\ pool.at # "closed" => script.at \in {"sweeping", "saved", "leaving"}
                           /\ pool.locals.n_runs = script.plan.n_runs
  /\ script.at \in {"saved", "leaving"} => pool.at \in {"closed", "ended"}
  /\ pool.at = "ended" => Finished = Futures
  /\ pool.running # 0 => pool.running \in Futures /\ pool.state[pool.running] = "running"
  /\ pool.at \in {"submitting", "collecting"} => pool.found = {}
  /\ pool.found \subseteq Finished \ pool.completed /\ pool.completed \subseteq Finished
  /\ pool.at \in {"shutting_down", "ended"} /\ ~pool.failed => pool.completed = Futures
  /\ \A k \in Futures : pool.noted[k] = Task(pool.todo[k], script.plan.n_runs)

Inv ==
  /\ FilesInv /\ ScriptInv /\ OuterTurn /\ InnerTurn /\ FocusInv
  /\ BenchInv /\ BenchTurn /\ PoolInv

-------------------------------------------------------------------------------
(* Least and greatest numbers.                                             *)

\* A set of numbers that is not empty has a least one.
LEMMA LeastNumber ==
  ASSUME NEW S, S \subseteq Nat, S # {}
  PROVE  \E m \in S : \A k \in S : m <= k
<1> DEFINE R == OpToRel(<, Nat)
<1>1. IsWellFoundedOn(R, Nat)
  BY NatLessThanWellFounded, Zenon
<1>2. \A x, y \in Nat : <<y, x>> \in R <=> y < x
  BY Zenon DEF OpToRel
<1> HIDE DEF R
<1>3. PICK m \in S : \A k \in S : ~(<<k, m>> \in R)
  BY <1>1, WFMin
<1>4. \A k \in S : ~(k < m)
  BY <1>2, <1>3
<1> QED BY <1>3, <1>4

\* A bounded one has a greatest one.
LEMMA GreatestNumber ==
  ASSUME NEW S, S \subseteq Nat, S # {}, NEW b \in Nat, \A k \in S : k <= b
  PROVE  \E m \in S : \A k \in S : k <= m
<1> DEFINE U == {b - k : k \in S}
<1>1. U # {}
  OBVIOUS
<1>2. \A k \in S : b - k \in Nat
  OBVIOUS
<1>3. U \subseteq Nat
  BY <1>2
<1> HIDE DEF U
<1>4. PICK d \in U : \A e \in U : d <= e
  BY <1>1, <1>3, LeastNumber
<1>5. PICK m \in S : d = b - m
  BY DEF U
<1>6. ASSUME NEW k \in S
      PROVE  k <= m
  <2>1. b - k \in U
    BY DEF U
  <2>2. b - m <= b - k
    BY <1>4, <1>5, <2>1
  <2> QED BY <2>2
<1> QED BY <1>6

\* What holds of 1 and goes from each number to the next one up to n, holds of n.
LEMMA Reaches ==
  ASSUME NEW n \in Nat \ {0}, NEW T, 1 \in T,
         \A i \in 1 .. n - 1 : i \in T => i + 1 \in T
  PROVE  n \in T
<1> DEFINE U == {i \in 1 .. n : i \notin T}
<1> SUFFICES ASSUME U # {}
             PROVE  FALSE
  OBVIOUS
<1>1. U \subseteq Nat
  OBVIOUS
<1>2. PICK m \in U : \A k \in U : m <= k
  BY <1>1, LeastNumber
<1>3. m \in 1 .. n /\ m \notin T /\ m # 1
  OBVIOUS
<1>4. m - 1 \in 1 .. n - 1 /\ m - 1 \in 1 .. n /\ ~(m <= m - 1) /\ (m - 1) + 1 = m
  BY <1>3
<1>5. m - 1 \notin U
  BY <1>2, <1>4
<1>6. m - 1 \in T
  BY <1>4, <1>5
<1> QED BY <1>3, <1>4, <1>6
-------------------------------------------------------------------------------
(* Flattened sequences.                                                    *)

\* The loop of FlattenSeq over s, up to its n-th step.
Flattens(s, f, n) == f = [i \in 1 .. n |-> IF i = 1 THEN s[i] ELSE f[i - 1] \o s[i]]

\* The function FlattenSeq chooses exists, for every number of sequences.
LEMMA FlattensExists ==
  ASSUME NEW s, NEW n \in Nat \ {0}
  PROVE  \E f : Flattens(s, f, n)
<1> DEFINE T == {i \in 1 .. n : \E f : Flattens(s, f, i)}
<1>1. 1 \in T
  <2>1. Flattens(s, [i \in 1 .. 1 |-> s[1]], 1)
    BY DEF Flattens
  <2> QED BY <2>1
<1>2. ASSUME NEW j \in 1 .. n - 1, j \in T
      PROVE  j + 1 \in T
  <2>1. j \in Nat \ {0} /\ j + 1 \in 1 .. n
    OBVIOUS
  <2>2. PICK f : Flattens(s, f, j)
    BY <1>2
  <2> DEFINE g == [i \in 1 .. j + 1 |-> IF i \in 1 .. j THEN f[i] ELSE f[j] \o s[j + 1]]
  <2>3. ASSUME NEW i \in 1 .. j + 1
        PROVE  g[i] = IF i = 1 THEN s[i] ELSE g[i - 1] \o s[i]
    <3>1. CASE i = 1
      <4>1. g[1] = f[1] /\ f[1] = s[1]
        BY <2>1, <2>2 DEF Flattens
      <4> QED BY <3>1, <4>1
    <3>2. CASE i \in 2 .. j
      <4>1. i \in 1 .. j /\ i - 1 \in 1 .. j /\ i # 1 /\ i - 1 \in 1 .. j + 1
        BY <2>1, <3>2
      <4>2. g[i] = f[i] /\ g[i - 1] = f[i - 1]
        BY <4>1
      <4>3. f[i] = f[i - 1] \o s[i]
        BY <2>2, <4>1 DEF Flattens
      <4> HIDE DEF g
      <4> QED BY <4>1, <4>2, <4>3
    <3>3. CASE i = j + 1
      <4>1. i \notin 1 .. j /\ i - 1 = j /\ j \in 1 .. j /\ i # 1 /\ j \in 1 .. j + 1
        BY <2>1, <3>3
      <4>2. g[i] = f[j] \o s[j + 1] /\ g[j] = f[j]
        BY <4>1
      <4> HIDE DEF g
      <4> QED BY <3>3, <4>1, <4>2
    <3> QED BY <2>1, <3>1, <3>2, <3>3
  <2>4. g = [i \in 1 .. j + 1 |-> g[i]]
    OBVIOUS
  <2> HIDE DEF g
  <2>5. Flattens(s, g, j + 1)
    BY <2>3, <2>4 DEF Flattens
  <2> QED BY <2>1, <2>5
<1> HIDE DEF T
<1>3. n \in T
  BY <1>1, <1>2, Reaches
<1> QED BY <1>3 DEF T

\* FlattenSeq is what that function comes to in the end.
LEMMA FlattenLoop ==
  ASSUME NEW s, Len(s) \in Nat \ {0}
  PROVE  \E f : FlattenSeq(s) = f[Len(s)] /\ Flattens(s, f, Len(s))
<1> DEFINE P(f) == f = [i \in 1 .. Len(s) |-> IF i = 1 THEN s[i] ELSE f[i - 1] \o s[i]]
           c    == CHOOSE f : P(f)
<1>1. P(c)
  <2>1. \E f : P(f)
    BY FlattensExists DEF Flattens
  <2> HIDE DEF P
  <2> QED BY <2>1
<1>2. Len(s) # 0
  OBVIOUS
<1>3. FlattenSeq(s) = c[Len(s)]
  BY <1>2, Zenon DEF FlattenSeq
<1> HIDE DEF c
<1> QED BY <1>1, <1>3 DEF Flattens

\* Sequences of members of S, one after the other, are a sequence of members of S.
LEMMA FlattenType ==
  ASSUME NEW S, NEW s \in Seq(Seq(S))
  PROVE  FlattenSeq(s) \in Seq(S)
<1>1. Len(s) \in Nat /\ \A i \in 1 .. Len(s) : s[i] \in Seq(S)
  OBVIOUS
<1>2. CASE Len(s) = 0
  <2>1. FlattenSeq(s) = s
    BY <1>2 DEF FlattenSeq
  <2>2. s = <<>>
    BY <1>2
  <2> QED BY <2>1, <2>2
<1>3. CASE Len(s) # 0
  <2>1. PICK f : FlattenSeq(s) = f[Len(s)] /\ Flattens(s, f, Len(s))
    BY <1>1, <1>3, FlattenLoop
  <2>2. \A i \in 1 .. Len(s) : f[i] = IF i = 1 THEN s[i] ELSE f[i - 1] \o s[i]
    BY <2>1 DEF Flattens
  <2> DEFINE T == {i \in 1 .. Len(s) : f[i] \in Seq(S)}
  <2>3. 1 \in T
    BY <1>1, <1>3, <2>2
  <2>4. ASSUME NEW i \in 1 .. Len(s) - 1, i \in T
        PROVE  i + 1 \in T
    <3>1. i + 1 \in 1 .. Len(s) /\ i + 1 # 1 /\ (i + 1) - 1 = i /\ f[i] \in Seq(S)
      BY <1>1, <2>4
    <3>2. f[i + 1] = f[i] \o s[i + 1]
      BY <2>2, <3>1
    <3>3. f[i] \o s[i + 1] \in Seq(S)
      BY <1>1, <3>1
    <3> QED BY <3>1, <3>2, <3>3
  <2> HIDE DEF T
  <2>5. Len(s) \in T
    BY <1>1, <1>3, <2>3, <2>4, Reaches
  <2> QED BY <2>1, <2>5 DEF T
<1> QED BY <1>2, <1>3
\* What is in a sequence is of its kind.
LEMMA MemberAt ==
  ASSUME NEW S, NEW s \in Seq(S), NEW i \in 1 .. Len(s)
  PROVE  s[i] \in S
  OBVIOUS
-------------------------------------------------------------------------------
(* The host.                                                               *)

\* The size of a cache is a number, or not known.
LEMMA FirstSizeType ==
  ASSUME NEW h \in Host, NEW At, At \subseteq DOMAIN h.caches
  PROVE  FirstSize(h, At) \in Reading
<1>1. h.caches \in Seq([level : Reading, size : Reading])
  BY HostAssumption
<1>2. CASE At = {}
  BY <1>2 DEF FirstSize, Reading
<1>3. CASE At # {}
  <2>1. DOMAIN h.caches = 1 .. Len(h.caches) /\ Len(h.caches) \in Nat
    BY <1>1
  <2>2. At \subseteq Nat
    BY <2>1
  <2>3. \E i \in At : \A j \in At : i <= j
    BY <1>3, <2>2, LeastNumber
  <2> DEFINE i == CHOOSE i \in At : \A j \in At : i <= j
  <2>4. i \in At
    BY <2>3
  <2> HIDE DEF i
  <2>5. h.caches[i] \in [level : Reading, size : Reading]
    <3>1. i \in 1 .. Len(h.caches)
      BY <2>1, <2>4
    <3> QED BY <1>1, <3>1, MemberAt
  <2>6. FirstSize(h, At) = h.caches[i].size
    BY <1>3 DEF FirstSize, i
  <2> QED BY <2>5, <2>6
<1> QED BY <1>2, <1>3

\* A host's answers are numbers where there are any.
LEMMA HostAnswers ==
  ASSUME NEW h \in Host
  PROVE  /\ GetCpuL3Cache(h) \in Nat /\ GetCpuL3Cache(h) >= 8
         /\ GetAvailableRam(h) \in Nat \cup {Absent}
<1>1. \A level : OfLevel(h, level) \subseteq DOMAIN h.caches
  BY DEF OfLevel
<1>2. GetL3Win32(h) \in Reading
  BY <1>1, FirstSizeType DEF GetL3Win32
<1>3. GetL3Linux(h) \in Reading
  BY <1>1, FirstSizeType DEF GetL3Linux
<1>4. GetL3Darwin(h) \in Reading
  BY <1>1, FirstSizeType DEF GetL3Darwin
<1>5. GetL3Cache(h) \in Reading
  BY <1>2, <1>3, <1>4 DEF GetL3Cache, Reading
<1>6. GetCpuL3Cache(h) \in Nat
  BY <1>5, HostAssumption DEF GetCpuL3Cache, Reading, Absent, Broken
<1>7. GetAvailableRam(h) \in Nat \cup {Absent}
  BY HostAssumption DEF GetAvailableRam, Reading, Absent, Broken
<1> QED BY <1>6, <1>7, CacheAssumption
-------------------------------------------------------------------------------
(* Plans.                                                                  *)

\* What n runs of a plan need does not shrink with n.
LEMMA FewerRunsFit ==
  ASSUME NEW n \in Nat, NEW k \in Nat, k <= n, NEW l \in Nat, NEW o \in Nat
  PROVE  k * l + (k \div 2) * o <= n * l + (n \div 2) * o
<1>1. k * l <= n * l /\ k * l \in Nat /\ n * l \in Nat
  OBVIOUS
<1>2. k \div 2 \in Nat /\ n \div 2 \in Nat /\ k \div 2 <= n \div 2
  OBVIOUS
<1> DEFINE p == k \div 2
           q == n \div 2
<1> HIDE DEF p, q
<1>3. \A x, y \in Nat : x <= y => x * o <= y * o /\ x * o \in Nat /\ y * o \in Nat
  OBVIOUS
<1>4. p * o <= q * o /\ p * o \in Nat /\ q * o \in Nat
  BY <1>2, <1>3 DEF p, q
<1> QED BY <1>1, <1>4 DEF p, q

\* A plan is a refusal or at least one run of either kind.
LEMMA PlanType ==
  ASSUME NEW a \in PlanArgs
  PROVE  /\ DetermineNumRuns(a) \in Plans
         /\ DetermineNumRuns(a) # Refused =>
              /\ DetermineNumRuns(a).n_runs >= 2
              /\ DetermineNumRuns(a).block_size = Sizes(a).block_size
              /\ DetermineNumRuns(a).maxlen = Sizes(a).maxlen
              /\ Sizes(a).block_size >= 1 /\ Sizes(a).maxlen > 2
              /\ Sizes(a).maxlen >= Sizes(a).block_size
<1> DEFINE s == Sizes(a)
           b == s.block_size
           m == s.maxlen
           wrap == WrapRun(b, m, a.with_fill)
           pair == wrap + LinearRun(b, m, a.with_fill)
           k == (s.max_elems - 2 * m) \div pair
<1>1. s \in [max_elems : Nat, block_size : Nat, maxlen : Nat] /\ a.with_fill \in BOOLEAN
  BY SizesType DEF PlanArgs
<1>2. CASE DetermineNumRuns(a) = Refused
  BY <1>2 DEF Refused, Plans
<1>3. CASE DetermineNumRuns(a) # Refused
  <2>1. ~(b <= 0 \/ m <= 2 \/ m < b) /\ ~(2 * m + pair > s.max_elems)
    BY <1>3 DEF DetermineNumRuns
  <2>2. b \in Nat /\ m \in Nat /\ b >= 1 /\ m > 2 /\ m >= b
    BY <1>1, <2>1
  <2>3. pair \in Nat \ {0}
    <3>1. wrap \in Nat /\ LinearRun(b, m, a.with_fill) \in Nat \ {0}
      BY <1>1, <2>2, RunSizes
    <3> QED BY <3>1
  <2> HIDE DEF pair, b, m
  <2>4. k \in Nat
    BY <1>1, <2>1, <2>2, <2>3, PairsFit
  <2>5. DetermineNumRuns(a) =
          [n_runs |-> 2 * k + (IF 2 * m + k * pair + wrap <= s.max_elems THEN 1 ELSE 0),
           block_size |-> b, maxlen |-> m]
    BY <1>3, <2>1 DEF DetermineNumRuns, pair, b, m
  <2> HIDE DEF k, wrap, s
  <2>6. DetermineNumRuns(a).n_runs >= 2
    BY <1>3, PlanLeavesLittle DEF LeavesLessThanARun
  <2>7. 2 * k + (IF 2 * m + k * pair + wrap <= s.max_elems THEN 1 ELSE 0) \in Nat
    BY <2>4
  <2>8. DetermineNumRuns(a) \in Plans
    BY <2>2, <2>5, <2>7 DEF Plans
  <2> QED BY <2>2, <2>5, <2>6, <2>8 DEF b, m, s
<1> QED BY <1>2, <1>3

\* The files of a context with the sizes of a plan and no more runs than it, and the
\* buffer, stay within its limit.
LEMMA FewerFilesFit ==
  ASSUME NEW a \in PlanArgs, DetermineNumRuns(a) # Refused, Sizes(a).block_size > 1,
         NEW n \in Nat, n <= DetermineNumRuns(a).n_runs
  PROVE  LET shapes   == Shapes(n, Sizes(a).block_size, Sizes(a).maxlen)
             items(k) == shapes[k][1] * shapes[k][2]
             filled   == IF a.with_fill THEN items("fill") ELSE 0
         IN  /\ (items("data") + items("warmup") + items("offset") + filled + Sizes(a).maxlen)
                    * a.elem_bytes <= a.total_byte_limit
             /\ shapes \in [data : Nat \X Nat, warmup : Nat \X Nat, offset : Nat \X Nat,
                            fill : Nat \X Nat]
<1> DEFINE s == Sizes(a)
           b == s.block_size
           m == s.maxlen
           N == DetermineNumRuns(a).n_runs
           l == LinearRun(b, m, a.with_fill)
           o == OffsetSize(b, m)
           h == n \div 2
           cols == m - (b \div 2)
           sum == n * b + 1 * m + h * cols + (IF a.with_fill THEN n * m ELSE 0) + m
<1>1. /\ s.max_elems \in Nat /\ b \in Nat /\ m \in Nat /\ a.with_fill \in BOOLEAN
      /\ a.elem_bytes \in Nat \ {0} /\ a.total_byte_limit \in Nat
  BY SizesType DEF PlanArgs
<1>2. N \in Nat /\ b > 1 /\ m > 2 /\ m >= b
  BY PlanType DEF Plans
<1>3. ItemsFor(s, N, a.with_fill) <= s.max_elems
  BY PlanLeavesLittle DEF LeavesLessThanARun
<1>4. s.max_elems * a.elem_bytes <= a.total_byte_limit
  <2>1. s.max_elems = a.total_byte_limit \div a.elem_bytes
    BY DEF Sizes
  <2> QED BY <1>1, <2>1, Quotient
<1>5. n <= N
  OBVIOUS
<1>6. b \div 2 \in Nat /\ b \div 2 <= b
  BY <1>1, <1>2
<1>7. cols \in Nat /\ h \in Nat
  BY <1>1, <1>2, <1>6
<1>8. Shapes(n, b, m) = [data |-> <<n, b>>, warmup |-> <<1, m>>, offset |-> <<h, cols>>,
                         fill |-> <<n, m>>]
  BY DEF Shapes
<1>9. ItemsFor(s, n, a.with_fill)
        = m + n * b + 1 * m + h * cols + (IF a.with_fill THEN n * m ELSE 0)
  BY <1>8 DEF ItemsFor
<1> HIDE DEF s, N
<1>10. /\ ItemsFor(s, n, a.with_fill) = 2 * m + n * l + h * o
       /\ ItemsFor(s, N, a.with_fill) = 2 * m + N * l + (N \div 2) * o
       /\ ItemsFor(s, n, a.with_fill) \in Nat /\ ItemsFor(s, N, a.with_fill) \in Nat
  <2>1. /\ ItemsFor(s, n, a.with_fill) = Planned(b, m, n, a.with_fill)
        /\ ItemsFor(s, n, a.with_fill) \in Nat
    BY <1>1, <1>2, ItemsOfRuns
  <2>2. /\ ItemsFor(s, N, a.with_fill) = Planned(b, m, N, a.with_fill)
        /\ ItemsFor(s, N, a.with_fill) \in Nat
    BY <1>1, <1>2, ItemsOfRuns
  <2> QED BY <2>1, <2>2 DEF Planned
<1>11. l \in Nat /\ o \in Nat
  BY <1>1, <1>2, RunSizes
<1>12. n * l + h * o <= N * l + (N \div 2) * o
  BY <1>2, <1>5, <1>11, FewerRunsFit
<1> HIDE DEF l, o, b, m, h, cols
<1>13. n * b \in Nat /\ n * m \in Nat /\ h * cols \in Nat
  BY <1>1, <1>7
<1>14. /\ n * l \in Int /\ h * o \in Int /\ N * l \in Int
       /\ (N \div 2) * o \in Int
  <2>1. h \in Nat /\ N \div 2 \in Nat
    BY <1>2, <1>7
  <2> QED BY <1>2, <1>11, <2>1
<1>15. sum <= s.max_elems /\ sum \in Nat
  <2>1. sum = ItemsFor(s, n, a.with_fill) /\ sum \in Nat
    BY <1>1, <1>9, <1>13
  <2>2. ItemsFor(s, n, a.with_fill) <= ItemsFor(s, N, a.with_fill)
    BY <1>1, <1>10, <1>12, <1>14
  <2> QED BY <1>1, <1>3, <1>10, <2>1, <2>2
<1> HIDE DEF sum
<1>16. sum * a.elem_bytes <= a.total_byte_limit
  <2>1. sum * a.elem_bytes <= s.max_elems * a.elem_bytes
    BY <1>1, <1>15
  <2>2. sum * a.elem_bytes \in Nat /\ s.max_elems * a.elem_bytes \in Nat
    BY <1>1, <1>15
  <2> QED BY <1>1, <1>4, <2>1, <2>2
<1> QED BY <1>8, <1>7, <1>1, <1>16 DEF sum, b, m, s

\* The power of two below a number is a number up to it.
LEMMA PowerBelowType ==
  ASSUME NEW n \in Nat \ {0}
  PROVE  PowerBelow(n) \in 1 .. n
<1> DEFINE S == {p \in 1 .. n : PowerOfTwo(p)}
<1>1. PowerOfTwo(1)
  BY DEF PowerOfTwo
<1>2. S \subseteq Nat /\ S # {} /\ \A p \in S : p <= n
  BY <1>1
<1> HIDE DEF S
<1>3. \E p \in S : \A q \in S : q <= p
  BY <1>2, GreatestNumber
<1>4. \E p \in 1 .. n : PowerOfTwo(p) /\ \A q \in 1 .. n : PowerOfTwo(q) => q <= p
  BY <1>3 DEF S
<1> QED BY <1>4 DEF PowerBelow

-------------------------------------------------------------------------------
(* The rounds of a program.                                                *)

\* Largest of some numbers is one of them.
LEMMA LargestType ==
  ASSUME NEW s \in Seq(Nat), s # <<>>
  PROVE  Largest(s) \in Nat
<1>1. Len(s) \in Nat \ {0} /\ DOMAIN s = 1 .. Len(s) /\ \A k \in 1 .. Len(s) : s[k] \in Nat
  OBVIOUS
<1> DEFINE Top(m, n) == m \in 1 .. n /\ \A k \in 1 .. n : s[k] <= s[m]
           T == {n \in 1 .. Len(s) : \E m \in 1 .. n : \A k \in 1 .. n : s[k] <= s[m]}
<1>2. 1 \in T
  BY <1>1
<1>3. ASSUME NEW n \in 1 .. Len(s) - 1, n \in T
      PROVE  n + 1 \in T
  <2>1. n + 1 \in 1 .. Len(s) /\ n \in Nat /\ s[n + 1] \in Nat
    BY <1>1
  <2>2. PICK m \in 1 .. n : \A k \in 1 .. n : s[k] <= s[m]
    BY <1>3
  <2>3. m \in 1 .. Len(s) /\ s[m] \in Nat /\ \A k \in 1 .. n : s[k] \in Nat
    BY <1>1, <2>1
  <2>4. CASE s[n + 1] <= s[m]
    <3>1. m \in 1 .. n + 1 /\ \A k \in 1 .. n + 1 : s[k] <= s[m]
      BY <2>1, <2>2, <2>4
    <3> QED BY <2>1, <3>1
  <2>5. CASE ~(s[n + 1] <= s[m])
    <3>1. \A k \in 1 .. n + 1 : s[k] <= s[n + 1]
      BY <2>1, <2>2, <2>3, <2>5
    <3> QED BY <2>1, <3>1
  <2> QED BY <2>4, <2>5
<1> HIDE DEF T
<1>4. Len(s) \in T
  BY <1>1, <1>2, <1>3, Reaches
<1>5. PICK m \in 1 .. Len(s) : \A k \in 1 .. Len(s) : s[k] <= s[m]
  BY <1>4 DEF T
<1> DEFINE S == {s[k] : k \in DOMAIN s}
<1>6. s[m] \in S /\ \A k \in DOMAIN s : s[k] <= s[m]
  BY <1>1, <1>5
<1>7. S \subseteq Nat
  BY <1>1
<1> HIDE DEF S
<1>8. Largest(s) \in S
  <2>1. \E x \in S : \A k \in DOMAIN s : s[k] <= x
    BY <1>6
  <2> QED BY <2>1 DEF Largest, S
<1> QED BY <1>7, <1>8

\* Two levels of sequences.
LEMMA FlattenTwice ==
  ASSUME NEW S, NEW s \in Seq(Seq(Seq(S)))
  PROVE  FlattenSeq(FlattenSeq(s)) \in Seq(S)
<1>1. FlattenSeq(s) \in Seq(Seq(S))
  BY FlattenType
<1> QED BY <1>1, FlattenType

\* params_for_dtype gives pairs of sizes.
LEMMA FittingType ==
  ASSUME NEW maxlens \in Seq(Nat), NEW blocks \in Seq(Nat)
  PROVE  Fitting(maxlens, blocks) \in Seq(Nat \X Nat)
<1> DEFINE one(b, m) == IF blocks[b] <= maxlens[m] THEN << <<blocks[b], maxlens[m]>> >> ELSE <<>>
           row(m) == [b \in DOMAIN blocks |-> one(b, m)]
           all == [m \in DOMAIN maxlens |-> row(m)]
<1>1. /\ DOMAIN maxlens = 1 .. Len(maxlens) /\ Len(maxlens) \in Nat
      /\ DOMAIN blocks = 1 .. Len(blocks) /\ Len(blocks) \in Nat
  OBVIOUS
<1>2. ASSUME NEW m \in DOMAIN maxlens, NEW b \in DOMAIN blocks
      PROVE  one(b, m) \in Seq(Nat \X Nat)
  <2> DEFINE pair == <<blocks[b], maxlens[m]>>
  <2>1. pair \in Nat \X Nat
    BY <1>1
  <2> HIDE DEF pair
  <2>2. << pair >> \in Seq(Nat \X Nat) /\ <<>> \in Seq(Nat \X Nat)
    BY <2>1
  <2> QED BY <2>2 DEF pair
<1> HIDE DEF one
<1>3. ASSUME NEW m \in DOMAIN maxlens
      PROVE  row(m) \in Seq(Seq(Nat \X Nat))
  BY <1>1, <1>2
<1>4. Fitting(maxlens, blocks) = FlattenSeq(FlattenSeq(all))
  BY Zenon DEF Fitting, one
<1> HIDE DEF row
<1>5. all \in Seq(Seq(Seq(Nat \X Nat)))
  BY <1>1, <1>3
<1> QED BY <1>4, <1>5, FlattenTwice

\* combo_indices gives combinations.
LEMMA SweepTasksType ==
  ASSUME NEW program
  PROVE  SweepTasks(program) \in Seq(Combos)
<1> DEFINE each(block_size, maxlen) ==
             IF block_size > maxlen THEN <<>>
             ELSE IF program = "bench_op_f"
             THEN [c \in DOMAIN SweepCalcs |->
                     Combo("rewinds", block_size, maxlen, SweepCalcs[c])]
             ELSE << Combo("goes_on", block_size, maxlen, 1),
                     Combo("rewinds", block_size, maxlen, 1) >>
           row(b) == [m \in DOMAIN SweepMaxlens |-> each(SweepBlocks[b], SweepMaxlens[m])]
           all == [b \in DOMAIN SweepBlocks |-> row(b)]
<1>1. /\ DOMAIN SweepMaxlens = 1 .. Len(SweepMaxlens) /\ Len(SweepMaxlens) \in Nat
      /\ DOMAIN SweepBlocks = 1 .. Len(SweepBlocks) /\ Len(SweepBlocks) \in Nat
      /\ DOMAIN SweepCalcs = 1 .. Len(SweepCalcs) /\ Len(SweepCalcs) \in Nat
      /\ \A k \in DOMAIN SweepMaxlens : SweepMaxlens[k] \in Nat
      /\ \A k \in DOMAIN SweepBlocks : SweepBlocks[k] \in Nat
      /\ \A k \in DOMAIN SweepCalcs : SweepCalcs[k] \in Nat \ {0}
  <2>1. SweepMaxlens \in Seq(Nat) /\ SweepBlocks \in Seq(Nat) /\ SweepCalcs \in Seq(Nat \ {0})
    BY ScriptsAssumption
  <2>2. /\ DOMAIN SweepMaxlens = 1 .. Len(SweepMaxlens) /\ Len(SweepMaxlens) \in Nat
        /\ \A k \in DOMAIN SweepMaxlens : SweepMaxlens[k] \in Nat
    BY <2>1
  <2>3. /\ DOMAIN SweepBlocks = 1 .. Len(SweepBlocks) /\ Len(SweepBlocks) \in Nat
        /\ \A k \in DOMAIN SweepBlocks : SweepBlocks[k] \in Nat
    BY <2>1
  <2>4. /\ DOMAIN SweepCalcs = 1 .. Len(SweepCalcs) /\ Len(SweepCalcs) \in Nat
        /\ \A k \in DOMAIN SweepCalcs : SweepCalcs[k] \in Nat \ {0}
    BY <2>1
  <2> QED BY <2>2, <2>3, <2>4
<1>2. ASSUME NEW x \in Nat, NEW y \in Nat
      PROVE  each(x, y) \in Seq(Combos)
  <2>1. \A c \in Nat \ {0} : Combo("goes_on", x, y, c) \in Combos
                              /\ Combo("rewinds", x, y, c) \in Combos
    BY DEF Combo, Combos, Rings
  <2>2. CASE x > y
    BY <2>2
  <2>3. CASE ~(x > y) /\ program = "bench_op_f"
    <3>1. each(x, y) = [c \in DOMAIN SweepCalcs |-> Combo("rewinds", x, y, SweepCalcs[c])]
      BY <2>3
    <3>2. \A c \in DOMAIN SweepCalcs : Combo("rewinds", x, y, SweepCalcs[c]) \in Combos
      BY <1>1, <2>1
    <3> HIDE DEF each
    <3> QED BY <1>1, <3>1, <3>2
  <2>4. CASE ~(x > y) /\ program # "bench_op_f"
    <3>1. each(x, y) = << Combo("goes_on", x, y, 1), Combo("rewinds", x, y, 1) >>
      BY <2>4
    <3>2. Combo("goes_on", x, y, 1) \in Combos /\ Combo("rewinds", x, y, 1) \in Combos
      BY <2>1
    <3> HIDE DEF each
    <3> QED BY <3>1, <3>2
  <2> QED BY <2>2, <2>3, <2>4
<1>3. SweepTasks(program) = FlattenSeq(FlattenSeq(all))
  BY Zenon DEF SweepTasks
<1> HIDE DEF each
<1>4. ASSUME NEW b \in DOMAIN SweepBlocks
      PROVE  row(b) \in Seq(Seq(Combos))
  <2>1. \A m \in DOMAIN SweepMaxlens : each(SweepBlocks[b], SweepMaxlens[m]) \in Seq(Combos)
    BY <1>1, <1>2
  <2> QED BY <1>1, <2>1
<1> HIDE DEF row
<1>5. all \in Seq(Seq(Seq(Combos)))
  BY <1>1, <1>4
<1> QED BY <1>3, <1>5, FlattenTwice

\* The limit of a sweep is a number, whatever is known of the memory.
LEMMA SweepLimitType ==
  ASSUME host \in Host
  PROVE  SweepLimit \in Nat
<1>1. SpareRam \in Nat
  BY ScriptsAssumption
<1> QED BY <1>1, HostAnswers DEF SweepLimit, Absent

\* What the scripts ask determine_num_runs for is what it takes.
LEMMA PlansAsked ==
  ASSUME NEW dtype \in Dtype, NEW x \in Nat \cup {Omitted}, NEW y \in Nat, NEW limit \in Nat,
         NEW fill \in BOOLEAN
  PROVE  /\ ByBytes(dtype, x, limit) \in PlanArgs
         /\ [ByBytes(dtype, x, limit) EXCEPT !.block_size = 1] \in PlanArgs
         /\ ~ByBytes(dtype, x, limit).with_fill
         /\ x # Omitted => BySizes(dtype, x, y, limit, fill) \in PlanArgs
<1>1. ItemSize[dtype] \in Nat \ {0} /\ MaxlenBytes \in Nat
  <2>1. dtype \in {"float32", "float64"}
    BY DEF Dtype, ItemSize
  <2>2. ItemSize[dtype] \in Nat \ {0}
    BY <2>1 DEF ItemSize
  <2>3. MaxlenBytes \in Nat
    BY ScriptsAssumption
  <2> QED BY <2>2, <2>3
<1>2. ByBytes(dtype, x, limit) \in PlanArgs /\ ~ByBytes(dtype, x, limit).with_fill
  BY <1>1 DEF PlanArgs, ByBytes
<1>3. [ByBytes(dtype, x, limit) EXCEPT !.block_size = 1] \in PlanArgs
  BY <1>2 DEF PlanArgs
<1>4. ASSUME x # Omitted
      PROVE  BySizes(dtype, x, y, limit, fill) \in PlanArgs
  BY <1>1, <1>4 DEF PlanArgs, BySizes
<1> QED BY <1>2, <1>3, <1>4

\* The rounds of a program: each plans what it asks for.
LEMMA RoundsType ==
  ASSUME host \in Host, script.program \in ProgramNames
  PROVE  Rounds \in Seq(RoundsOf(script.program))
<1>1. /\ RawLimit \in Nat /\ BlockBytes \in Nat
      /\ UtilMaxlens \in Seq(Nat) /\ UtilBlocks \in Seq(Nat)
      /\ Largest(SweepBlocks) \in Nat /\ Largest(SweepMaxlens) \in Nat
  BY ScriptsAssumption, LargestType
<1>2. "float32" \in Dtype /\ "float64" \in Dtype /\ Omitted \notin Nat
  BY DEF Dtype, ItemSize, Omitted
<1>3. Kinds # AllButFill
  BY DEF Kinds, AllButFill
<1>4. \A k \in BenchKinds, r \in Rings, b \in {"mean", "mean_square", "other"} :
        Measured(k, r, b) \in JobKinds
  BY DEF Measured, JobKinds
<1>5. /\ Measured("raw_bench", "rewinds", "other") \in JobKinds
      /\ Measured("raw_bench", "goes_on", "other") \in JobKinds
      /\ Measured("raw_bench", "none", "other") \in JobKinds
      /\ Measured("raw_bench_write_read", "rewinds", "other") \in JobKinds
      /\ Measured("raw_bench_with_calc", "rewinds", "mean_square") \in JobKinds
      /\ Measured("raw_bench_with_calc", "rewinds", "mean") \in JobKinds
      /\ Measured("raw_bench_with_calc", "rewinds", "other") \in JobKinds
  BY <1>4 DEF BenchKinds, Rings
<1>6. \A s \in Seq(JobKinds) : Twice(s) \in Seq(JobKinds)
  BY DEF Twice
<1>7. CASE script.program = "raw_overwrite_buf"
  <2>1. OverwriteJobs \in Seq(JobKinds)
    <3> DEFINE a == Measured("raw_bench", "rewinds", "other")
               b == Measured("raw_bench", "goes_on", "other")
               c == Measured("raw_bench", "none", "other")
    <3> HIDE DEF a, b, c
    <3>1. <<a, b, c, c>> \in Seq(JobKinds)
      BY <1>5 DEF a, b, c
    <3>2. Twice(<<a, b, c, c>>) \in Seq(JobKinds)
      BY <3>1, <1>6, Zenon
    <3> QED BY <3>2 DEF OverwriteJobs, a, b, c
  <2>2. /\ Round("float64", ByBytes("float64", BlockBytes, RawLimit), AllButFill,
                 OverwriteJobs) \in RoundsOf(script.program)
        /\ Round("float64", [ByBytes("float64", Omitted, RawLimit) EXCEPT !.block_size = 1],
                 AllButFill, OverwriteJobs) \in RoundsOf(script.program)
    <3>1. ~[ByBytes("float64", Omitted, RawLimit) EXCEPT !.block_size = 1].with_fill
      BY DEF ByBytes
    <3>2. /\ ByBytes("float64", BlockBytes, RawLimit) \in PlanArgs
          /\ [ByBytes("float64", Omitted, RawLimit) EXCEPT !.block_size = 1] \in PlanArgs
          /\ ~ByBytes("float64", BlockBytes, RawLimit).with_fill
      BY <1>1, <1>2, PlansAsked
    <3> QED BY <1>2, <1>3, <1>7, <2>1, <3>1, <3>2 DEF RoundsOf, Round, Wanted
  <2>3. Rounds = OverwriteRounds
    BY <1>7 DEF Rounds
  <2> QED BY <2>2, <2>3 DEF OverwriteRounds
<1>8. CASE script.program = "raw_blocking_buf"
  <2>1. Twice(Twice(<<Measured("raw_bench_write_read", "rewinds", "other")>>)) \in Seq(JobKinds)
    <3> DEFINE a == Measured("raw_bench_write_read", "rewinds", "other")
    <3> HIDE DEF a
    <3>1. <<a>> \in Seq(JobKinds)
      BY <1>5 DEF a
    <3>2. Twice(<<a>>) \in Seq(JobKinds)
      BY <3>1, <1>6, Zenon
    <3>3. Twice(Twice(<<a>>)) \in Seq(JobKinds)
      BY <3>2, <1>6, Zenon
    <3> QED BY <3>3 DEF a
  <2>2. Round("float64", ByBytes("float64", BlockBytes, RawLimit), AllButFill,
              Twice(Twice(<<Measured("raw_bench_write_read", "rewinds", "other")>>)))
          \in RoundsOf(script.program)
    <3>1. /\ ByBytes("float64", BlockBytes, RawLimit) \in PlanArgs
          /\ ~ByBytes("float64", BlockBytes, RawLimit).with_fill
      BY <1>1, <1>2, PlansAsked
    <3> QED BY <1>2, <1>3, <1>8, <2>1, <3>1 DEF RoundsOf, Round, Wanted
  <2>3. Rounds = BlockingRounds
    BY <1>8 DEF Rounds
  <2> QED BY <2>2, <2>3 DEF BlockingRounds
<1>9. CASE script.program = "raw_util_buffers"
  <2>1. UtilJobs \in Seq(JobKinds)
    <3> DEFINE a == Measured("raw_bench_with_calc", "rewinds", "mean_square")
               b == Measured("raw_bench_with_calc", "rewinds", "mean")
               c == Measured("raw_bench_with_calc", "rewinds", "other")
    <3> HIDE DEF a, b, c
    <3>1. <<a, b, c>> \in Seq(JobKinds)
      BY <1>5 DEF a, b, c
    <3>2. Twice(<<a, b, c>>) \in Seq(JobKinds)
      BY <3>1, <1>6, Zenon
    <3> QED BY <3>2, Zenon DEF UtilJobs, a, b, c
  <2> DEFINE pairs == Fitting(UtilMaxlens, UtilBlocks)
             one(dtype, k) == Round(dtype, BySizes(dtype, pairs[k][1], pairs[k][2], RawLimit, TRUE),
                                    Kinds, UtilJobs)
             of(dtype) == [k \in DOMAIN pairs |-> one(dtype, k)]
  <2>2. pairs \in Seq(Nat \X Nat)
    BY <1>1, FittingType
  <2>3. Rounds = of("float32") \o of("float64")
    BY <1>9, <1>2 DEF Rounds, UtilRounds, BothDtypes
  <2> HIDE DEF pairs
  <2>4. DOMAIN pairs = 1 .. Len(pairs) /\ Len(pairs) \in Nat
    BY <2>2
  <2>5. ASSUME NEW dtype \in Dtype, NEW k \in DOMAIN pairs
        PROVE  one(dtype, k) \in RoundsOf(script.program)
    <3>1. pairs[k][1] \in Nat /\ pairs[k][2] \in Nat
      <4>1. pairs[k] \in Nat \X Nat
        BY <2>2, <2>4
      <4> QED BY <4>1
    <3>2. BySizes(dtype, pairs[k][1], pairs[k][2], RawLimit, TRUE) \in PlanArgs
      BY <1>1, <1>2, <3>1, PlansAsked
    <3>3. BySizes(dtype, pairs[k][1], pairs[k][2], RawLimit, TRUE).with_fill
      BY DEF BySizes
    <3> QED BY <1>9, <2>1, <3>2, <3>3 DEF RoundsOf, Round, Wanted
  <2> HIDE DEF one
  <2>6. \A dtype \in Dtype : of(dtype) \in Seq(RoundsOf(script.program))
    BY <2>4, <2>5
  <2> HIDE DEF of
  <2> QED BY <1>2, <2>3, <2>6
<1>10. ASSUME NEW fill \in BOOLEAN,
             Wanted(script.program) = IF fill THEN Kinds ELSE AllButFill
      PROVE  SweepRounds(fill) \in Seq(RoundsOf(script.program))
  <2> DEFINE one(dtype) == Round(dtype, BySizes(dtype, Largest(SweepBlocks), Largest(SweepMaxlens),
                                                SweepLimit, fill),
                                 IF fill THEN Kinds ELSE AllButFill, <<>>)
  <2>1. SweepRounds(fill) = <<one("float32")>> \o <<one("float64")>>
    BY <1>2 DEF SweepRounds, BothDtypes
  <2>2. ASSUME NEW dtype \in Dtype
        PROVE  one(dtype) \in RoundsOf(script.program)
    <3>1. BySizes(dtype, Largest(SweepBlocks), Largest(SweepMaxlens), SweepLimit, fill)
            \in PlanArgs
      BY <1>1, <1>2, SweepLimitType, PlansAsked
    <3>2. BySizes(dtype, Largest(SweepBlocks), Largest(SweepMaxlens), SweepLimit,
                  fill).with_fill = fill
      BY DEF BySizes
    <3>3. <<>> \in Seq(JobKinds)
      OBVIOUS
    <3> QED BY <1>3, <1>10, <3>1, <3>2, <3>3 DEF RoundsOf, Round
  <2> HIDE DEF one
  <2> QED BY <1>2, <2>1, <2>2
<1>11. CASE script.program = "bench_raw_buf"
  BY <1>10, <1>11 DEF Rounds, Wanted
<1>12. CASE script.program = "bench_op_f"
  BY <1>10, <1>12 DEF Rounds, Wanted
<1>13. CASE script.program = "application"
  BY <1>13 DEF Rounds
<1> QED BY <1>7, <1>8, <1>9, <1>11, <1>12, <1>13 DEF ProgramNames

-------------------------------------------------------------------------------
(* The files.                                                              *)

\* The files in the order they are created and removed.
LEMMA FileOrder ==
  /\ FileKind[1] = "data" /\ FileKind[2] = "warmup" /\ FileKind[3] = "offset"
  /\ FileKind[4] = "fill" /\ FileKind[5] = "evict" /\ DOMAIN FileKind = 1 .. 5
  /\ \A i \in 1 .. 5 : FileKind[i] \in Kinds /\ (FileKind[i] = "evict" <=> i = 5)
  /\ \A i, j \in 1 .. 5 : FileKind[i] = FileKind[j] => i = j
  /\ \A k \in Kinds : \E i \in 1 .. 5 : FileKind[i] = k
<1>1. /\ FileKind[1] = "data" /\ FileKind[2] = "warmup" /\ FileKind[3] = "offset"
      /\ FileKind[4] = "fill" /\ FileKind[5] = "evict" /\ DOMAIN FileKind = 1 .. 5
  BY DEF FileKind
<1>2. 1 .. 5 = {1, 2, 3, 4, 5}
  OBVIOUS
<1> QED BY <1>1, <1>2 DEF Kinds

\* The eviction array is the last one.
LEMMA LastFile ==
  ASSUME NEW i \in 1 .. 5, FileKind[i] = "evict"
  PROVE  i = 5
  BY FileOrder

\* The shapes of the files.
LEMMA ShapesType ==
  ASSUME NEW n \in Int, NEW b \in Int, NEW m \in Int
  PROVE  Shapes(n, b, m) \in Shape
<1>1. n \div 2 \in Int /\ m - (b \div 2) \in Int
  OBVIOUS
<1> QED BY <1>1 DEF Shapes, Shape

\* A configuration that is read is complete, and reading it again changes nothing.
LEMMA ConfigRead ==
  ASSUME host \in Host, NEW e \in Configs
  PROVE  /\ ReadConfig(e) \in Configs
         /\ EvictFile(ReadConfig(e)) \in Extents
         /\ IsRead(e) => ReadConfig(e) = e
         /\ IsRead(ReadConfig(e))
<1> DEFINE r == ReadConfig(e)
<1>1. /\ "float64" \in Dtype /\ Unset \notin Dtype
      /\ \A d \in Dtype : ItemSize[d] \in Nat \ {0}
  BY DEF Dtype, ItemSize, Unset
<1>2. GetCpuL3Cache(host) \in Nat /\ GetCpuL3Cache(host) >= 8
  BY HostAnswers
<1>3. e \in [dtype : Dtype \cup {Unset}, bytes : Nat, item_size : Nat]
  BY DEF Configs
<1>4. /\ r.dtype \in Dtype /\ r.bytes \in Nat /\ r.bytes >= 8
      /\ r.item_size = ItemSize[r.dtype]
      /\ r \in [dtype : Dtype \cup {Unset}, bytes : Nat, item_size : Nat]
  BY <1>1, <1>2, <1>3 DEF ReadConfig, Configs
<1>5. r \in Configs
  <2> HIDE DEF r
  <2> QED BY <1>1, <1>4 DEF Configs
<1>6. IsRead(e) => r = e
  BY DEF ReadConfig, Configs, IsRead
<1>7. IsRead(r)
  BY <1>1, <1>4 DEF IsRead
<1>8. EvictFile(r) \in Extents
  <2>1. r.bytes \div r.item_size \in Int
    BY <1>1, <1>4
  <2> QED BY <1>1, <1>4, <2>1 DEF EvictFile, EvictShape, Extents
<1> QED BY <1>5, <1>6, <1>7, <1>8

\* What a step does to the files: nothing, set a configuration while no context is
\* entered, or go on with one context.
Configures ==
  /\ \A l \in Level : mgr[l].at \in At_Rest
  /\ evict' \in Configs
  /\ UNCHANGED <<host, disk, mgr>>

Enters(l) ==
  \E dtype \in Dtype, n_runs \in Nat, block_size \in Nat, maxlen \in Nat :
    EnterData(l, dtype, n_runs, block_size, maxlen, Asked(l))

FilesMove ==
  \/ UNCHANGED fileVars
  \/ Configures
  \/ \E l \in Level : Enters(l) \/ CreateFile(l) \/ CreateRaises(l) \/ ExitData(l) \/ RemoveFile(l)

\* The context that goes on, and the other one.
LEMMA OneContext ==
  ASSUME FilesInv, NEW l \in Level, UNCHANGED host, Asked(l)' = Asked(l),
         \A k \in Level : Asked(k)' = Asked(k),
         \A k \in Level \ {l} : mgr'[k] = mgr[k] /\ disk'[k] = disk[k],
         mgr' \in [Level -> Managers], disk' \in [Level -> [Kinds -> Extents]],
         evict' = evict \/ evict' = ReadConfig(evict),
         Progress(mgr'[l], disk'[l], Asked(l), evict')
  PROVE  FilesInv'
<1>1. host' \in Host /\ evict' \in Configs
  <2>1. host \in Host /\ evict \in Configs
    BY DEF FilesInv, FilesTyped
  <2>2. ReadConfig(evict) \in Configs
    BY <2>1, ConfigRead
  <2> QED BY <2>1, <2>2
<1>2. ASSUME NEW k \in Level
      PROVE  Progress(mgr'[k], disk'[k], Asked(k), evict')
  <2>1. CASE k = l
    BY <2>1
  <2>2. CASE k # l
    <3>1. mgr'[k] = mgr[k] /\ disk'[k] = disk[k] /\ Progress(mgr[k], disk[k], Asked(k), evict)
      BY <2>2 DEF FilesInv
    <3>2. mgr[k].at = "open" => evict' = evict
      <4>1. mgr[k].at = "open" => IsRead(evict)
        BY <3>1 DEF Progress
      <4> QED BY <4>1, ConfigRead DEF FilesInv, FilesTyped
    <3> QED BY <3>1, <3>2 DEF Progress
  <2> QED BY <2>1, <2>2
<1>3. FilesTyped'
  BY <1>1 DEF FilesTyped
<1> QED BY <1>2, <1>3 DEF FilesInv

\* One file more.
LEMMA FilesCreated ==
  ASSUME FilesInv, NEW l \in Level, CreateFile(l), \A k \in Level : Asked(k)' = Asked(k)
  PROVE  FilesInv'
<1> DEFINE m == mgr[l]
           k == InHand(l)
           d == disk[l]
<1>1. m \in Managers /\ m.at = "generating" /\ k \in Kinds /\ k = FileKind[m.next] /\ m.next \in 1 .. 5
      /\ m.wanted = Asked(l) /\ ~m.raised
  BY FileOrder DEF FilesInv, FilesTyped, CreateFile, Progress, InHand, Managers
<1>2. host \in Host /\ evict \in Configs /\ UNCHANGED host
  BY DEF FilesInv, FilesTyped, CreateFile
<1>3. mgr' = [mgr EXCEPT ![l] = Created(m, k)]
  BY DEF CreateFile
<1>4. mgr'[l] = Created(m, k) /\ \A j \in Level \ {l} : mgr'[j] = mgr[j]
  BY <1>3 DEF FilesInv, FilesTyped
<1>5. disk' = (IF k \in m.wanted THEN [disk EXCEPT ![l][k] = NewFile(l, k)] ELSE disk)
      /\ evict' = IF k \in m.wanted /\ k = "evict" THEN ReadConfig(evict) ELSE evict
  BY DEF CreateFile
<1>6. NewFile(l, k) = (IF k = "evict" THEN EvictFile(ReadConfig(evict)) ELSE Shaped(m, k))
  BY DEF NewFile, Shaped
<1>7. NewFile(l, k) \in Extents
  <2>1. k # "evict" => m.shapes[k] \in Int \X Int
    BY <1>1 DEF Kinds, Managers, Shape
  <2> QED BY <1>1, <1>2, <1>6, <2>1, ConfigRead DEF Shaped, Managers, Extents
<1>8. disk' \in [Level -> [Kinds -> Extents]] /\ d \in [Kinds -> Extents]
      /\ disk'[l] = (IF k \in m.wanted THEN [d EXCEPT ![k] = NewFile(l, k)] ELSE d)
      /\ \A j \in Level \ {l} : disk'[j] = disk[j]
  BY <1>1, <1>5, <1>7 DEF FilesInv, FilesTyped
<1> HIDE DEF k, d
<1>9. Created(m, k) \in Managers
  <2>1. 1 \in DOMAIN FileKind /\ (k # "evict" => m.next + 1 \in DOMAIN FileKind)
    BY <1>1, FileOrder
  <2>2. m \in Managers /\ k \in Kinds
    BY <1>1
  <2> HIDE DEF m
  <2> QED BY <2>1, <2>2 DEF Created, Managers
<1>10. mgr' \in [Level -> Managers]
  BY <1>3, <1>9 DEF FilesInv, FilesTyped
<1>11. Progress(m, d, Asked(l), evict)
  BY DEF FilesInv, d
<1>12. Progress(Created(m, k), disk'[l], Asked(l), evict')
  <2> DEFINE c == Created(m, k)
             e == disk'[l]
  <2>1. /\ c.wanted = Asked(l) /\ c.raised = FALSE /\ c.shapes = m.shapes
        /\ c.item_size = m.item_size
        /\ c.at = IF k = "evict" THEN "open" ELSE "generating"
        /\ c.open = IF k \in Asked(l) THEN m.open \cup {k} ELSE m.open
        /\ k # "evict" => c.next = m.next + 1
    BY <1>1 DEF Created, Managers
  <2>2. /\ \A j \in Kinds \ {k} : e[j] = d[j]
        /\ k \notin Asked(l) => e = d
        /\ k \in Asked(l) => e[k] = NewFile(l, k)
    BY <1>1, <1>8
  <2>3. \A j \in Kinds : Shaped(c, j) = Shaped(m, j)
    BY <2>1 DEF Shaped
  <2> HIDE DEF c, e, m
  <2>4. \A j \in Kinds \ Asked(l) : e[j] = NoFile
    BY <1>11, <2>2 DEF Progress
  <2>5. \A i \in 1 .. 5 : FileKind[i] \in Asked(l) /\ i < m.next =>
          d[FileKind[i]] = Shaped(m, FileKind[i])
    BY <1>1, <1>11 DEF Progress
  <2>6. m.open = {FileKind[i] : i \in 1 .. m.next - 1} \cap Asked(l)
    BY <1>1, <1>11 DEF Progress
  <2>7. {FileKind[i] : i \in 1 .. m.next} \cap Asked(l)
          = IF k \in Asked(l) THEN m.open \cup {k} ELSE m.open
    <3>1. 1 .. m.next = (1 .. m.next - 1) \cup {m.next}
      BY <1>1
    <3> QED BY <1>1, <2>6, <3>1
  <2>8. \A i \in 1 .. 5 : i < m.next => FileKind[i] # k
    BY <1>1, FileOrder
  <2>9. CASE k # "evict"
    <3>1. c.at = "generating" /\ c.next = m.next + 1 /\ c.next - 1 = m.next
      BY <1>1, <2>1, <2>9
    <3>2. c.open = {FileKind[i] : i \in 1 .. c.next - 1} \cap Asked(l)
      BY <2>1, <2>7, <3>1
    <3>3. ASSUME NEW i \in 1 .. 5, FileKind[i] \in Asked(l), i < c.next
          PROVE  e[FileKind[i]] = Shaped(c, FileKind[i])
      <4>1. CASE i = m.next
        BY <1>1, <1>6, <2>2, <2>3, <2>9, <3>3, <4>1 DEF m
      <4>2. CASE i < m.next
        BY <2>2, <2>3, <2>5, <2>8, <3>3, <4>2, FileOrder
      <4> QED BY <1>1, <3>1, <3>3, <4>1, <4>2
    <3>4. Progress(c, e, Asked(l), evict')
      BY <2>1, <2>4, <3>1, <3>2, <3>3 DEF Progress
    <3> QED BY <3>4 DEF c, e
  <2>10. CASE k = "evict"
    <3>1. m.next = 5 /\ c.at = "open"
      <4>1. m.next = 5
        BY <1>1, <2>10, LastFile
      <4> QED BY <2>1, <2>10, <4>1
    <3>2. "evict" \in Asked(l)
      BY DEF Asked, Wanted, AllButFill, Kinds
    <3>3. c.open = Asked(l)
      <4>1. \A j \in Asked(l) : j \in {FileKind[i] : i \in 1 .. 5}
        <5>1. Asked(l) \subseteq Kinds
          BY DEF Asked, Wanted, AllButFill
        <5> QED BY <5>1, FileOrder
      <4> QED BY <2>1, <2>7, <3>1, <4>1
    <3>4. ASSUME NEW j \in Asked(l) \ {"evict"}
          PROVE  e[j] = Shaped(c, j)
      <4>1. j \in Kinds
        BY DEF Asked, Wanted, AllButFill
      <4>2. PICK i \in 1 .. 5 : FileKind[i] = j
        BY <4>1, FileOrder
      <4>3. i < m.next
        BY <2>10, <3>1, <3>4, <4>2, FileOrder
      <4> QED BY <2>2, <2>3, <2>5, <2>10, <3>4, <4>1, <4>2, <4>3
    <3>5. IsRead(evict') /\ e["evict"] = EvictFile(evict')
      <4>1. evict' = ReadConfig(evict)
        BY <1>1, <1>5, <2>10, <3>2
      <4> QED BY <1>2, <1>6, <2>2, <2>10, <3>2, <4>1, ConfigRead
    <3>6. Progress(c, e, Asked(l), evict')
      BY <2>1, <2>4, <3>1, <3>3, <3>4, <3>5 DEF Progress
    <3> QED BY <3>6 DEF c, e
  <2> QED BY <2>9, <2>10 DEF c, e, m
<1>13. evict' = evict \/ evict' = ReadConfig(evict)
  BY <1>5
<1> QED BY <1>2, <1>4, <1>8, <1>10, <1>12, <1>13, OneContext

\* A file could not be created: the context is left at once.
LEMMA FilesRaised ==
  ASSUME FilesInv, NEW l \in Level, CreateRaises(l), \A k \in Level : Asked(k)' = Asked(k)
  PROVE  FilesInv'
<1> DEFINE m == mgr[l]
           k == InHand(l)
           d == disk[l]
<1>1. m \in Managers /\ m.at = "generating" /\ k \in Kinds /\ k \in Asked(l)
  BY FileOrder DEF FilesInv, FilesTyped, CreateRaises, Progress, InHand, Managers
<1>2. host \in Host /\ evict \in Configs /\ UNCHANGED <<host, evict>>
  BY DEF FilesInv, FilesTyped, CreateRaises
<1>3. mgr' = [mgr EXCEPT ![l] = [m EXCEPT !.at = "left", !.raised = TRUE, !.open = {}]]
  BY DEF CreateRaises, FilesInv, FilesTyped
<1>4. NewFile(l, k) \in Extents
  <2>1. k # "evict" => m.shapes[k] \in Int \X Int
    BY <1>1 DEF Kinds, Managers, Shape
  <2> QED BY <1>1, <1>2, <2>1, ConfigRead DEF NewFile, Managers, Extents
<1>5. /\ disk' \in [Level -> [Kinds -> Extents]]
      /\ \A j \in Level \ {l} : disk'[j] = disk[j]
      /\ \A j \in Kinds \ {k} : disk'[l][j] = d[j]
  <2>1. disk' = [disk EXCEPT ![l][k] = NewFile(l, k)] \/ disk' = disk
    BY DEF CreateRaises
  <2>2. disk \in [Level -> [Kinds -> Extents]]
    BY DEF FilesInv, FilesTyped
  <2> HIDE DEF k
  <2> QED BY <1>1, <1>4, <2>1, <2>2
<1> HIDE DEF k, d
<1>6. [m EXCEPT !.at = "left", !.raised = TRUE, !.open = {}] \in Managers
  BY <1>1 DEF Managers
<1>7. /\ mgr' \in [Level -> Managers] /\ \A j \in Level \ {l} : mgr'[j] = mgr[j]
      /\ mgr'[l].at = "left" /\ mgr'[l].raised
  BY <1>1, <1>3, <1>6 DEF FilesInv, FilesTyped, Managers
<1>8. \A j \in Kinds \ Asked(l) : disk'[l][j] = NoFile
  BY <1>1, <1>5 DEF FilesInv, Progress, d
<1>9. Progress(mgr'[l], disk'[l], Asked(l), evict')
  BY <1>7, <1>8 DEF Progress
<1> QED BY <1>2, <1>5, <1>7, <1>9, OneContext

\* The body of a context has ended.
LEMMA FilesLeft ==
  ASSUME FilesInv, NEW l \in Level, ExitData(l), \A k \in Level : Asked(k)' = Asked(k)
  PROVE  FilesInv'
<1> DEFINE m == mgr[l]
<1>1. m \in Managers /\ m.at = "open" /\ Progress(m, disk[l], Asked(l), evict)
  BY DEF FilesInv, FilesTyped, ExitData
<1>2. mgr' = [mgr EXCEPT ![l] = [m EXCEPT !.at = "removing", !.open = {}, !.next = 1]]
      /\ UNCHANGED <<host, evict, disk>>
  BY DEF ExitData, FilesInv, FilesTyped
<1>3. [m EXCEPT !.at = "removing", !.open = {}, !.next = 1] \in Managers
  <2>1. 1 \in DOMAIN FileKind /\ m \in Managers
    BY <1>1, FileOrder
  <2> HIDE DEF m
  <2> QED BY <2>1 DEF Managers
<1>4. /\ mgr' \in [Level -> Managers] /\ \A j \in Level \ {l} : mgr'[j] = mgr[j]
      /\ mgr'[l].at = "removing" /\ mgr'[l].next = 1 /\ mgr'[l].raised = m.raised
      /\ mgr'[l].wanted = m.wanted
  BY <1>1, <1>2, <1>3 DEF FilesInv, FilesTyped, Managers
<1>5. Progress(mgr'[l], disk'[l], Asked(l), evict')
  BY <1>1, <1>2, <1>4 DEF Progress
<1>6. disk' \in [Level -> [Kinds -> Extents]]
  BY <1>2 DEF FilesInv, FilesTyped
<1> QED BY <1>2, <1>4, <1>5, <1>6, OneContext

\* One file is removed, or noted as one that cannot be.
LEMMA FilesRemovedOne ==
  ASSUME FilesInv, NEW l \in Level, RemoveFile(l), \A k \in Level : Asked(k)' = Asked(k)
  PROVE  FilesInv'
<1> DEFINE m == mgr[l]
           k == InHand(l)
           d == disk[l]
           there == k \in m.wanted /\ d[k] # NoFile
<1>1. m \in Managers /\ m.at = "removing" /\ k \in Kinds /\ k = FileKind[m.next] /\ m.next \in 1 .. 5
      /\ m.wanted = Asked(l) /\ ~m.raised /\ Progress(m, d, Asked(l), evict)
  BY FileOrder DEF FilesInv, FilesTyped, RemoveFile, Progress, InHand, Managers
<1>2. PICK removed \in BOOLEAN :
        /\ ~removed => there /\ k \in InUse
        /\ disk' = IF removed /\ there THEN [disk EXCEPT ![l][k] = NoFile] ELSE disk
        /\ mgr' = [mgr EXCEPT ![l].kept = IF removed THEN @ ELSE @ \cup {k},
                              ![l].at = IF k = "evict" THEN "left" ELSE @,
                              ![l].next = IF k = "evict" THEN 1 ELSE @ + 1]
  BY DEF RemoveFile
<1>3. UNCHANGED <<host, evict>>
  BY DEF RemoveFile
<1> DEFINE n == [m EXCEPT !.kept = IF removed THEN @ ELSE @ \cup {k},
                          !.at = IF k = "evict" THEN "left" ELSE @,
                          !.next = IF k = "evict" THEN 1 ELSE @ + 1]
<1>4. mgr' = [mgr EXCEPT ![l] = n]
  BY <1>2 DEF FilesInv, FilesTyped
<1>5. n \in Managers
  <2>1. 1 \in DOMAIN FileKind /\ (k # "evict" => m.next + 1 \in DOMAIN FileKind)
    BY <1>1, FileOrder
  <2>2. m \in Managers /\ k \in Kinds
    BY <1>1
  <2> HIDE DEF k, m
  <2> QED BY <2>1, <2>2 DEF Managers
<1>6. /\ n.kept = (IF removed THEN m.kept ELSE m.kept \cup {k})
      /\ n.at = (IF k = "evict" THEN "left" ELSE "removing")
      /\ k # "evict" => n.next = m.next + 1
      /\ n.wanted = Asked(l) /\ ~n.raised
  BY <1>1 DEF Managers
<1>7. /\ disk' \in [Level -> [Kinds -> Extents]]
      /\ \A j \in Level \ {l} : disk'[j] = disk[j]
      /\ \A j \in Kinds \ {k} : disk'[l][j] = d[j]
      /\ disk'[l][k] = IF removed /\ there THEN NoFile ELSE d[k]
  <2>1. NoFile \in Extents
    BY SMTT(30) DEF NoFile, Extents
  <2> QED BY <1>1, <1>2, <2>1 DEF FilesInv, FilesTyped
<1>8. disk'[l][k] # NoFile => ~removed
  BY <1>1, <1>2, <1>7 DEF Progress
<1> HIDE DEF n, k, d
<1>9. /\ mgr' \in [Level -> Managers] /\ \A j \in Level \ {l} : mgr'[j] = mgr[j]
      /\ mgr'[l] = n
  BY <1>4, <1>5, SMTT(30) DEF FilesInv, FilesTyped
<1>10. \A j \in Kinds \ Asked(l) : disk'[l][j] = NoFile
  BY <1>1, <1>2, <1>7 DEF Progress
<1>11. \A i \in 1 .. 5 : i <= m.next /\ disk'[l][FileKind[i]] # NoFile => FileKind[i] \in n.kept
  <2> SUFFICES ASSUME NEW i \in 1 .. 5, i <= m.next, disk'[l][FileKind[i]] # NoFile
               PROVE  FileKind[i] \in n.kept
    OBVIOUS
  <2>1. CASE i = m.next
    BY <1>1, <1>6, <1>8, <2>1
  <2>2. CASE i < m.next
    <3>1. FileKind[i] # k /\ FileKind[i] \in Kinds
      BY <1>1, <2>2, FileOrder
    <3>2. d[FileKind[i]] # NoFile
      BY <1>7, <3>1
    <3> QED BY <1>1, <1>6, <2>2, <3>2 DEF Progress
  <2> QED BY <1>1, <2>1, <2>2
<1>12. Progress(n, disk'[l], Asked(l), evict')
  <2>1. CASE k = "evict"
    <3>1. m.next = 5
      BY <1>1, <2>1, LastFile
    <3>2. \A j \in Kinds : disk'[l][j] # NoFile => j \in n.kept
      BY <1>11, <3>1, FileOrder
    <3> QED BY <1>6, <1>10, <2>1, <3>2 DEF Progress
  <2>2. CASE k # "evict"
    <3>1. \A i \in 1 .. 5 : i < n.next => i <= m.next
      BY <1>1, <1>6, <2>2
    <3> QED BY <1>6, <1>10, <1>11, <2>2, <3>1 DEF Progress
  <2> QED BY <2>1, <2>2
<1> QED BY <1>3, <1>7, <1>9, <1>12, OneContext

\* A context is entered.
LEMMA FilesEntered ==
  ASSUME FilesInv, NEW l \in Level, Enters(l), \A k \in Level : Asked(k)' = Asked(k)
  PROVE  FilesInv'
<1>1. PICK dtype \in Dtype, n_runs \in Nat, block_size \in Nat, maxlen \in Nat :
        EnterData(l, dtype, n_runs, block_size, maxlen, Asked(l))
  BY DEF Enters
<1> DEFINE n == [Closed EXCEPT !.at = IF n_runs <= 1 THEN "left" ELSE "generating",
                               !.raised = n_runs <= 1, !.wanted = Asked(l),
                               !.item_size = ItemSize[dtype],
                               !.shapes = Shapes(n_runs, block_size, maxlen)]
<1>2. mgr' = [mgr EXCEPT ![l] = n] /\ UNCHANGED <<host, evict>>
      /\ disk' = IF l = "inner" THEN [disk EXCEPT ![l] = [k \in Kinds |-> NoFile]] ELSE disk
  BY <1>1 DEF EnterData
<1>3. Asked(l) \subseteq Kinds /\ ItemSize[dtype] \in Nat
  BY DEF Asked, Wanted, AllButFill, ItemSize, Dtype
<1>4. n \in Managers /\ n.wanted = Asked(l) /\ n.open = {} /\ n.next = 1
      /\ n.raised = (n_runs <= 1) /\ n.at = IF n_runs <= 1 THEN "left" ELSE "generating"
  <2>1. Shapes(n_runs, block_size, maxlen) \in Shape /\ Shapes(0, 0, 0) \in Shape
    BY ShapesType
  <2>2. 1 \in DOMAIN FileKind
    BY FileOrder
  <2> DEFINE few == n_runs <= 1
  <2>3. few \in BOOLEAN
    OBVIOUS
  <2> HIDE DEF few
  <2> DEFINE c == [Closed EXCEPT !.at = IF few THEN "left" ELSE "generating",
                                 !.raised = few, !.wanted = Asked(l),
                                 !.item_size = ItemSize[dtype],
                                 !.shapes = Shapes(n_runs, block_size, maxlen)]
  <2>4. c \in Managers /\ c.wanted = Asked(l) /\ c.open = {} /\ c.next = 1
        /\ c.raised = few /\ c.at = IF few THEN "left" ELSE "generating"
    BY <1>3, <2>1, <2>2, <2>3 DEF Managers, Closed
  <2> QED BY <2>4 DEF few
<1>5. /\ disk' \in [Level -> [Kinds -> Extents]]
      /\ \A j \in Level \ {l} : disk'[j] = disk[j]
      /\ \A j \in Kinds : disk[l][j] = NoFile => disk'[l][j] = NoFile
  <2>1. [k \in Kinds |-> NoFile] \in [Kinds -> Extents]
    BY DEF NoFile, Extents
  <2> QED BY <1>2, <2>1 DEF FilesInv, FilesTyped
<1> HIDE DEF n
<1>6. mgr' \in [Level -> Managers] /\ mgr'[l] = n /\ \A j \in Level \ {l} : mgr'[j] = mgr[j]
  BY <1>2, <1>4 DEF FilesInv, FilesTyped
<1>7. \A j \in Kinds \ Asked(l) : disk'[l][j] = NoFile
  BY <1>5 DEF FilesInv, Progress
<1>8. Progress(n, disk'[l], Asked(l), evict')
  <2>1. {FileKind[i] : i \in 1 .. 1 - 1} = {} /\ \A i \in 1 .. 5 : ~(i < 1)
    OBVIOUS
  <2>2. CASE n_runs <= 1
    BY <1>4, <1>7, <2>2 DEF Progress
  <2>3. CASE ~(n_runs <= 1)
    BY <1>4, <1>7, <2>1, <2>3 DEF Progress
  <2> QED BY <2>2, <2>3
<1> QED BY <1>2, <1>5, <1>6, <1>8, OneContext

\* The files stay in order, whatever a step does to them.
LEMMA FilesKept ==
  ASSUME FilesInv, FilesMove, \A k \in Level : Asked(k)' = Asked(k)
  PROVE  FilesInv'
<1>1. CASE UNCHANGED fileVars
  BY <1>1 DEF FilesInv, FilesTyped, fileVars
<1>2. CASE Configures
  <2>1. \A l \in Level : Progress(mgr[l], disk[l], Asked(l), evict')
    BY <1>2 DEF Configures, FilesInv, Progress, At_Rest
  <2>2. FilesTyped'
    BY <1>2 DEF Configures, FilesInv, FilesTyped
  <2> QED BY <1>2, <2>1, <2>2 DEF Configures, FilesInv
<1> QED BY <1>1, <1>2, FilesCreated, FilesRaised, FilesLeft, FilesRemovedOne, FilesEntered
        DEF FilesMove

-------------------------------------------------------------------------------
(* Benchmarks.                                                             *)

\* What a step does to the benchmark: nothing, call one, go on with it, have it raise,
\* forget it after its end, or lose the worker with it.
BenchMove ==
  \/ UNCHANGED benchVars
  \/ \E p \in Process, j \in JobArgs : StartBench(p, j)
  \/ BenchStep \/ RaiseInBench
  \/ bench.at \notin Half /\ bench' = NoBench /\ UNCHANGED gc
  \/ bench.by = "worker" /\ bench' = NoBench /\ gc' = [gc EXCEPT !["worker"] = TRUE]

\* When the rows fit the number of runs, the halves are as long as the runs they are for.
LEMMA HalvesFit ==
  ASSUME NEW j \in JobArgs, RowsMatch(j), NEW h \in Half
  PROVE  HalfRows(j, h) = HalfLen(j.n_runs, h) /\ HalfLen(j.n_runs, h) \in Nat
<1>1. j.rows.blocks = j.n_runs /\ j.n_runs \in Nat
  BY DEF JobArgs, RowsMatch
<1>2. WrapRuns(j.n_runs) \in Nat /\ WrapRuns(j.n_runs) <= j.n_runs
  BY <1>1 DEF WrapRuns
<1> QED BY <1>1, <1>2 DEF HalfRows, HalfLen, Half

\* A write of less than the capacity wraps after an offset row made for its size.
LEMMA OwnRowsWrap ==
  ASSUME NEW j \in JobArgs, j.own, Splits(j)
  PROVE  Wraps(j, BeforeBlock(j, "wrap"))
<1> DEFINE m == j.maxlen
           b == j.block_size
           n == j.rows.length
           filled == IF j.kind = "raw_bench_with_calc" THEN Extended(j, Cleared, m) ELSE Cleared
           offset == Extended(j, filled, n)
<1>1. m \in Int /\ b \in Int /\ b > 1 /\ b < m /\ n = m - (b \div 2)
  BY DEF JobArgs, Splits
<1>2. b \div 2 \in Int /\ b \div 2 >= 1 /\ b \div 2 < b
  BY <1>1
<1>3. n \in Nat /\ n < m
  BY <1>1, <1>2
<1>4. filled.head = 0
  <2>1. (0 + m) % m = 0
    BY <1>1
  <2> QED BY <2>1 DEF Extended, Cleared
<1> HIDE DEF filled, m, n, b
<1>5. offset.head = n
  <2>1. (0 + n) % m = n /\ ~(n >= m)
    BY <1>1, <1>3
  <2> QED BY <1>4, <2>1 DEF Extended, m
<1>6. BeforeBlock(j, "wrap").head = offset.head
  <2>1. BeforeBlock(j, "wrap") = IF j.kind = "raw_bench_write_read" THEN Drained(offset) ELSE offset
    BY Zenon DEF BeforeBlock, filled, m, n
  <2>2. Drained(offset).head = offset.head
    BY DEF Drained, Extended
  <2> QED BY <2>1, <2>2
<1>7. n + b >= m /\ n + b > m
  BY <1>1, <1>2
<1> HIDE DEF offset
<1> QED BY <1>1, <1>5, <1>6, <1>7 DEF Wraps, b, m

\* The type of no benchmark.
LEMMA NoBenchType ==
  /\ NoBench \in [at : Half \cup {"idle", "returned", "raised"}, by : Process, job : JobArgs,
                  i : Nat, timed : [Half -> SUBSET Nat], calcs : [Half -> SUBSET Nat],
                  wrapped : SUBSET Nat, time : Times \cup {0}]
  /\ NoBench.at = "idle"
<1>1. NoJob \in JobArgs
  BY DEF NoJob, Job, Rows, JobArgs, BenchKinds, Rings
<1> QED BY <1>1 DEF NoBench, Process

\* A benchmark is forgotten after its end, or with its worker.
LEMMA BenchForgotten ==
  ASSUME BenchInv, bench' = NoBench, gc' \in [Process -> BOOLEAN], \A p \in Process : gc'[p]
  PROVE  BenchInv'
<1>1. bench'.at = "idle" /\ "idle" \notin Half \cup {"returned"}
  BY NoBenchType DEF Half
<1>2. BenchTyped'
  BY NoBenchType DEF BenchTyped
<1> QED BY <1>1, <1>2 DEF BenchInv, CollectorBackOn, OwnDataWraps

\* A benchmark is called.
LEMMA BenchStarted ==
  ASSUME BenchInv, NEW p \in Process, NEW j \in JobArgs, StartBench(p, j)
  PROVE  BenchInv'
<1>1. /\ bench.at \notin Half
      /\ bench' = [NoBench EXCEPT !.at = IF RowsMatch(j) THEN "wrap" ELSE "raised",
                                  !.by = p, !.job = j]
      /\ gc' = IF RowsMatch(j) THEN [gc EXCEPT ![p] = FALSE] ELSE gc
  BY DEF StartBench, Half
<1>2. gc \in [Process -> BOOLEAN] /\ \A q \in Process : gc[q]
  BY <1>1 DEF BenchInv, BenchTyped, CollectorBackOn
<1>3. /\ bench'.at = (IF RowsMatch(j) THEN "wrap" ELSE "raised")
      /\ bench'.by = p /\ bench'.job = j /\ bench'.i = 0 /\ bench'.wrapped = {}
      /\ bench'.timed = [h \in Half |-> {}] /\ bench'.calcs = [h \in Half |-> {}]
  BY <1>1 DEF NoBench
<1>4. BenchTyped'
  <2>1. bench' \in [at : Half \cup {"idle", "returned", "raised"}, by : Process, job : JobArgs,
                    i : Nat, timed : [Half -> SUBSET Nat], calcs : [Half -> SUBSET Nat],
                    wrapped : SUBSET Nat, time : Times \cup {0}]
    BY <1>1, NoBenchType DEF Half
  <2> QED BY <1>1, <1>2, <2>1 DEF BenchTyped
<1>5. CollectorBackOn'
  BY <1>1, <1>2, <1>3 DEF CollectorBackOn, Half
<1>6. \A h \in Half : MeasuredRuns(h)' = {} \/ bench'.at # "wrap"
  BY <1>3 DEF MeasuredRuns
<1>7. bench'.at \in Half \cup {"returned"} => bench'.at = "wrap" /\ RowsMatch(j)
  BY <1>3 DEF Half
<1>8. bench'.at = "wrap" => bench'.i <= HalfRows(bench'.job, bench'.at)
  BY <1>3, <1>7, HalvesFit DEF Half
<1>9. OwnDataWraps'
  BY <1>3 DEF OwnDataWraps, Half
<1> QED BY <1>3, <1>4, <1>5, <1>6, <1>7, <1>8, <1>9 DEF BenchInv

\* One run of it.
LEMMA BlockRun ==
  ASSUME BenchInv, RunBlock
  PROVE  BenchInv'
<1> DEFINE h == bench.at
           j == bench.job
           r == BeforeBlock(j, h)
           i == bench.i
           mask == CalcMask(HalfLen(j.n_runs, h), j.calc_every)
<1>1. /\ h \in Half /\ j \in JobArgs /\ RowsMatch(j) /\ i \in Nat /\ i < HalfRows(j, h)
      /\ UNCHANGED gc
      /\ bench' = [bench EXCEPT
             !.i = @ + 1,
             !.timed[h] = @ \cup {bench.i},
             !.calcs[h] = IF /\ j.kind = "raw_bench_with_calc"
                             /\ bench.i \in CalcMask(HalfLen(j.n_runs, h), j.calc_every)
                          THEN @ \cup {bench.i} ELSE @,
             !.wrapped = IF h = "wrap" /\ Wraps(j, r) THEN @ \cup {bench.i} ELSE @]
  BY DEF RunBlock, BenchInv, BenchTyped
<1>2. BenchTyped
  BY DEF BenchInv
<1> HIDE DEF r, mask
<1>3. /\ bench'.at = h /\ bench'.by = bench.by /\ bench'.job = j /\ bench'.i = i + 1
      /\ bench'.timed = [bench.timed EXCEPT ![h] = @ \cup {i}]
      /\ bench'.calcs = [bench.calcs EXCEPT ![h] =
           IF j.kind = "raw_bench_with_calc" /\ i \in mask THEN @ \cup {i} ELSE @]
      /\ bench'.wrapped = (IF h = "wrap" /\ Wraps(j, r) THEN bench.wrapped \cup {i}
                           ELSE bench.wrapped)
      /\ bench'.time = bench.time
      /\ DOMAIN bench' = DOMAIN bench
  BY <1>1, <1>2 DEF BenchTyped, mask
<1>4. BenchTyped'
  <2>1. /\ bench.timed \in [Half -> SUBSET Nat] /\ bench.calcs \in [Half -> SUBSET Nat]
        /\ bench.wrapped \in SUBSET Nat
    BY <1>2 DEF BenchTyped
  <2>2. /\ bench'.timed \in [Half -> SUBSET Nat] /\ bench'.calcs \in [Half -> SUBSET Nat]
        /\ bench'.wrapped \in SUBSET Nat /\ bench'.i \in Nat
    BY <1>1, <1>3, <2>1
  <2>3. bench' = [bench EXCEPT !.i = bench'.i, !.timed = bench'.timed, !.calcs = bench'.calcs,
                               !.wrapped = bench'.wrapped]
    BY <1>1, <1>2 DEF BenchTyped
  <2> QED BY <1>1, <1>2, <2>2, <2>3 DEF BenchTyped
<1>5. CollectorBackOn'
  BY <1>1, <1>3 DEF BenchInv, CollectorBackOn
<1>6. \A k \in Half : MeasuredRuns(k)' = IF k = h THEN MeasuredRuns(h) \cup {i} ELSE MeasuredRuns(k)
  <2>1. (0 .. i - 1) \cup {i} = 0 .. (i + 1) - 1
    BY <1>1
  <2> QED BY <1>1, <1>3, <2>1 DEF MeasuredRuns, Half
<1>7. \A k \in Half : bench'.timed[k] = MeasuredRuns(k)'
  <2>1. \A k \in Half : bench.timed[k] = MeasuredRuns(k)
    BY <1>1 DEF BenchInv
  <2>2. bench.timed \in [Half -> SUBSET Nat]
    BY <1>2 DEF BenchTyped
  <2> QED BY <1>1, <1>3, <1>6, <2>1, <2>2
<1>8. ASSUME j.kind = "raw_bench_with_calc", NEW k \in Half
      PROVE  bench'.calcs[k] = CalcMask(HalfLen(j.n_runs, k), j.calc_every) \cap MeasuredRuns(k)'
  <2>1. bench.calcs[k] = CalcMask(HalfLen(j.n_runs, k), j.calc_every) \cap MeasuredRuns(k)
    BY <1>1, <1>8 DEF BenchInv
  <2>2. bench.calcs \in [Half -> SUBSET Nat]
    BY <1>2 DEF BenchTyped
  <2>3. CASE k = h
    BY <1>1, <1>3, <1>6, <1>8, <2>1, <2>2, <2>3 DEF mask
  <2>4. CASE k # h
    BY <1>1, <1>3, <1>6, <2>1, <2>2, <2>4
  <2> QED BY <2>3, <2>4
<1>9. i + 1 <= HalfRows(j, h)
  BY <1>1, HalvesFit
<1>10. OwnDataWraps'
  <2> SUFFICES ASSUME j.own, Splits(j)
               PROVE  bench'.wrapped = bench'.timed["wrap"]
    BY <1>3 DEF OwnDataWraps
  <2>1. bench.wrapped = bench.timed["wrap"]
    BY <1>1 DEF BenchInv, OwnDataWraps, Half
  <2>2. h = "wrap" => Wraps(j, r)
    BY <1>1, OwnRowsWrap DEF r
  <2>3. bench.timed \in [Half -> SUBSET Nat] /\ "wrap" \in Half
    BY <1>2 DEF BenchTyped, Half
  <2>4. h = "wrap" => bench'.timed["wrap"] = bench.timed["wrap"] \cup {i}
    BY <1>3, <2>3
  <2>5. h # "wrap" => bench'.timed["wrap"] = bench.timed["wrap"]
    BY <1>3, <2>3
  <2>6. bench'.wrapped = IF h = "wrap" /\ Wraps(j, r) THEN bench.wrapped \cup {i}
                         ELSE bench.wrapped
    BY <1>3
  <2> QED BY <2>1, <2>2, <2>4, <2>5, <2>6
<1> QED BY <1>1, <1>3, <1>4, <1>5, <1>7, <1>8, <1>9, <1>10 DEF BenchInv

\* The runs that wrap are done.
LEMMA HalfDone ==
  ASSUME BenchInv, NextHalf
  PROVE  BenchInv'
<1> DEFINE j == bench.job
<1>1. /\ bench.at = "wrap" /\ bench.i = HalfRows(j, "wrap") /\ UNCHANGED gc
      /\ bench' = [bench EXCEPT !.at = "nowrap", !.i = 0]
  BY DEF NextHalf
<1>2. BenchTyped
  BY DEF BenchInv
<1>3. j \in JobArgs /\ RowsMatch(j) /\ "wrap" \in Half /\ "nowrap" \in Half
  BY <1>1, <1>2 DEF BenchInv, BenchTyped, Half
<1>4. /\ bench'.at = "nowrap" /\ bench'.by = bench.by /\ bench'.job = j /\ bench'.i = 0
      /\ bench'.timed = bench.timed /\ bench'.calcs = bench.calcs
      /\ bench'.wrapped = bench.wrapped
  BY <1>1, <1>2 DEF BenchTyped
<1>5. BenchTyped'
  BY <1>1, <1>2, <1>3 DEF BenchTyped
<1>6. \A k \in Half : MeasuredRuns(k)' = MeasuredRuns(k)
  <2>1. bench.i = HalfLen(j.n_runs, "wrap")
    BY <1>1, <1>3, HalvesFit
  <2>2. 0 .. 0 - 1 = {}
    OBVIOUS
  <2> QED BY <1>1, <1>4, <2>1, <2>2 DEF MeasuredRuns, Half
<1>7. 0 <= HalfRows(j, "nowrap")
  BY <1>3, HalvesFit
<1>8. CollectorBackOn'
  BY <1>1, <1>3, <1>4 DEF BenchInv, CollectorBackOn
<1>9. OwnDataWraps'
  BY <1>1, <1>4 DEF BenchInv, OwnDataWraps
<1>10. /\ \A h \in Half : bench.timed[h] = MeasuredRuns(h)
       /\ j.kind = "raw_bench_with_calc" =>
            \A h \in Half : bench.calcs[h] =
              CalcMask(HalfLen(j.n_runs, h), j.calc_every) \cap MeasuredRuns(h)
  BY <1>1, <1>3 DEF BenchInv
<1> QED BY <1>3, <1>4, <1>5, <1>6, <1>7, <1>8, <1>9, <1>10 DEF BenchInv

\* It returns.
LEMMA BenchFinished ==
  ASSUME BenchInv, FinishBench
  PROVE  BenchInv'
<1> DEFINE j == bench.job
<1>1. /\ bench.at = "nowrap" /\ bench.i = HalfRows(j, "nowrap")
      /\ gc' = [gc EXCEPT ![bench.by] = TRUE]
  BY DEF FinishBench
<1>2. PICK time \in Times : bench' = [bench EXCEPT !.at = "returned", !.time = time]
  BY DEF FinishBench
<1>3. BenchTyped
  BY DEF BenchInv
<1>4. j \in JobArgs /\ RowsMatch(j) /\ "nowrap" \in Half
  BY <1>1, <1>3 DEF BenchInv, BenchTyped, Half
<1>5. /\ bench'.at = "returned" /\ bench'.by = bench.by /\ bench'.job = j
      /\ bench'.timed = bench.timed /\ bench'.calcs = bench.calcs
      /\ bench'.wrapped = bench.wrapped
  BY <1>2, <1>3 DEF BenchTyped
<1>6. BenchTyped'
  BY <1>1, <1>2, <1>3 DEF BenchTyped
<1>7. \A k \in Half : MeasuredRuns(k)' = MeasuredRuns(k)
  <2>1. bench.i = HalfLen(j.n_runs, "nowrap")
    BY <1>1, <1>4, HalvesFit
  <2> QED BY <1>1, <1>5, <2>1 DEF MeasuredRuns, Half
<1>8. CollectorBackOn'
  BY <1>1, <1>3, <1>4, <1>5 DEF BenchInv, BenchTyped, CollectorBackOn
<1>9. OwnDataWraps'
  BY <1>1, <1>5 DEF BenchInv, OwnDataWraps
<1>10. /\ \A h \in Half : bench.timed[h] = MeasuredRuns(h)
       /\ j.kind = "raw_bench_with_calc" =>
            \A h \in Half : bench.calcs[h] =
              CalcMask(HalfLen(j.n_runs, h), j.calc_every) \cap MeasuredRuns(h)
  BY <1>1, <1>4 DEF BenchInv
<1>11. bench'.at \notin Half
  BY <1>5 DEF Half
<1> QED BY <1>4, <1>5, <1>6, <1>7, <1>8, <1>9, <1>10, <1>11 DEF BenchInv

\* It raises.
LEMMA BenchRaised ==
  ASSUME BenchInv, RaiseInBench
  PROVE  BenchInv'
<1>1. bench.at \in Half /\ bench' = [bench EXCEPT !.at = "raised"]
      /\ gc' = [gc EXCEPT ![bench.by] = TRUE]
  BY DEF RaiseInBench
<1>2. BenchTyped
  BY DEF BenchInv
<1>3. /\ bench'.at = "raised" /\ bench'.by = bench.by /\ bench'.job = bench.job
      /\ bench'.timed = bench.timed /\ bench'.wrapped = bench.wrapped
  BY <1>1, <1>2 DEF BenchTyped
<1>4. BenchTyped'
  BY <1>1, <1>2 DEF BenchTyped
<1>5. CollectorBackOn'
  BY <1>1, <1>2, <1>3 DEF BenchInv, BenchTyped, CollectorBackOn
<1>6. OwnDataWraps'
  BY <1>1, <1>3 DEF BenchInv, OwnDataWraps, Half
<1>7. bench'.at \notin Half \cup {"returned"}
  BY <1>3 DEF Half
<1> QED BY <1>4, <1>5, <1>6, <1>7 DEF BenchInv

\* A benchmark keeps to its runs, whatever a step does to it.
LEMMA BenchKept ==
  ASSUME BenchInv, BenchMove
  PROVE  BenchInv'
<1>1. CASE UNCHANGED benchVars
  BY <1>1 DEF BenchInv, BenchTyped, CollectorBackOn, MeasuredRuns, OwnDataWraps, benchVars
<1>2. CASE bench.at \notin Half /\ bench' = NoBench /\ UNCHANGED gc
  <2>1. \A p \in Process : gc[p]
    BY <1>2 DEF BenchInv, CollectorBackOn
  <2> QED BY <1>2, <2>1, BenchForgotten DEF BenchInv, BenchTyped
<1>3. CASE bench.by = "worker" /\ bench' = NoBench /\ gc' = [gc EXCEPT !["worker"] = TRUE]
  <2>1. \A p \in Process : gc'[p]
    BY <1>3 DEF BenchInv, BenchTyped, CollectorBackOn
  <2> QED BY <1>3, <2>1, BenchForgotten DEF BenchInv, BenchTyped
<1> QED BY <1>1, <1>2, <1>3, BenchStarted, BlockRun, HalfDone, BenchFinished, BenchRaised
        DEF BenchMove, BenchStep

-------------------------------------------------------------------------------
(* What a step does to the files and to the benchmark.                     *)

\* The rounds are those of the program and its host.
LEMMA RoundsSame ==
  ASSUME UNCHANGED host, script'.program = script.program
  PROVE  Rounds' = Rounds
  BY DEF Rounds, SweepRounds, SweepLimit

\* The round a program is in, and what the plan of a round comes to.
LEMMA RoundInHand ==
  ASSUME FilesInv, ScriptInv, script.round \in DOMAIN Rounds
  PROVE  /\ CurrentRound \in RoundsOf(script.program)
         /\ CurrentRound.plan \in PlanArgs
         /\ DetermineNumRuns(CurrentRound.plan) \in Plans
<1>1. host \in Host /\ script.program \in ProgramNames
  BY DEF FilesInv, FilesTyped, ScriptInv
<1>2. Rounds \in Seq(RoundsOf(script.program))
  BY <1>1, RoundsType
<1>3. CurrentRound \in RoundsOf(script.program)
  <2>1. script.round \in 1 .. Len(Rounds)
    BY <1>2
  <2> QED BY <1>2, <2>1, MemberAt DEF CurrentRound
<1>4. CurrentRound.plan \in PlanArgs
  BY <1>3 DEF RoundsOf
<1> QED BY <1>3, <1>4, PlanType

\* A call of determine_operation_focus plans for the sizes it is given, and takes no more
\* runs than the plan has.
LEMMA FocusPlanned ==
  ASSUME host \in Host, NEW a \in FocusCalls, ~InvalidFocus(a)
  PROVE  /\ FocusPlan(a) \in PlanArgs
         /\ Sizes(FocusPlan(a)).block_size = a.block_size
         /\ Sizes(FocusPlan(a)).maxlen = a.buffer_maxlen
         /\ FocusRuns(a) \in Nat /\ FocusRuns(a) <= DetermineNumRuns(FocusPlan(a)).n_runs
         /\ FocusRuns(a) # 0 => DetermineNumRuns(FocusPlan(a)) # Refused
         /\ a.dtype \in Dtype /\ a.block_size \in Nat /\ a.buffer_maxlen \in Nat
         /\ a.calc_every \in Nat \ {0} /\ a.fallback \in Focus
<1>1. /\ a.dtype \in Dtype /\ a.block_size \in Nat \ {0} /\ a.buffer_maxlen \in Nat
      /\ a.calc_every \in Nat \ {0} /\ a.fallback \in Focus
  BY DEF FocusCalls, InvalidFocus
<1>2. Budget \in Nat
  <2>1. {DefaultRam, RamShare, BudgetCap} \subseteq Nat \ {0}
    BY FocusAssumption
  <2>2. \A ram \in Nat : ram \div RamShare \in Nat
    BY <2>1, Quotient
  <2>3. GetAvailableRam(host) \in Nat \cup {Absent}
    BY HostAnswers
  <2> QED BY <2>1, <2>2, <2>3 DEF Budget
<1>3. ItemSize[a.dtype] \in Nat \ {0}
  BY <1>1 DEF Dtype, ItemSize
<1>4. FocusPlan(a) \in PlanArgs
  BY <1>1, <1>2, <1>3 DEF FocusPlan, PlanArgs, Omitted
<1>5. Sizes(FocusPlan(a)).block_size = a.block_size /\ Sizes(FocusPlan(a)).maxlen = a.buffer_maxlen
  BY <1>1 DEF Sizes, FocusPlan, Omitted
<1> DEFINE possible == DetermineNumRuns(FocusPlan(a)).n_runs
           wanted   == IF a.calc_every * RunsPerCalc > MinRuns THEN a.calc_every * RunsPerCalc
                       ELSE MinRuns
           few      == IF wanted < possible THEN wanted ELSE possible
<1>6. possible \in Nat
  BY <1>4, PlanType DEF Plans
<1>7. wanted \in Nat \ {0}
  <2>1. RunsPerCalc \in Nat \ {0} /\ MinRuns \in Nat \ {0}
    BY FocusAssumption
  <2>2. a.calc_every * RunsPerCalc \in Nat
    BY <1>1, <2>1
  <2> QED BY <2>1, <2>2
<1>8. FocusRuns(a) = IF possible = 0 THEN 0 ELSE PowerBelow(few)
  BY Zenon DEF FocusRuns
<1>9. possible # 0 => DetermineNumRuns(FocusPlan(a)) # Refused
  BY DEF Refused
<1> HIDE DEF possible, wanted
<1>10. FocusRuns(a) \in Nat /\ FocusRuns(a) <= possible /\ (FocusRuns(a) # 0 => possible # 0)
  <2>1. CASE possible = 0
    BY <1>8, <2>1
  <2>2. CASE possible # 0
    <3>1. few \in Nat \ {0} /\ few <= possible
      BY <1>6, <1>7, <2>2
    <3> HIDE DEF few
    <3>2. PowerBelow(few) \in 1 .. few
      BY <3>1, PowerBelowType
    <3> QED BY <1>6, <1>8, <2>2, <3>1, <3>2
  <2> QED BY <2>1, <2>2
<1> QED BY <1>1, <1>4, <1>5, <1>9, <1>10 DEF possible

\* What the scripts ask with.
LEMMA ArgsAsked ==
  ASSUME FilesInv, ScriptInv, AskFocus
  PROVE  ArgsOfJob \in FocusCalls /\ CallFocus(ArgsOfJob) /\ script.at = "jobs"
         /\ CurrentJob \in JobKinds /\ script.job <= Len(CurrentRound.jobs)
<1>1. script.at = "jobs" /\ script.job <= Len(CurrentRound.jobs) /\ CallFocus(ArgsOfJob)
  BY DEF AskFocus, NextJob
<1>2. script.round \in DOMAIN Rounds /\ script.job \in Nat \ {0} /\ script.plan \in Plans
  BY <1>1 DEF ScriptInv, InRound
<1>3. CurrentRound.dtype \in Dtype /\ CurrentRound.jobs \in Seq(JobKinds)
  BY <1>2, RoundInHand DEF RoundsOf
<1>4. CurrentJob \in JobKinds
  <2>1. script.job \in 1 .. Len(CurrentRound.jobs)
    BY <1>1, <1>2, <1>3
  <2> QED BY <1>3, <2>1, MemberAt DEF CurrentJob
<1>5. UtilCalcEvery \in Int
  BY ScriptsAssumption
<1>6. ArgsOfJob \in FocusCalls
  BY <1>2, <1>3, <1>4, <1>5 DEF ArgsOfJob, FocusCalls, JobKinds, Plans, Focus
<1> QED BY <1>1, <1>4, <1>6

\* A call either enters the inner context or leaves the files alone.
LEMMA CallMovesFiles ==
  ASSUME FilesInv, NEW a \in FocusCalls, CallFocus(a)
  PROVE  (UNCHANGED fileVars \/ Enters("inner")) /\ UNCHANGED <<host, benchVars>>
         /\ mgr'["outer"] = mgr["outer"] /\ disk'["outer"] = disk["outer"]
<1>1. CASE UNCHANGED fileVars
  BY <1>1 DEF CallFocus, fileVars
<1>2. CASE ~UNCHANGED fileVars
  <2>1. ~InvalidFocus(a) /\ EnterData("inner", a.dtype, FocusRuns(a), a.block_size, a.buffer_maxlen, Kinds)
    BY <1>2 DEF CallFocus
  <2>2. Enters("inner")
    BY <2>1, FocusPlanned DEF Enters, Asked, FilesInv, FilesTyped
  <2> QED BY <2>1, <2>2 DEF CallFocus, EnterData, FilesInv, FilesTyped, Level
<1> QED BY <1>1, <1>2

\* Who takes a step, and what it leaves alone.
LEMMA StepKinds ==
  ASSUME Next
  PROVE  \/ ScriptStep
         \/ \E l \in Level : /\ CreateFile(l) \/ CreateRaises(l) \/ RemoveFile(l)
                             /\ UNCHANGED <<benchVars, focus, pool, scriptVars>>
         \/ FocusStep /\ UNCHANGED <<pool, scriptVars>>
         \/ /\ PoolStep \/ BodyRaises
            /\ UNCHANGED <<fileVars, benchVars, focus, scriptVars>>
         \/ /\ WorkerStep \/ WorkerDies
            /\ UNCHANGED <<fileVars, focus, scriptVars>>
         \/ /\ BenchStep \/ RaiseInBench
            /\ UNCHANGED <<fileVars, focus, pool, scriptVars>>
<1>1. PoolStep \/ BodyRaises => UNCHANGED <<fileVars, benchVars, focus>>
  BY DEF PoolStep, BodyRaises, Submit, SubmitRaises, AskFuture, CollectFound, AllSubmitted,
         CollectRemaining, AllCollected, ShutDown, Others
<1>2. WorkerStep \/ WorkerDies => UNCHANGED <<fileVars, focus>>
  BY DEF WorkerStep, WorkerDies, TakeTask, TaskEnds, PoolBreaks, Others
<1> QED BY <1>1, <1>2 DEF Next, MainStep, WorkersStep, Failure, BenchGoesOn, FilesStep

\* Planning enters the outer context, for the runs and the sizes of the plan, or raises.
LEMMA PlanEnters ==
  ASSUME FilesInv, ScriptInv, PlanRound,
         ~(script' = [script EXCEPT !.at = "raised"] /\ UNCHANGED fileVars)
  PROVE  LET plan == DetermineNumRuns(CurrentRound.plan)
         IN  /\ EnterData("outer", CurrentRound.dtype, plan.n_runs, plan.block_size,
                          plan.maxlen, CurrentRound.wanted)
             /\ script' = [script EXCEPT !.at = "generating", !.plan = plan, !.job = 1]
             /\ plan # Refused /\ plan \in Plans /\ script.round \in DOMAIN Rounds
             /\ Enters("outer")
<1> DEFINE plan == DetermineNumRuns(CurrentRound.plan)
<1>1. /\ EnterData("outer", CurrentRound.dtype, plan.n_runs, plan.block_size,
                   plan.maxlen, CurrentRound.wanted)
      /\ script' = [script EXCEPT !.at = "generating", !.plan = plan, !.job = 1]
      /\ plan # Refused
  BY DEF PlanRound
<1>2. script.round \in DOMAIN Rounds
  <2>1. Rounds \in Seq(RoundsOf(script.program))
    BY RoundsType DEF FilesInv, FilesTyped, ScriptInv
  <2>2. script.round \in Nat \ {0} /\ script.round <= Len(Rounds)
    BY DEF ScriptInv, PlanRound
  <2> QED BY <2>1, <2>2
<1>3. plan \in Plans /\ CurrentRound \in RoundsOf(script.program)
  BY <1>2, RoundInHand
<1>4. CurrentRound.dtype \in Dtype /\ CurrentRound.wanted = Asked("outer")
  BY <1>3 DEF RoundsOf, Asked
<1> HIDE DEF plan
<1>5. Enters("outer")
  BY <1>1, <1>3, <1>4 DEF Enters, Plans
<1> QED BY <1>1, <1>2, <1>3, <1>5 DEF plan

\* The calls of an application.
LEMMA AppMovesFiles ==
  ASSUME FilesInv, OuterTurn, InnerTurn, ScriptInv, AppCalls
  PROVE  /\ FilesMove /\ UNCHANGED <<host, benchVars>>
         /\ mgr'["outer"] = mgr["outer"] /\ disk'["outer"] = disk["outer"]
<1>1. CASE \E a \in FocusArgs : CallFocus(a)
  <2>1. PICK a \in FocusCalls : CallFocus(a)
    BY <1>1, ApplicationAssumption
  <2>2. (UNCHANGED fileVars \/ Enters("inner")) /\ UNCHANGED <<host, benchVars>>
        /\ mgr'["outer"] = mgr["outer"] /\ disk'["outer"] = disk["outer"]
    BY <2>1, CallMovesFiles
  <2>3. "inner" \in Level
    BY DEF Level
  <2> QED BY <2>2, <2>3 DEF FilesMove
<1>2. CASE ~(\E a \in FocusArgs : CallFocus(a))
  <2>1. /\ \/ \E dtype \in Dtype : SetDtype(dtype)
           \/ \E value \in EvictBytes : SetBytes(value)
           \/ ReadShape
        /\ UNCHANGED benchVars
        /\ script.at = "calling" /\ focus.at \in Called
    BY <1>2 DEF AppCalls, Called
  <2>2. mgr["outer"].at \in At_Rest /\ mgr["inner"].at \in At_Rest
    BY <2>1 DEF OuterTurn, InnerTurn
  <2>3. evict \in Configs /\ host \in Host
    BY DEF FilesInv, FilesTyped
  <2>4. evict' \in Configs /\ UNCHANGED <<host, disk, mgr>>
    <3>1. CASE \E dtype \in Dtype : SetDtype(dtype)
      <4>1. PICK dtype \in Dtype : SetDtype(dtype)
        BY <3>1
      <4> QED BY <2>3, <4>1 DEF SetDtype, Configs
    <3>2. CASE \E value \in EvictBytes : SetBytes(value)
      <4>1. PICK value \in EvictBytes : SetBytes(value)
        BY <3>2
      <4>2. value \in Nat /\ value >= 8
        BY ApplicationAssumption
      <4> QED BY <2>3, <4>1, <4>2 DEF SetBytes, Configs
    <3>3. CASE ReadShape
      BY <2>3, <3>3, ConfigRead DEF ReadShape
    <3> QED BY <2>1, <3>1, <3>2, <3>3
  <2>5. Configures
    BY <2>2, <2>4 DEF Configures, Level
  <2> QED BY <2>1, <2>4, <2>5 DEF FilesMove
<1> QED BY <1>1, <1>2

\* Every step leaves the machine and the program what they are, and moves the files, if
\* at all, as FilesMove says.
LEMMA FilesAlways ==
  ASSUME FilesInv, ScriptInv, OuterTurn, InnerTurn, Next
  PROVE  FilesMove /\ UNCHANGED host /\ script'.program = script.program
<1>1. "outer" \in Level /\ "inner" \in Level
  BY DEF Level
<1>2. DOMAIN script = {"program", "round", "job", "saved", "failed", "zero", "plan", "at"}
  BY DEF ScriptInv
<1>3. ASSUME ScriptStep
      PROVE  FilesMove /\ UNCHANGED host /\ script'.program = script.program
  <2>1. CASE PlanRound
    <3>1. CASE script' = [script EXCEPT !.at = "raised"] /\ UNCHANGED fileVars
      BY <1>2, <2>1, <3>1 DEF FilesMove, fileVars
    <3>2. CASE ~(script' = [script EXCEPT !.at = "raised"] /\ UNCHANGED fileVars)
      BY <1>1, <1>2, <2>1, <3>2, PlanEnters DEF FilesMove, EnterData
    <3> QED BY <3>1, <3>2
  <2>2. CASE AskFocus
    <3>1. script'.program = script.program
      BY <1>2, <2>2 DEF AskFocus
    <3> QED BY <1>1, <2>2, <3>1, ArgsAsked, CallMovesFiles DEF FilesMove
  <2>3. CASE AppCalls
    <3>1. script'.program = script.program
      BY <1>2, <2>3 DEF AppCalls
    <3> QED BY <2>3, <3>1, AppMovesFiles
  <2>4. CASE LeaveData
    BY <1>1, <1>2, <2>4 DEF LeaveData, FilesMove, ExitData
  <2>5. CASE DataMissing \/ DataReady \/ RunJob \/ JobEnds
    BY <1>2, <2>5 DEF DataMissing, DataReady, RunJob, JobEnds, FilesMove, fileVars
  <2>6. CASE SaveRows \/ NextRound \/ RoundsEnd \/ AppBenchmarks \/ AppEnds \/ Ask
    BY <1>2, <2>6 DEF SaveRows, NextRound, RoundsEnd, AppBenchmarks, AppEnds, Ask, FilesMove,
                      fileVars
  <2> QED BY <1>3, <2>1, <2>2, <2>3, <2>4, <2>5, <2>6 DEF ScriptStep
<1>4. CASE /\ UNCHANGED scriptVars
           /\ \E l \in Level : CreateFile(l) \/ CreateRaises(l) \/ RemoveFile(l)
  BY <1>4, ZenonT(60) DEF FilesMove, CreateFile, CreateRaises, RemoveFile, scriptVars
<1>5. CASE FocusStep /\ UNCHANGED scriptVars
  <2>1. CASE MeasureFirst \/ MeasureSecond \/ FocusWithoutData \/ FocusReturns
    BY <1>5, <2>1 DEF MeasureFirst, MeasureSecond, FocusWithoutData, FocusReturns, Measure,
       FilesMove,
                      fileVars, scriptVars
  <2>2. CASE Decide \/ FocusFails
    BY <1>1, <1>5, <2>2 DEF Decide, FocusFails, FilesMove, ExitData, scriptVars
  <2> QED BY <1>5, <2>1, <2>2 DEF FocusStep
<1>6. CASE UNCHANGED fileVars /\ UNCHANGED scriptVars
  BY <1>6 DEF FilesMove, fileVars, scriptVars
<1> QED BY <1>3, <1>4, <1>5, <1>6, StepKinds

\* The rows of a context opened for a plan.
LEMMA RowsOfPlan ==
  ASSUME NEW l \in Level, NEW n \in Nat, NEW b \in Int, NEW m \in Int,
         mgr[l].shapes = Shapes(n, b, m)
  PROVE  /\ OwnRows(l) = Rows(n, n, n \div 2, m - (b \div 2))
         /\ n \div 2 \in Nat /\ m - (b \div 2) \in Int
  BY DEF OwnRows, Shapes, Rows

\* Every benchmark is called with what JobArgs allows.
LEMMA OwnJobs ==
  ASSUME NEW l \in Level, NEW n \in Nat, NEW b \in Int, NEW m \in Int,
         mgr[l].shapes = Shapes(n, b, m),
         NEW kind \in BenchKinds, NEW ring \in Rings, NEW c \in Nat \ {0}
  PROVE  Job(kind, ring, b, m, n, c, OwnRows(l), TRUE) \in JobArgs
<1> DEFINE r == Rows(n, n, n \div 2, m - (b \div 2))
<1>1. OwnRows(l) = r
  BY RowsOfPlan
<1>2. r \in [blocks : Nat, fill : Nat, offset : Nat, length : Int] /\ r.length = m - (b \div 2)
  BY RowsOfPlan DEF Rows
<1> HIDE DEF r
<1>3. Job(kind, ring, b, m, n, c, r, TRUE) \in JobArgs
  BY <1>2 DEF Job, JobArgs
<1> QED BY <1>1, <1>3

\* What the executor knows while the context of its data is open.
LEMMA TasksKnown ==
  ASSUME PoolInv, ScriptInv, NEW k \in Futures
  PROVE  /\ pool.noted[k] = Task(pool.todo[k], script.plan.n_runs)
         /\ pool.todo[k] \in Combos /\ pool.noted[k] \in Tasks
         /\ k \in Nat \ {0} /\ k \in DOMAIN pool.state
         /\ script.plan.n_runs \in Nat /\ pool.noted[k].calc_every \in Nat \ {0}
<1>1. /\ pool.noted \in Seq(Tasks) /\ pool.todo \in Seq(Combos)
      /\ Len(pool.noted) <= Len(pool.todo) /\ Len(pool.state) = Len(pool.noted)
      /\ pool.state \in Seq({"pending", "running", "done", "failed"})
  BY DEF PoolInv, PoolTyped, Pools
<1>2. k \in 1 .. Len(pool.noted) /\ k \in 1 .. Len(pool.todo)
  BY <1>1 DEF Futures
<1>3. pool.todo[k] \in Combos /\ pool.noted[k] \in Tasks
  BY <1>1, <1>2, MemberAt
<1>4. pool.noted[k] = Task(pool.todo[k], script.plan.n_runs)
  BY DEF PoolInv
<1>5. script.plan.n_runs \in Nat
  BY DEF ScriptInv, Plans
<1>6. pool.noted[k].calc_every \in Nat \ {0}
  BY <1>3, <1>4 DEF Task, Combos
<1>7. k \in Nat \ {0} /\ k \in DOMAIN pool.state
  BY <1>1, <1>2
<1> QED BY <1>3, <1>4, <1>5, <1>6, <1>7

\* So is the one a task runs.
LEMMA WorkerJobs ==
  ASSUME PoolInv, ScriptInv, OuterTurn, NEW k \in Futures
  PROVE  PreparedJob(pool.noted[k]) \in JobArgs
<1> DEFINE t == pool.noted[k]
           s == mgr["outer"].shapes
<1>1. pool.at # "closed"
  BY DEF PoolInv, Futures, ClosedPool
<1>2. script.at \in InRound /\ script.plan \in Plans
  BY <1>1 DEF PoolInv, ScriptInv, InRound
<1>3. s = Shapes(script.plan.n_runs, script.plan.block_size, script.plan.maxlen)
  BY <1>2 DEF OuterTurn
<1>4. s.data[1] \in Nat /\ s.fill[1] \in Nat /\ s.offset[1] \in Nat /\ s.offset[2] \in Int
  BY <1>2, <1>3 DEF Shapes, Plans
<1>5. t \in Tasks /\ t.calc_every \in Nat \ {0}
  BY TasksKnown
<1> HIDE DEF s, t
<1>6. t.n_runs \div 2 \in Nat /\ t.maxlen - (t.block_size \div 2) \in Int
  BY <1>5 DEF Tasks
<1>7. PreparedRows(t) \in [blocks : Nat, fill : Nat, offset : Nat, length : Int]
  BY <1>4, <1>5, <1>6 DEF PreparedRows, Rows, AtMost, Tasks, s
<1> HIDE DEF t
<1>8. PreparedJob(t) \in JobArgs
  BY <1>5, <1>7 DEF PreparedJob, Job, JobArgs, Tasks, BenchKinds
<1> QED BY <1>8 DEF t

\* So are both of a focus call.
LEMMA FocusJobs ==
  ASSUME FilesInv, FocusInv, InnerTurn, focus.at \in Focus \cup {"generating"}
  PROVE  FocusJob \in JobArgs
<1>1. focus.at \notin Called /\ focus.args \in FocusCalls /\ focus.n_runs \in Nat
  BY DEF FocusInv, Called, Focus
<1>2. ~InvalidFocus(focus.args)
  BY <1>1 DEF FocusInv
<1>3. focus.args.calc_every \in Nat \ {0} /\ focus.args.block_size \in Nat
      /\ focus.args.buffer_maxlen \in Nat
  BY <1>1, <1>2, FocusPlanned DEF FilesInv, FilesTyped
<1>4. mgr["inner"].shapes = Shapes(focus.n_runs, focus.args.block_size, focus.args.buffer_maxlen)
  BY DEF InnerTurn
<1>5. "raw_bench_with_calc" \in BenchKinds /\ "rewinds" \in Rings /\ "inner" \in Level
  BY DEF BenchKinds, Rings, Level
<1> DEFINE b == focus.args.block_size
           m == focus.args.buffer_maxlen
           n == focus.n_runs
           c == focus.args.calc_every
<1>6. b \in Int /\ m \in Int /\ n \in Nat /\ c \in Nat \ {0}
      /\ mgr["inner"].shapes = Shapes(n, b, m)
  BY <1>1, <1>3, <1>4
<1>7. FocusJob = Job("raw_bench_with_calc", "rewinds", b, m, n, c, OwnRows("inner"), TRUE)
  BY DEF FocusJob
<1> HIDE DEF b, m, n, c
<1>8. Job("raw_bench_with_calc", "rewinds", b, m, n, c, OwnRows("inner"), TRUE) \in JobArgs
  BY <1>5, <1>6, OwnJobs
<1> QED BY <1>7, <1>8

\* So is the one of a script.
LEMMA ScriptJobs ==
  ASSUME FilesInv, ScriptInv, OuterTurn, RunJob
  PROVE  \E j \in JobArgs : StartBench("main", j)
<1> DEFINE j == Job(CurrentJob.kind, CurrentJob.ring, script.plan.block_size,
                    script.plan.maxlen, script.plan.n_runs, UtilCalcEvery,
                    OwnRows("outer"), TRUE)
<1>1. StartBench("main", j)
  BY DEF RunJob
<1>2. script.at \in {"jobs", "focusing"} /\ script.job <= Len(CurrentRound.jobs)
  BY DEF RunJob, NextJob, ScriptInv
<1>3. script.round \in DOMAIN Rounds /\ script.job \in Nat \ {0} /\ script.plan \in Plans
      /\ script.at \in InRound
  BY <1>2 DEF ScriptInv, InRound
<1>4. CurrentRound.jobs \in Seq(JobKinds)
  BY <1>3, RoundInHand DEF RoundsOf
<1>5. CurrentJob \in JobKinds
  <2>1. script.job \in 1 .. Len(CurrentRound.jobs)
    BY <1>2, <1>3, <1>4
  <2> QED BY <1>4, <2>1, MemberAt DEF CurrentJob
<1>6. mgr["outer"].shapes
        = Shapes(script.plan.n_runs, script.plan.block_size, script.plan.maxlen)
  BY <1>3 DEF OuterTurn
<1>7. script.plan.n_runs \in Nat /\ script.plan.block_size \in Int /\ script.plan.maxlen \in Int
      /\ CurrentJob.kind \in BenchKinds /\ CurrentJob.ring \in Rings /\ "outer" \in Level
  BY <1>3, <1>5 DEF Plans, JobKinds, Level
<1>8. UtilCalcEvery \in Nat \ {0}
  BY ScriptsAssumption
<1>9. j \in JobArgs
  BY <1>6, <1>7, <1>8, OwnJobs
<1> QED BY <1>1, <1>9

\* Every step moves the benchmark, if at all, as BenchMove says.
LEMMA BenchAlways ==
  ASSUME Inv, Next
  PROVE  BenchMove
<1>1. "main" \in Process /\ "worker" \in Process /\ "returned" \notin Half /\ "raised" \notin Half
  BY DEF Process, Half
<1>2. FilesInv /\ ScriptInv /\ OuterTurn /\ InnerTurn /\ FocusInv /\ BenchTurn /\ PoolInv
  BY DEF Inv
<1>3. ASSUME ScriptStep
      PROVE  BenchMove
  <2>1. CASE RunJob
    BY <1>1, <1>2, <2>1, ScriptJobs DEF BenchMove
  <2>2. CASE AppBenchmarks
    BY <1>1, <2>2, ApplicationAssumption DEF AppBenchmarks, BenchMove
  <2>3. CASE JobEnds
    BY <1>1, <2>3 DEF JobEnds, BenchMove
  <2>4. CASE LeaveData
    <3>1. script.at = "measuring" => bench.at = "raised"
      BY <2>4 DEF LeaveData, ReportRaises
    <3> QED BY <1>1, <2>4, <3>1 DEF LeaveData, BenchMove, benchVars
  <2>5. CASE AskFocus
    BY <1>2, <2>5, ArgsAsked DEF CallFocus, BenchMove
  <2>6. CASE AppCalls
    BY <1>2, <2>6, AppMovesFiles DEF BenchMove
  <2>7. CASE PlanRound \/ DataMissing \/ DataReady \/ SaveRows \/ NextRound
    BY <2>7 DEF PlanRound, DataMissing, DataReady, SaveRows, NextRound, BenchMove, benchVars
  <2>8. CASE RoundsEnd \/ AppEnds \/ Ask
    BY <2>8 DEF RoundsEnd, AppEnds, Ask, BenchMove, benchVars
  <2> QED BY <1>3, <2>1, <2>2, <2>3, <2>4, <2>5, <2>6, <2>7, <2>8 DEF ScriptStep
<1>4. ASSUME FocusStep
      PROVE  BenchMove
  <2>1. CASE MeasureFirst \/ MeasureSecond
    <3>1. focus.at \in Focus \cup {"generating"} /\ StartBench("main", FocusJob)
      BY <2>1 DEF MeasureFirst, MeasureSecond, Measure, Focus
    <3> QED BY <1>1, <1>2, <3>1, FocusJobs DEF BenchMove
  <2>2. CASE Decide \/ FocusFails
    BY <1>1, <2>2 DEF Decide, FocusFails, BenchMove
  <2>3. CASE FocusWithoutData \/ FocusReturns
    BY <2>3 DEF FocusWithoutData, FocusReturns, BenchMove
  <2> QED BY <1>4, <2>1, <2>2, <2>3 DEF FocusStep
<1>5. ASSUME WorkerStep
      PROVE  BenchMove
  <2>1. CASE TakeTask
    BY <1>1, <1>2, <2>1, WorkerJobs DEF TakeTask, BenchMove
  <2>2. CASE TaskEnds
    BY <1>1, <2>2 DEF TaskEnds, BenchEnded, BenchMove
  <2>3. CASE PoolBreaks
    BY <2>3 DEF PoolBreaks, Others, BenchMove
  <2> QED BY <1>5, <2>1, <2>2, <2>3 DEF WorkerStep
<1>6. CASE WorkerDies
  BY <1>2, <1>6 DEF WorkerDies, BenchTurn, BenchMove
<1>7. CASE UNCHANGED benchVars \/ BenchStep \/ RaiseInBench
  BY <1>7 DEF BenchMove
<1> QED BY <1>3, <1>4, <1>5, <1>6, <1>7, StepKinds

-------------------------------------------------------------------------------
(* The script and the turns of the contexts.                               *)

Scripts ==
  [program : ProgramNames, round : Nat \ {0}, job : Nat \ {0}, saved : Nat,
   failed : BOOLEAN, zero : BOOLEAN, plan : Plans,
   at : InRound \cup {"calling", "planning", "done", "raised"}]

\* A script that stays in its round, or leaves all rounds.
LEMMA ScriptStays ==
  ASSUME ScriptInv, UNCHANGED host, script' \in Scripts, script'.program = script.program,
         script'.at \in InRound =>
           /\ script'.round = script.round /\ script.round \in DOMAIN Rounds
           /\ script'.plan = DetermineNumRuns(CurrentRound.plan) /\ script'.plan # Refused,
         script'.at = "focusing" => script'.job <= Len(CurrentRound.jobs),
         script'.at = "calling" => script.at = "calling",
         script.program = "application" => script'.at \in {"calling", "done"},
         answer' = answer \/ answer' \in Questions
  PROVE  ScriptInv'
<1>1. Rounds' = Rounds
  BY RoundsSame
<1>2. script'.at \in InRound => CurrentRound' = CurrentRound
  BY <1>1 DEF CurrentRound
<1>3. script'.at = "focusing" => script'.at \in InRound
  BY DEF InRound
<1> QED BY <1>1, <1>2, <1>3 DEF ScriptInv, Scripts

\* Each step of a program keeps to its rounds and plans.
LEMMA ScriptKept ==
  ASSUME FilesInv, ScriptInv, OuterTurn, InnerTurn, Next
  PROVE  ScriptInv'
<1>1. UNCHANGED host /\ script'.program = script.program
  BY FilesAlways
<1>2. script \in Scripts
  BY DEF ScriptInv, Scripts
<1>3. CASE UNCHANGED scriptVars
  <2>1. script' = script /\ answer' = answer
    BY <1>3 DEF scriptVars
  <2> QED BY <1>1, <1>2, <2>1, ScriptStays DEF ScriptInv
<1>4. ASSUME ScriptStep
      PROVE  ScriptInv'
  <2>1. CASE PlanRound
    <3>1. script.program # "application" /\ answer' = answer
      BY <2>1 DEF PlanRound, ScriptInv
    <3>2. CASE script' = [script EXCEPT !.at = "raised"] /\ UNCHANGED fileVars
      <4>1. script' \in Scripts /\ script'.at = "raised"
        BY <1>2, <3>2 DEF Scripts
      <4> QED BY <1>1, <3>1, <4>1, ScriptStays DEF InRound
    <3>3. CASE ~(script' = [script EXCEPT !.at = "raised"] /\ UNCHANGED fileVars)
      <4> DEFINE plan == DetermineNumRuns(CurrentRound.plan)
      <4>1. script' = [script EXCEPT !.at = "generating", !.plan = plan, !.job = 1]
            /\ plan # Refused /\ plan \in Plans /\ script.round \in DOMAIN Rounds
        BY <2>1, <3>3, PlanEnters
      <4> HIDE DEF plan
      <4>2. /\ script' \in Scripts /\ script'.at = "generating" /\ script'.plan = plan
            /\ script'.round = script.round
        <5>1. "generating" \in InRound /\ 1 \in Nat \ {0}
          BY DEF InRound
        <5> QED BY <1>2, <4>1, <5>1 DEF Scripts
      <4> QED BY <1>1, <3>1, <4>1, <4>2, ScriptStays DEF InRound, plan
    <3> QED BY <3>2, <3>3
  <2>2. ASSUME script.at \in InRound, answer' = answer, script' \in Scripts,
               script'.plan = script.plan, script'.at # "calling",
               script'.at \in InRound => script'.round = script.round,
               script'.at = "focusing" => script'.job <= Len(CurrentRound.jobs)
        PROVE  ScriptInv'
    <3>1. /\ script.program # "application"
          /\ script.round \in DOMAIN Rounds
          /\ script.plan = DetermineNumRuns(CurrentRound.plan) /\ script.plan # Refused
      BY <2>2 DEF ScriptInv, InRound
    <3> QED BY <1>1, <2>2, <3>1, ScriptStays
  <2>3. CASE DataMissing
    <3>1. script' = [script EXCEPT !.at = "raised"] /\ answer' = answer /\ script.at \in InRound
      BY <2>3 DEF DataMissing, InRound
    <3>2. script' \in Scripts /\ script'.at = "raised" /\ script'.round = script.round
          /\ script'.plan = script.plan /\ script'.job = script.job
      BY <1>2, <3>1 DEF Scripts, InRound
    <3> QED BY <2>2, <3>1, <3>2 DEF InRound
  <2>4. CASE DataReady
    <3>1. PICK at \in {"sweeping", "jobs"} : script' = [script EXCEPT !.at = at]
      BY <2>4 DEF DataReady
    <3>2. answer' = answer /\ script.at \in InRound
      BY <2>4 DEF DataReady, InRound
    <3>3. script' \in Scripts /\ script'.at = at /\ script'.round = script.round
          /\ script'.plan = script.plan
      BY <1>2, <3>1 DEF Scripts, InRound
    <3> QED BY <2>2, <3>1, <3>2, <3>3
  <2>5. CASE AskFocus
    <3>1. script' = [script EXCEPT !.at = "focusing"] /\ answer' = answer /\ script.at \in InRound
          /\ script.job <= Len(CurrentRound.jobs)
      BY <2>5, ArgsAsked DEF AskFocus, InRound
    <3>2. script' \in Scripts /\ script'.at = "focusing" /\ script'.round = script.round
          /\ script'.plan = script.plan /\ script'.job = script.job
      BY <1>2, <3>1 DEF Scripts, InRound
    <3> QED BY <2>2, <3>1, <3>2 DEF InRound
  <2>6. CASE RunJob
    <3>1. script' = [script EXCEPT !.at = "measuring"] /\ answer' = answer /\ script.at \in InRound
      BY <2>6 DEF RunJob, NextJob, InRound
    <3>2. script' \in Scripts /\ script'.at = "measuring" /\ script'.round = script.round
          /\ script'.plan = script.plan /\ script'.job = script.job
      BY <1>2, <3>1 DEF Scripts, InRound
    <3> QED BY <2>2, <3>1, <3>2 DEF InRound
  <2>7. CASE JobEnds
    <3> DEFINE zero == script.zero \/ bench.time = 0
    <3>1. script' = [script EXCEPT !.at = "jobs", !.job = @ + 1, !.zero = zero]
          /\ answer' = answer /\ script.at \in InRound
      BY <2>7 DEF JobEnds, InRound
    <3>2. script.job + 1 \in Nat \ {0} /\ zero \in BOOLEAN
      BY <1>2 DEF Scripts
    <3> HIDE DEF zero
    <3>3. script' \in Scripts /\ script'.at = "jobs" /\ script'.round = script.round
          /\ script'.plan = script.plan
      BY <1>2, <3>1, <3>2 DEF Scripts, InRound
    <3> QED BY <2>2, <3>1, <3>3
  <2>8. CASE LeaveData
    <3> DEFINE failed == script.at \in {"measuring", "sweeping"} \/ ReportRaises
    <3>1. failed \in BOOLEAN
      BY DEF ReportRaises
    <3>2. script' = [script EXCEPT !.at = "leaving", !.failed = failed]
          /\ answer' = answer /\ script.at \in InRound
      BY <2>8 DEF LeaveData, InRound, ReportRaises
    <3> HIDE DEF failed
    <3>3. script' \in Scripts /\ script'.at = "leaving" /\ script'.round = script.round
          /\ script'.plan = script.plan
      BY <1>2, <3>1, <3>2 DEF Scripts, InRound
    <3> QED BY <2>2, <3>2, <3>3
  <2>9. CASE SaveRows
    <3>1. CASE script' = script
      <4>1. script.at \in InRound /\ answer' = answer
        BY <2>9 DEF SaveRows, InRound
      <4>2. script.at = "sweeping"
        BY <2>9 DEF SaveRows
      <4> QED BY <1>2, <2>2, <3>1, <4>1, <4>2
    <3>2. CASE script' # script
      <4>1. script' = [script EXCEPT !.at = "saved", !.saved = @ + 1] /\ answer' = answer
            /\ script.at \in InRound
        BY <2>9, <3>2 DEF SaveRows, InRound
      <4>2. script' \in Scripts /\ script'.at = "saved" /\ script'.round = script.round
            /\ script'.plan = script.plan
        <5> DEFINE n == script.saved + 1
        <5>1. n \in Nat /\ "saved" \in InRound
          BY <1>2 DEF Scripts, InRound
        <5>2. script' = [script EXCEPT !.at = "saved", !.saved = n]
          BY <4>1
        <5> HIDE DEF n
        <5> QED BY <1>2, <5>1, <5>2 DEF Scripts
      <4> QED BY <2>2, <4>1, <4>2
    <3> QED BY <3>1, <3>2
  <2>10. CASE NextRound
    <3>1. PICK at \in {"raised", "planning"} :
            script' = [script EXCEPT !.round = @ + 1, !.at = at]
      BY <2>10 DEF NextRound
    <3>2. answer' = answer /\ script.at \in InRound
      BY <2>10 DEF NextRound, InRound
    <3>3. script' \in Scripts /\ script'.at = at /\ script'.plan = script.plan
      <4> DEFINE n == script.round + 1
      <4>1. n \in Nat \ {0} /\ at \in InRound \cup {"calling", "planning", "done", "raised"}
        BY <1>2 DEF Scripts
      <4>2. script' = [script EXCEPT !.round = n, !.at = at]
        BY <3>1
      <4> HIDE DEF n
      <4> QED BY <1>2, <4>1, <4>2 DEF Scripts
    <3> QED BY <2>2, <3>1, <3>2, <3>3 DEF InRound
  <2>11. CASE RoundsEnd \/ AppEnds \/ Ask
    <3>1. script' = [script EXCEPT !.at = "done"] /\ (answer' = answer \/ answer' \in Questions)
      BY <2>11 DEF RoundsEnd, AppEnds, Ask
    <3>2. script' \in Scripts /\ script'.at = "done"
      BY <1>2, <3>1 DEF Scripts
    <3> QED BY <1>1, <3>1, <3>2, ScriptStays DEF InRound
  <2>12. CASE AppCalls \/ AppBenchmarks
    <3>1. PICK job \in Nat \ {0} : script' = [script EXCEPT !.job = job]
      <4>1. script.job + 1 \in Nat \ {0} /\ MaxCalls + 1 \in Nat \ {0}
        BY <1>2, ApplicationAssumption DEF Scripts
      <4> QED BY <2>12, <4>1 DEF AppCalls, AppBenchmarks
    <3>2. answer' = answer /\ script.at = "calling"
      BY <2>12 DEF AppCalls, AppBenchmarks
    <3>3. script' \in Scripts /\ script'.at = "calling"
      BY <1>2, <3>1, <3>2 DEF Scripts
    <3> QED BY <1>1, <3>2, <3>3, ScriptStays DEF InRound
  <2> QED BY <1>4, <2>1, <2>3, <2>4, <2>5, <2>6, <2>7, <2>8, <2>9, <2>10, <2>11, <2>12
             DEF ScriptStep
<1> QED BY <1>3, <1>4 DEF Next, MainStep, WorkersStep, Failure, BenchGoesOn, scriptVars

\* What the operations on a context do to it, and to no other.
LEMMA ContextSteps ==
  ASSUME FilesInv, NEW l \in Level
  PROVE  /\ CreateFile(l) =>
              /\ mgr[l].at = "generating" /\ mgr'[l].at \in {"generating", "open"}
              /\ mgr'[l].raised = mgr[l].raised /\ mgr'[l].shapes = mgr[l].shapes
              /\ \A k \in Level \ {l} : mgr'[k] = mgr[k]
         /\ CreateRaises(l) =>
              /\ mgr[l].at = "generating" /\ mgr'[l].at = "left"
              /\ mgr'[l].raised /\ mgr'[l].shapes = mgr[l].shapes
              /\ \A k \in Level \ {l} : mgr'[k] = mgr[k]
         /\ ExitData(l) =>
              /\ mgr[l].at = "open" /\ mgr'[l].at = "removing"
              /\ mgr'[l].shapes = mgr[l].shapes
              /\ \A k \in Level \ {l} : mgr'[k] = mgr[k]
         /\ RemoveFile(l) =>
              /\ mgr[l].at = "removing" /\ mgr'[l].at \in {"removing", "left"}
              /\ mgr'[l].shapes = mgr[l].shapes
              /\ \A k \in Level \ {l} : mgr'[k] = mgr[k]
<1>1. mgr \in [Level -> Managers]
  BY DEF FilesInv, FilesTyped
<1> DEFINE m == mgr[l]
<1>2. m \in Managers
  BY <1>1
<1>3. ASSUME CreateFile(l)
      PROVE  /\ m.at = "generating" /\ mgr'[l].at \in {"generating", "open"}
             /\ mgr'[l].raised = m.raised /\ mgr'[l].shapes = m.shapes
             /\ \A k \in Level \ {l} : mgr'[k] = mgr[k]
  <2>1. m.at = "generating" /\ mgr' = [mgr EXCEPT ![l] = Created(m, InHand(l))]
    BY <1>3 DEF CreateFile
  <2>2. mgr'[l] = Created(m, InHand(l)) /\ \A k \in Level \ {l} : mgr'[k] = mgr[k]
    BY <1>1, <2>1
  <2> HIDE DEF m
  <2>3. \A k : /\ Created(m, k).at \in {"generating", "open"}
               /\ Created(m, k).raised = m.raised /\ Created(m, k).shapes = m.shapes
    BY <1>2, <2>1 DEF Created, Managers
  <2> QED BY <2>1, <2>2, <2>3
<1>4. ASSUME CreateRaises(l)
      PROVE  /\ m.at = "generating" /\ mgr'[l].at = "left"
             /\ mgr'[l].raised /\ mgr'[l].shapes = m.shapes
             /\ \A k \in Level \ {l} : mgr'[k] = mgr[k]
  <2>1. mgr' = [mgr EXCEPT ![l] = [m EXCEPT !.at = "left", !.raised = TRUE, !.open = {}]]
    BY <1>1, <1>4 DEF CreateRaises
  <2> QED BY <1>1, <1>2, <1>4, <2>1 DEF CreateRaises, Managers
<1>5. ASSUME ExitData(l)
      PROVE  /\ m.at = "open" /\ mgr'[l].at = "removing" /\ mgr'[l].shapes = m.shapes
             /\ \A k \in Level \ {l} : mgr'[k] = mgr[k]
  <2>1. mgr' = [mgr EXCEPT ![l] = [m EXCEPT !.at = "removing", !.open = {}, !.next = 1]]
    BY <1>1, <1>5 DEF ExitData
  <2> QED BY <1>1, <1>2, <1>5, <2>1 DEF ExitData, Managers
<1>6. ASSUME RemoveFile(l)
      PROVE  /\ m.at = "removing" /\ mgr'[l].at \in {"removing", "left"}
             /\ mgr'[l].shapes = m.shapes
             /\ \A k \in Level \ {l} : mgr'[k] = mgr[k]
  <2> DEFINE k == InHand(l)
  <2>1. m.at = "removing"
    BY <1>6 DEF RemoveFile
  <2>2. PICK removed \in BOOLEAN :
          mgr' = [mgr EXCEPT ![l].kept = IF removed THEN @ ELSE @ \cup {k},
                             ![l].at = IF k = "evict" THEN "left" ELSE @,
                             ![l].next = IF k = "evict" THEN 1 ELSE @ + 1]
    BY <1>6 DEF RemoveFile
  <2> DEFINE new == [m EXCEPT !.kept = IF removed THEN @ ELSE @ \cup {k},
                              !.at = IF k = "evict" THEN "left" ELSE @,
                              !.next = IF k = "evict" THEN 1 ELSE @ + 1]
  <2>3. mgr' = [mgr EXCEPT ![l] = new]
    BY <1>1, <2>2
  <2>4. new.at \in {"removing", "left"} /\ new.shapes = m.shapes
    BY <1>2, <2>1 DEF Managers
  <2> HIDE DEF new
  <2> QED BY <1>1, <2>1, <2>3, <2>4
<1> QED BY <1>3, <1>4, <1>5, <1>6

\* A context that is entered generates, or raised before it could.
LEMMA ContextEntered ==
  ASSUME FilesInv, NEW l \in Level, NEW dtype, NEW n \in Nat, NEW b, NEW c, NEW wanted,
         EnterData(l, dtype, n, b, c, wanted)
  PROVE  /\ mgr'[l].at \in {"generating", "left"}
         /\ mgr'[l].at = "generating" \/ mgr'[l].raised
         /\ mgr'[l].shapes = Shapes(n, b, c)
         /\ \A k \in Level \ {l} : mgr'[k] = mgr[k]
<1>1. mgr \in [Level -> Managers]
  BY DEF FilesInv, FilesTyped
<1> DEFINE few == n <= 1
           new == [Closed EXCEPT !.at = IF few THEN "left" ELSE "generating",
                                 !.raised = few, !.wanted = wanted,
                                 !.item_size = ItemSize[dtype], !.shapes = Shapes(n, b, c)]
<1>2. mgr' = [mgr EXCEPT ![l] = new] /\ few \in BOOLEAN
  BY DEF EnterData
<1> HIDE DEF few
<1>3. /\ new.at = (IF few THEN "left" ELSE "generating") /\ new.raised = few
      /\ new.shapes = Shapes(n, b, c)
  BY DEF Closed
<1> QED BY <1>1, <1>2, <1>3

\* The outer context is open for as long as the script relies on it.
LEMMA OuterKept ==
  ASSUME Inv, Next
  PROVE  OuterTurn'
<1>1. FilesInv /\ ScriptInv /\ OuterTurn /\ InnerTurn /\ FocusInv /\ script \in Scripts
  BY DEF Inv, ScriptInv, Scripts
<1>2. script'.program = script.program
  BY <1>1, FilesAlways
<1>3. "outer" \in Level /\ "inner" \in Level /\ "outer" # "inner"
  BY DEF Level
<1> DEFINE m == mgr["outer"]
\* A step that leaves the outer context alone.
<1>4. ASSUME mgr'["outer"] = m, script'.plan = script.plan \/ script'.at \notin InRound,
             script'.at \in InRound => script.at \in InRound,
             \/ script'.at = script.at
             \/ m.at \in At_Rest /\ script'.at \in {"calling", "planning", "done", "raised"}
             \/ m.at = "open" /\ script'.at \in {"jobs", "focusing", "measuring", "sweeping", "saved"}
      PROVE  OuterTurn'
  <2>1. script.program = "application" => m.at = "closed"
    BY <1>1 DEF OuterTurn
  <2>2. script'.at \in InRound =>
          m.shapes = Shapes(script'.plan.n_runs, script'.plan.block_size, script'.plan.maxlen)
    BY <1>1, <1>4 DEF OuterTurn
  <2>3. CASE script'.at = script.at
    BY <1>1, <1>2, <1>4, <2>1, <2>2, <2>3 DEF OuterTurn
  <2>4. CASE script'.at # script.at
    BY <1>2, <1>4, <2>1, <2>2, <2>4 DEF OuterTurn
  <2> QED BY <2>3, <2>4
<1>5. ASSUME UNCHANGED scriptVars, mgr'["outer"] = m
      PROVE  OuterTurn'
  BY <1>4, <1>5 DEF scriptVars
<1>6. ASSUME NEW l \in Level, CreateFile(l) \/ CreateRaises(l) \/ RemoveFile(l), UNCHANGED scriptVars
      PROVE  OuterTurn'
  <2>1. CASE l = "inner"
    BY <1>1, <1>3, <1>5, <1>6, <2>1, ContextSteps
  <2>2. CASE l = "outer"
    <3>1. script' = script
      BY <1>6 DEF scriptVars
    <3>2. CASE CreateFile(l)
      <4>1. /\ m.at = "generating" /\ mgr'["outer"].at \in {"generating", "open"}
            /\ mgr'["outer"].raised = m.raised /\ mgr'["outer"].shapes = m.shapes
        BY <1>1, <2>2, <3>2, ContextSteps
      <4>2. script.at = "generating" /\ script.program # "application"
        BY <1>1, <4>1 DEF OuterTurn, At_Rest, Scripts, InRound
      <4> QED BY <1>1, <3>1, <4>1, <4>2 DEF OuterTurn
    <3>3. CASE CreateRaises(l)
      <4>1. /\ m.at = "generating" /\ mgr'["outer"].at = "left"
            /\ mgr'["outer"].raised /\ mgr'["outer"].shapes = m.shapes
        BY <1>1, <2>2, <3>3, ContextSteps
      <4>2. script.at = "generating" /\ script.program # "application"
        BY <1>1, <4>1 DEF OuterTurn, At_Rest, Scripts, InRound
      <4> QED BY <1>1, <3>1, <4>1, <4>2 DEF OuterTurn
    <3>4. CASE RemoveFile(l)
      <4>1. /\ m.at = "removing" /\ mgr'["outer"].at \in {"removing", "left"}
            /\ mgr'["outer"].shapes = m.shapes
        BY <1>1, <2>2, <3>4, ContextSteps
      <4>2. m.raised => m.at = "left"
        BY <1>1, <1>3 DEF FilesInv, Progress
      <4>3. script.at = "leaving" /\ script.program # "application"
        BY <1>1, <4>1, <4>2 DEF OuterTurn, At_Rest, Scripts, InRound
      <4> QED BY <1>1, <3>1, <4>1, <4>3 DEF OuterTurn
    <3> QED BY <1>6, <3>2, <3>3, <3>4
  <2> QED BY <2>1, <2>2 DEF Level
<1>7. ASSUME FocusStep, UNCHANGED scriptVars
      PROVE  OuterTurn'
  <2>1. UNCHANGED fileVars \/ ExitData("inner")
    BY <1>7 DEF FocusStep, MeasureFirst, MeasureSecond, Measure, Decide, FocusFails,
                FocusWithoutData, FocusReturns, fileVars
  <2>2. mgr'["outer"] = m
    BY <1>1, <1>3, <2>1, ContextSteps DEF fileVars
  <2> QED BY <1>5, <1>7, <2>2
<1>8. ASSUME ScriptStep
      PROVE  OuterTurn'
  <2>1. CASE PlanRound
    <3>1. CASE script' = [script EXCEPT !.at = "raised"] /\ UNCHANGED fileVars
      <4>1. script'.at = "raised" /\ m.at \in At_Rest /\ mgr'["outer"] = m
        BY <1>1, <2>1, <3>1 DEF PlanRound, OuterTurn, Scripts, fileVars
      <4> QED BY <1>4, <4>1 DEF InRound
    <3>2. CASE ~(script' = [script EXCEPT !.at = "raised"] /\ UNCHANGED fileVars)
      <4> DEFINE plan == DetermineNumRuns(CurrentRound.plan)
      <4>1. /\ EnterData("outer", CurrentRound.dtype, plan.n_runs, plan.block_size,
                         plan.maxlen, CurrentRound.wanted)
            /\ script' = [script EXCEPT !.at = "generating", !.plan = plan, !.job = 1]
            /\ plan \in Plans
        BY <1>1, <2>1, <3>2, PlanEnters
      <4> HIDE DEF plan
      <4>2. script'.at = "generating" /\ script'.plan = plan
        BY <1>1, <4>1 DEF Scripts
      <4>3. script.program # "application"
        BY <1>1, <2>1 DEF PlanRound, ScriptInv
      <4>4. /\ mgr'["outer"].at = "generating" \/ mgr'["outer"].raised
            /\ mgr'["outer"].shapes = Shapes(plan.n_runs, plan.block_size, plan.maxlen)
        BY <1>1, <1>3, <4>1, ContextEntered DEF Plans
      <4> QED BY <1>2, <4>2, <4>3, <4>4 DEF OuterTurn
    <3> QED BY <3>1, <3>2
  <2>2. CASE DataMissing
    <3>1. m.at = "left" /\ mgr'["outer"] = m /\ script' = [script EXCEPT !.at = "raised"]
      BY <1>1, <1>3, <2>2 DEF DataMissing, FilesInv, Progress, fileVars
    <3>2. script'.at = "raised"
      BY <1>1, <3>1 DEF Scripts
    <3> QED BY <1>4, <3>1, <3>2 DEF At_Rest, InRound
  <2>3. CASE DataReady
    <3>1. m.at = "open" /\ mgr'["outer"] = m /\ script.at = "generating"
          /\ \E at \in {"sweeping", "jobs"} : script' = [script EXCEPT !.at = at]
      BY <2>3 DEF DataReady, fileVars
    <3>2. script'.at \in {"sweeping", "jobs"} /\ script'.plan = script.plan
      BY <1>1, <3>1 DEF Scripts
    <3> QED BY <1>4, <3>1, <3>2 DEF InRound
  <2>4. CASE AskFocus
    <3>1. script.at = "jobs" /\ mgr'["outer"] = m /\ script' = [script EXCEPT !.at = "focusing"]
      BY <1>1, <2>4, ArgsAsked, CallMovesFiles DEF AskFocus
    <3>2. m.at = "open" /\ script'.at = "focusing" /\ script'.plan = script.plan
      BY <1>1, <3>1 DEF OuterTurn, Scripts
    <3> QED BY <1>4, <3>1, <3>2 DEF InRound
  <2>5. CASE RunJob
    <3>1. script.at \in {"jobs", "focusing"} /\ mgr'["outer"] = m
          /\ script' = [script EXCEPT !.at = "measuring"]
      BY <2>5 DEF RunJob, NextJob, fileVars
    <3>2. m.at = "open" /\ script'.at = "measuring" /\ script'.plan = script.plan
      BY <1>1, <3>1 DEF OuterTurn, Scripts
    <3> QED BY <1>4, <3>1, <3>2 DEF InRound
  <2>6. CASE JobEnds
    <3>1. script.at = "measuring" /\ mgr'["outer"] = m
          /\ script'.at = "jobs" /\ script'.plan = script.plan
      BY <1>1, <2>6 DEF JobEnds, fileVars, Scripts
    <3>2. m.at = "open"
      BY <1>1, <3>1 DEF OuterTurn
    <3> QED BY <1>4, <3>1, <3>2 DEF InRound
  <2>7. CASE LeaveData
    <3>1. /\ script.at \in {"measuring", "jobs", "sweeping", "saved"}
          /\ script'.at = "leaving" /\ script'.plan = script.plan /\ ExitData("outer")
      BY <1>1, <2>7 DEF LeaveData, ReportRaises, Scripts
    <3>2. m.at = "open" /\ mgr'["outer"].at = "removing" /\ mgr'["outer"].shapes = m.shapes
      BY <1>1, <1>3, <3>1, ContextSteps
    <3>3. script.program # "application"
      BY <1>1, <3>1 DEF ScriptInv
    <3> QED BY <1>1, <1>2, <3>1, <3>2, <3>3 DEF OuterTurn, InRound
  <2>8. CASE SaveRows
    <3>1. script.at = "sweeping" /\ mgr'["outer"] = m
          /\ script'.at \in {"sweeping", "saved"} /\ script'.plan = script.plan
      BY <1>1, <2>8 DEF SaveRows, fileVars, Scripts
    <3>2. m.at = "open"
      BY <1>1, <3>1 DEF OuterTurn
    <3> QED BY <1>4, <3>1, <3>2 DEF InRound
  <2>9. CASE NextRound
    <3>1. m.at = "left" /\ mgr'["outer"] = m /\ script'.at \in {"raised", "planning"}
      BY <1>1, <2>9 DEF NextRound, fileVars, Scripts
    <3> QED BY <1>4, <3>1 DEF InRound, At_Rest
  <2>10. CASE RoundsEnd \/ AppEnds \/ Ask
    <3>1. script.at \in {"planning", "calling"} /\ mgr'["outer"] = m /\ script'.at = "done"
      BY <1>1, <2>10 DEF RoundsEnd, AppEnds, Ask, fileVars, Scripts
    <3>2. m.at \in At_Rest
      BY <1>1, <3>1 DEF OuterTurn
    <3> QED BY <1>4, <3>1, <3>2 DEF InRound
  <2>11. CASE AppCalls \/ AppBenchmarks
    <3>1. script'.at = script.at /\ script'.plan = script.plan
      BY <1>1, <2>11 DEF AppCalls, AppBenchmarks, Scripts
    <3>2. mgr'["outer"] = m
      BY <1>1, <2>11, AppMovesFiles DEF AppBenchmarks, fileVars
    <3> QED BY <1>4, <3>1, <3>2
  <2> QED BY <1>8, <2>1, <2>2, <2>3, <2>4, <2>5, <2>6, <2>7, <2>8, <2>9, <2>10, <2>11
             DEF ScriptStep
<1>9. ASSUME UNCHANGED scriptVars, UNCHANGED fileVars
      PROVE  OuterTurn'
  BY <1>5, <1>9 DEF fileVars
<1> QED BY <1>6, <1>7, <1>8, <1>9, StepKinds

Focuses ==
  [at : Called \cup Focus \cup {"generating", "leaving"}, args : FocusCalls,
   n_runs : Nat, times : [Focus -> Times \cup {Absent}], failed : BOOLEAN,
   result : Focus \cup {"none"}]

\* A call is refused, falls back, or goes on to generate its data.
LEMMA CallOutcomes ==
  ASSUME FilesInv, FocusInv, NEW a \in FocusCalls, CallFocus(a)
  PROVE  /\ focus.at \in Called /\ focus' \in Focuses /\ focus'.args = a /\ ~focus'.failed
         /\ \/ focus'.at = "raised" /\ UNCHANGED fileVars
            \/ /\ focus'.at = "returned" /\ UNCHANGED fileVars
               /\ focus'.n_runs < a.calc_every
               /\ focus'.result = a.fallback /\ a.fallback \in Focus
            \/ /\ focus'.at = "generating" /\ ~InvalidFocus(a)
               /\ focus'.n_runs = FocusRuns(a) /\ ~(focus'.n_runs < a.calc_every)
               /\ EnterData("inner", a.dtype, focus'.n_runs, a.block_size, a.buffer_maxlen, Kinds)
<1> DEFINE new == [focus EXCEPT !.args = a, !.n_runs = 0, !.failed = FALSE,
                                !.times = [f \in Focus |-> Absent], !.result = "none"]
           n == FocusRuns(a)
<1>1. focus.at \in Called
  BY DEF CallFocus, Called
<1>2. focus \in Focuses
  BY DEF FocusInv, Focuses
<1>3. new \in Focuses /\ new.args = a /\ new.failed = FALSE /\ new.n_runs = 0
  BY <1>2 DEF Focuses
<1>4. CASE InvalidFocus(a)
  <2>1. focus' = [new EXCEPT !.at = "raised"] /\ UNCHANGED fileVars
    BY <1>4 DEF CallFocus
  <2> HIDE DEF new
  <2>2. focus' \in Focuses /\ focus'.args = a /\ ~focus'.failed /\ focus'.at = "raised"
    BY <1>3, <2>1 DEF Focuses, Called
  <2> QED BY <1>1, <2>1, <2>2
<1>5. CASE ~InvalidFocus(a)
  <2>1. n \in Nat /\ a.fallback \in Focus
    BY <1>5, FocusPlanned DEF FilesInv, FilesTyped
  <2>2. CASE n < a.calc_every
    <3>1. focus' = [new EXCEPT !.at = "returned", !.n_runs = n, !.result = a.fallback]
          /\ UNCHANGED fileVars
      BY <1>5, <2>2 DEF CallFocus
    <3> HIDE DEF new, n
    <3>2. /\ focus' \in Focuses /\ focus'.args = a /\ ~focus'.failed /\ focus'.at = "returned"
          /\ focus'.n_runs = n /\ focus'.result = a.fallback
      BY <1>3, <2>1, <3>1 DEF Focuses, Called
    <3> QED BY <1>1, <2>1, <2>2, <3>1, <3>2
  <2>3. CASE ~(n < a.calc_every)
    <3>1. focus' = [new EXCEPT !.at = "generating", !.n_runs = n]
          /\ EnterData("inner", a.dtype, n, a.block_size, a.buffer_maxlen, Kinds)
      BY <1>5, <2>3 DEF CallFocus
    <3> HIDE DEF new, n
    <3>2. /\ focus' \in Focuses /\ focus'.args = a /\ ~focus'.failed /\ focus'.at = "generating"
          /\ focus'.n_runs = n
      BY <1>3, <2>1, <3>1 DEF Focuses
    <3> QED BY <1>1, <1>5, <2>3, <3>1, <3>2 DEF n
  <2> QED BY <2>2, <2>3
<1> QED BY <1>4, <1>5

\* The inner context is open for as long as a focus call relies on it.
LEMMA InnerKept ==
  ASSUME Inv, Next
  PROVE  InnerTurn'
<1>1. /\ FilesInv /\ ScriptInv /\ OuterTurn /\ InnerTurn /\ FocusInv /\ script \in Scripts
      /\ focus \in Focuses
  BY DEF Inv, ScriptInv, Scripts, FocusInv, Focuses
<1>2. "outer" \in Level /\ "inner" \in Level /\ "outer" # "inner"
  BY DEF Level
<1>3. {"generating", "leaving"} \cap Called = {} /\ Focus \cap Called = {}
      /\ "generating" \notin Focus /\ "leaving" \notin Focus
  BY DEF Focus, Called
<1> DEFINE m == mgr["inner"]
\* No call is in progress.
<1>4. ASSUME focus.at \in Called, focus' = focus, mgr'["inner"] = m
      PROVE  InnerTurn'
  BY <1>1, <1>3, <1>4 DEF InnerTurn
<1>5. ASSUME NEW a \in FocusCalls, CallFocus(a), script'.at \in {"focusing", "calling"},
             script'.at = "calling" => script'.job # 1
      PROVE  InnerTurn'
  <2>1. CASE focus'.at \in Called
    <3>1. UNCHANGED fileVars /\ focus.at \in Called
      BY <1>1, <1>3, <1>5, <2>1, CallOutcomes
    <3>2. mgr'["inner"].at \in At_Rest
      BY <1>1, <3>1 DEF InnerTurn, fileVars
    <3> QED BY <1>3, <2>1, <3>2 DEF InnerTurn
  <2>2. CASE focus'.at \notin Called
    <3>1. /\ focus'.at = "generating" /\ focus'.args = a /\ focus'.n_runs \in Nat
          /\ EnterData("inner", a.dtype, focus'.n_runs, a.block_size, a.buffer_maxlen, Kinds)
      BY <1>1, <1>5, <2>2, CallOutcomes DEF Called, Focuses
    <3>2. /\ mgr'["inner"].at = "generating" \/ mgr'["inner"].raised
          /\ mgr'["inner"].shapes = Shapes(focus'.n_runs, a.block_size, a.buffer_maxlen)
      BY <1>1, <1>2, <3>1, ContextEntered
    <3> QED BY <1>3, <1>5, <2>2, <3>1, <3>2 DEF InnerTurn
  <2> QED BY <2>1, <2>2
<1>6. ASSUME NEW l \in Level, CreateFile(l) \/ CreateRaises(l) \/ RemoveFile(l),
             UNCHANGED <<focus, scriptVars>>
      PROVE  InnerTurn'
  <2>1. script' = script /\ focus' = focus
    BY <1>6 DEF scriptVars
  <2>2. CASE l = "outer"
    <3>1. mgr'["inner"] = m
      BY <1>1, <1>2, <1>6, <2>2, ContextSteps
    <3> QED BY <1>1, <2>1, <3>1 DEF InnerTurn
  <2>3. CASE l = "inner"
    <3>1. CASE CreateFile(l)
      <4>1. /\ m.at = "generating" /\ mgr'["inner"].at \in {"generating", "open"}
            /\ mgr'["inner"].raised = m.raised /\ mgr'["inner"].shapes = m.shapes
        BY <1>1, <2>3, <3>1, ContextSteps
      <4>2. focus.at = "generating"
        BY <1>1, <4>1 DEF InnerTurn, At_Rest, Focuses
      <4> QED BY <1>1, <1>3, <2>1, <4>1, <4>2 DEF InnerTurn
    <3>2. CASE CreateRaises(l)
      <4>1. /\ m.at = "generating" /\ mgr'["inner"].at = "left"
            /\ mgr'["inner"].raised /\ mgr'["inner"].shapes = m.shapes
        BY <1>1, <2>3, <3>2, ContextSteps
      <4>2. focus.at = "generating"
        BY <1>1, <4>1 DEF InnerTurn, At_Rest, Focuses
      <4> QED BY <1>1, <1>3, <2>1, <4>1, <4>2 DEF InnerTurn
    <3>3. CASE RemoveFile(l)
      <4>1. /\ m.at = "removing" /\ mgr'["inner"].at \in {"removing", "left"}
            /\ mgr'["inner"].shapes = m.shapes
        BY <1>1, <2>3, <3>3, ContextSteps
      <4>2. m.raised => m.at = "left"
        BY <1>1, <1>2 DEF FilesInv, Progress
      <4>3. focus.at = "leaving"
        BY <1>1, <4>1, <4>2 DEF InnerTurn, At_Rest, Focuses
      <4> QED BY <1>1, <1>3, <2>1, <4>1, <4>3 DEF InnerTurn
    <3> QED BY <1>6, <3>1, <3>2, <3>3
  <2> QED BY <2>2, <2>3 DEF Level
<1>7. ASSUME FocusStep, UNCHANGED scriptVars
      PROVE  InnerTurn'
  <2>1. script' = script
    BY <1>7 DEF scriptVars
  <2>2. CASE MeasureFirst \/ MeasureSecond
    <3>1. /\ m.at = "open" /\ mgr'["inner"] = m /\ focus.at \in Focus \cup {"generating"}
      BY <1>1, <2>2 DEF MeasureFirst, MeasureSecond, Measure, InnerTurn, fileVars, Focus
    <3>2. focus'.at \in Focus /\ focus'.args = focus.args /\ focus'.n_runs = focus.n_runs
      BY <1>1, <2>2 DEF MeasureFirst, MeasureSecond, Measure, Focuses, Focus
    <3> QED BY <1>1, <1>3, <2>1, <3>1, <3>2 DEF InnerTurn
  <2>3. CASE Decide \/ FocusFails
    <3>1. focus.at \in Focus /\ focus'.at = "leaving" /\ ExitData("inner")
      BY <1>1, <2>3 DEF Decide, FocusFails, Focuses, Focus
    <3>2. mgr'["inner"].at = "removing"
      BY <1>1, <1>2, <3>1, ContextSteps
    <3> QED BY <1>1, <1>3, <2>1, <3>1, <3>2 DEF InnerTurn
  <2>4. CASE FocusWithoutData \/ FocusReturns
    <3>1. mgr'["inner"] = m /\ m.at = "left" /\ focus'.at = "returned"
      BY <1>1, <1>2, <2>4 DEF FocusWithoutData, FocusReturns, FilesInv, Progress, fileVars,
         Focuses
    <3> QED BY <1>1, <1>3, <2>1, <3>1 DEF InnerTurn, Called, At_Rest
  <2> QED BY <1>7, <2>2, <2>3, <2>4 DEF FocusStep
<1>8. ASSUME ScriptStep
      PROVE  InnerTurn'
  <2>1. CASE AskFocus
    <3>1. script'.at = "focusing"
      BY <1>1, <2>1 DEF AskFocus, Scripts
    <3> QED BY <1>1, <1>5, <2>1, <3>1, ArgsAsked
  <2>2. CASE AppCalls
    <3>1. script'.at = "calling" /\ script'.job = script.job + 1 /\ script'.job # 1
      BY <1>1, <2>2 DEF AppCalls, Scripts
    <3>2. CASE \E a \in FocusArgs : CallFocus(a)
      BY <1>5, <3>1, <3>2, ApplicationAssumption
    <3>3. CASE ~(\E a \in FocusArgs : CallFocus(a))
      <4>1. focus.at \in Called /\ focus' = focus /\ mgr'["inner"] = m
        BY <2>2, <3>3 DEF AppCalls, Called, SetDtype, SetBytes, ReadShape
      <4> QED BY <1>4, <4>1
    <3> QED BY <3>2, <3>3
  <2>3. CASE PlanRound
    <3>1. focus.at \in Called /\ focus' = focus
      BY <1>1, <2>3 DEF PlanRound, InnerTurn
    <3>2. CASE script' = [script EXCEPT !.at = "raised"] /\ UNCHANGED fileVars
      BY <1>4, <3>1, <3>2 DEF fileVars
    <3>3. CASE ~(script' = [script EXCEPT !.at = "raised"] /\ UNCHANGED fileVars)
      <4> DEFINE plan == DetermineNumRuns(CurrentRound.plan)
      <4>1. EnterData("outer", CurrentRound.dtype, plan.n_runs, plan.block_size,
                      plan.maxlen, CurrentRound.wanted) /\ plan.n_runs \in Nat
        BY <1>1, <2>3, <3>3, PlanEnters DEF Plans
      <4>2. mgr'["inner"] = m
        BY <1>1, <1>2, <4>1, ContextEntered
      <4> QED BY <1>4, <3>1, <4>2
    <3> QED BY <3>2, <3>3
  <2>4. CASE LeaveData
    <3>1. focus.at \in Called /\ focus' = focus /\ ExitData("outer")
      BY <1>1, <2>4 DEF LeaveData, InnerTurn, ReportRaises
    <3> QED BY <1>1, <1>2, <1>4, <3>1, ContextSteps
  <2>5. CASE DataMissing \/ DataReady \/ RunJob \/ JobEnds
    <3>1. focus.at \in Called /\ focus' = focus /\ UNCHANGED fileVars
      BY <1>1, <2>5 DEF DataMissing, DataReady, RunJob, JobEnds, NextJob, InnerTurn, Called
    <3> QED BY <1>4, <3>1 DEF fileVars
  <2>6. CASE SaveRows \/ NextRound \/ RoundsEnd \/ AppBenchmarks \/ AppEnds \/ Ask
    <3>1. focus.at \in Called /\ focus' = focus /\ UNCHANGED fileVars
      BY <1>1, <2>6 DEF SaveRows, NextRound, RoundsEnd, AppBenchmarks, AppEnds, Ask, InnerTurn,
         Called
    <3> QED BY <1>4, <3>1 DEF fileVars
  <2> QED BY <1>8, <2>1, <2>2, <2>3, <2>4, <2>5, <2>6 DEF ScriptStep
<1>9. ASSUME UNCHANGED <<fileVars, focus, scriptVars>>
      PROVE  InnerTurn'
  BY <1>1, <1>9 DEF InnerTurn, fileVars, scriptVars
<1> QED BY <1>6, <1>7, <1>8, <1>9, StepKinds

-------------------------------------------------------------------------------
(* Focus calls.                                                            *)

\* The runs of a focus call are those of its arguments and the host.
LEMMA FocusRunsSame ==
  ASSUME UNCHANGED host, NEW CONSTANT a, focus'.args = a
  PROVE  FocusRuns(focus.args)' = FocusRuns(a)
<1>1. Budget' = Budget
  BY DEF Budget
<1>2. FocusPlan(focus.args)' = FocusPlan(a)
  BY <1>1 DEF FocusPlan
<1> QED BY <1>2 DEF FocusRuns

\* A focus call knows the times of what it measured.
LEMMA FocusKept ==
  ASSUME Inv, Next
  PROVE  FocusInv'
<1>1. /\ FilesInv /\ ScriptInv /\ OuterTurn /\ InnerTurn /\ FocusInv /\ BenchTurn
      /\ focus \in Focuses /\ UNCHANGED host
  BY FilesAlways DEF Inv, FocusInv, Focuses
<1>2. /\ {"generating", "leaving"} \cap Called = {} /\ Focus \cap Called = {}
      /\ "generating" \notin Focus /\ "leaving" \notin Focus
  BY DEF Focus, Called
<1>3. Times \subseteq Nat /\ Absent \notin Nat
  BY TimesAssumption DEF Absent
\* A call whose arguments and number of runs stay what they were.
<1>4. ASSUME focus' \in Focuses, focus'.args = focus.args, focus'.n_runs = focus.n_runs,
             focus'.at \notin Called => focus.at \notin Called,
             focus'.at = "extend/append" => focus'.times["calculation"] \in Times,
             focus'.at = "leaving" => focus'.result \in Focus,
             focus'.at = "returned" /\ ~(focus.n_runs < focus.args.calc_every) =>
               focus'.result \in Focus,
             focus'.at \in {"leaving", "returned"} =>
               IF focus'.failed \/ focus.n_runs < focus.args.calc_every
               THEN focus'.result = focus.args.fallback
               ELSE \A f \in Focus : focus'.times[f] \in Times
                                     /\ focus'.times[focus'.result] <= focus'.times[f]
      PROVE  FocusInv'
  <2>1. FocusRuns(focus.args)' = FocusRuns(focus.args)
    BY <1>1, <1>4, FocusRunsSame
  <2>2. focus'.at \notin Called =>
          /\ ~InvalidFocus(focus.args)
          /\ focus.n_runs = FocusRuns(focus.args) /\ focus.n_runs >= focus.args.calc_every
    BY <1>1, <1>4 DEF FocusInv
  <2>3. ~InvalidFocus(focus.args) => ~InvalidFocus(focus.args)'
    BY <1>4 DEF InvalidFocus
  <2> QED BY <1>4, <2>1, <2>2, <2>3 DEF FocusInv, Focuses
<1>5. ASSUME UNCHANGED focus
      PROVE  FocusInv'
  BY <1>1, <1>4, <1>5 DEF FocusInv
<1>6. ASSUME NEW a \in FocusCalls, CallFocus(a)
      PROVE  FocusInv'
  <2>1. focus' \in Focuses /\ focus'.args = a
    BY <1>1, <1>6, CallOutcomes
  <2>2. CASE focus'.at \in Called
    <3>1. focus'.at = "returned" =>
            focus'.n_runs < a.calc_every /\ focus'.result = a.fallback /\ a.fallback \in Focus
      BY <1>1, <1>6, <2>2, CallOutcomes
    <3>2. focus'.at \notin {"extend/append", "leaving"}
      BY <2>2 DEF Called
    <3> QED BY <2>1, <2>2, <3>1, <3>2 DEF FocusInv, Focuses
  <2>3. CASE focus'.at \notin Called
    <3>1. /\ focus'.at = "generating" /\ ~InvalidFocus(a)
          /\ focus'.n_runs = FocusRuns(a) /\ ~(focus'.n_runs < a.calc_every)
      BY <1>1, <1>6, <2>3, CallOutcomes DEF Called
    <3>2. FocusRuns(focus.args)' = FocusRuns(a)
      BY <1>1, <2>1, FocusRunsSame
    <3>3. ~InvalidFocus(focus.args)'
      BY <2>1, <3>1 DEF InvalidFocus
    <3>4. focus'.n_runs >= a.calc_every
      BY <2>1, <3>1 DEF Focuses, FocusCalls
    <3> QED BY <2>1, <3>1, <3>2, <3>3, <3>4 DEF FocusInv, Focuses
  <2> QED BY <2>2, <2>3
<1>7. ASSUME focus.at \notin Called
      PROVE  focus.args.fallback \in Focus /\ ~(focus.n_runs < focus.args.calc_every)
             /\ ~InvalidFocus(focus.args)
  <2>1. /\ focus.args \in FocusCalls /\ ~InvalidFocus(focus.args) /\ focus.n_runs \in Nat
        /\ focus.n_runs >= focus.args.calc_every /\ focus.args.calc_every \in Int
    BY <1>1, <1>7 DEF FocusInv, FocusCalls
  <2>2. focus.args.fallback \in Focus
    BY <2>1 DEF InvalidFocus
  <2> QED BY <2>1, <2>2
<1>8. ASSUME FocusStep
      PROVE  FocusInv'
  <2>1. CASE MeasureFirst
    <3>1. focus.at = "generating" /\ focus' = [focus EXCEPT !.at = "calculation"]
      BY <2>1 DEF MeasureFirst, Measure
    <3>2. /\ focus' \in Focuses /\ focus'.at = "calculation"
          /\ focus'.args = focus.args /\ focus'.n_runs = focus.n_runs
      BY <1>1, <3>1 DEF Focuses, Focus
    <3> QED BY <1>2, <1>4, <3>1, <3>2
  <2>2. CASE MeasureSecond
    <3>1. /\ focus.at = "calculation" /\ bench.time \in Times
          /\ focus' = [focus EXCEPT !.at = "extend/append", !.times["calculation"] = bench.time]
      BY <1>1, <2>2 DEF MeasureSecond, BenchTurn
    <3>2. /\ focus' \in Focuses /\ focus'.at = "extend/append"
          /\ focus'.args = focus.args /\ focus'.n_runs = focus.n_runs
          /\ focus'.times["calculation"] = bench.time
      BY <1>1, <3>1 DEF Focuses, Focus
    <3>3. focus.at \notin Called
      BY <1>2, <3>1 DEF Focus
    <3> QED BY <1>4, <3>1, <3>2, <3>3
  <2>3. CASE Decide
    <3> DEFINE times == [focus.times EXCEPT !["extend/append"] = bench.time]
               failed == focus.args.verbose /\ \E f \in Focus : times[f] = 0
               result == IF failed THEN focus.args.fallback ELSE Faster(times)
    <3>1. /\ focus.at = "extend/append" /\ bench.time \in Times
          /\ focus' = [focus EXCEPT !.at = "leaving", !.times = times, !.failed = failed,
                                    !.result = result]
      BY <1>1, <2>3 DEF Decide, BenchTurn
    <3>2. focus.at \notin Called /\ focus.times["calculation"] \in Times
      BY <1>1, <1>2, <3>1 DEF FocusInv, Focus
    <3>3. \A f \in Focus : times[f] \in Times
      BY <1>1, <3>1, <3>2 DEF Focuses, Focus
    <3>4. \A f \in Focus : times[Faster(times)] <= times[f] /\ Faster(times) \in Focus
      <4> HIDE DEF times
      <4> DEFINE c == times["calculation"]
                 e == times["extend/append"]
      <4>1. c \in Nat /\ e \in Nat
        BY <1>3, <3>3 DEF Focus
      <4>2. Faster(times) = IF c < e THEN "calculation" ELSE "extend/append"
        BY DEF Faster
      <4>3. times[Faster(times)] <= c /\ times[Faster(times)] <= e /\ Faster(times) \in Focus
        <5>1. CASE c < e
          BY <4>1, <4>2, <5>1 DEF Focus
        <5>2. CASE ~(c < e)
          <6>1. Faster(times) = "extend/append"
            BY <4>2, <5>2
          <6> QED BY <4>1, <5>2, <6>1 DEF Focus
        <5> QED BY <5>1, <5>2
      <4> QED BY <4>3 DEF Focus
    <3>5. failed \in BOOLEAN
      BY <1>1 DEF Focuses, FocusCalls
    <3>6. times \in [Focus -> Times \cup {Absent}]
      BY <1>1, <3>1 DEF Focuses
    <3>7. result \in Focus
      BY <1>7, <3>2, <3>4 DEF Focus
    <3> HIDE DEF failed, times, result
    <3>8. /\ focus' \in Focuses /\ focus'.at = "leaving"
          /\ focus'.args = focus.args /\ focus'.n_runs = focus.n_runs
          /\ focus'.times = times /\ focus'.failed = failed /\ focus'.result = result
      BY <1>1, <3>1, <3>5, <3>6, <3>7 DEF Focuses
    <3>9. IF failed THEN result = focus.args.fallback
          ELSE \A f \in Focus : times[f] \in Times /\ times[result] <= times[f]
      BY <3>3, <3>4 DEF result
    <3> QED BY <1>4, <1>7, <3>2, <3>7, <3>8, <3>9
  <2>4. CASE FocusFails
    <3>1. focus.at \notin Called
          /\ focus' = [focus EXCEPT !.at = "leaving", !.failed = TRUE,
                                    !.result = focus.args.fallback]
      BY <1>2, <2>4 DEF FocusFails
    <3>2. /\ focus' \in Focuses /\ focus'.at = "leaving"
          /\ focus'.args = focus.args /\ focus'.n_runs = focus.n_runs
          /\ focus'.failed /\ focus'.result = focus.args.fallback
      BY <1>1, <1>7, <3>1 DEF Focuses
    <3> QED BY <1>4, <1>7, <3>1, <3>2
  <2>5. CASE FocusWithoutData
    <3>1. focus.at \notin Called
          /\ focus' = [focus EXCEPT !.at = "returned", !.failed = TRUE,
                                    !.result = focus.args.fallback]
      BY <1>2, <2>5 DEF FocusWithoutData
    <3>2. /\ focus' \in Focuses /\ focus'.at = "returned"
          /\ focus'.args = focus.args /\ focus'.n_runs = focus.n_runs
          /\ focus'.failed /\ focus'.result = focus.args.fallback
      BY <1>1, <1>7, <3>1 DEF Focuses, Called
    <3> QED BY <1>4, <1>7, <3>1, <3>2
  <2>6. CASE FocusReturns
    <3>1. focus.at = "leaving" /\ focus' = [focus EXCEPT !.at = "returned"]
      BY <2>6 DEF FocusReturns
    <3>2. /\ focus' \in Focuses /\ focus'.at = "returned"
          /\ focus'.args = focus.args /\ focus'.n_runs = focus.n_runs
          /\ focus'.times = focus.times /\ focus'.failed = focus.failed
          /\ focus'.result = focus.result
      BY <1>1, <3>1 DEF Focuses, Called
    <3>3. /\ focus.result \in Focus
          /\ IF focus.failed \/ focus.n_runs < focus.args.calc_every
             THEN focus.result = focus.args.fallback
             ELSE \A f \in Focus : focus.times[f] \in Times
                                   /\ focus.times[focus.result] <= focus.times[f]
      BY <1>1, <3>1 DEF FocusInv
    <3>4. focus'.at \in Called
      BY <3>2 DEF Called
    <3> QED BY <1>4, <3>2, <3>3, <3>4
  <2> QED BY <1>8, <2>1, <2>2, <2>3, <2>4, <2>5, <2>6 DEF FocusStep
<1>9. ASSUME ScriptStep
      PROVE  FocusInv'
  <2>1. CASE AskFocus
    BY <1>1, <1>6, <2>1, ArgsAsked
  <2>2. CASE AppCalls
    <3>1. UNCHANGED focus \/ \E a \in FocusCalls : CallFocus(a)
      BY <2>2, ApplicationAssumption DEF AppCalls
    <3> QED BY <1>5, <1>6, <3>1
  <2>3. CASE PlanRound \/ DataMissing \/ DataReady \/ RunJob \/ JobEnds \/ SaveRows
    BY <1>5, <2>3 DEF PlanRound, DataMissing, DataReady, RunJob, JobEnds, SaveRows
  <2>4. CASE LeaveData \/ NextRound \/ RoundsEnd \/ AppBenchmarks \/ AppEnds \/ Ask
    BY <1>5, <2>4 DEF LeaveData, NextRound, RoundsEnd, AppBenchmarks, AppEnds, Ask
  <2> QED BY <1>9, <2>1, <2>2, <2>3, <2>4 DEF ScriptStep
<1> QED BY <1>5, <1>8, <1>9, StepKinds

-------------------------------------------------------------------------------
(* Whose benchmark it is.                                                  *)

\* Nothing runs in the worker but during a sweep.
LEMMA WorkerRests ==
  ASSUME PoolInv, script.at # "sweeping" \/ pool.at \in {"closed", "ended"}
  PROVE  pool.running = 0
<1>1. pool.at \in {"closed", "ended"}
  BY DEF PoolInv
<1>2. CASE pool.at = "closed"
  BY <1>2 DEF PoolInv, ClosedPool
<1>3. CASE pool.at = "ended"
  BY <1>3 DEF PoolInv, Finished
<1> QED BY <1>1, <1>2, <1>3

\* No benchmark is in progress or waits for its caller.
LEMMA BenchRests ==
  ASSUME Inv, script.program # "application", script.at \notin {"measuring", "focusing"},
         pool.running = 0
  PROVE  bench.at = "idle"
<1>1. bench.by \in {"main", "worker"}
  BY DEF Inv, BenchInv, BenchTyped, Process
<1>2. focus.at \notin Focus
  <2>1. script.at # "calling"
    BY DEF Inv, ScriptInv
  <2>2. Focus \cap Called = {}
    BY DEF Focus, Called
  <2> QED BY <2>1, <2>2 DEF Inv, InnerTurn
<1> QED BY <1>1, <1>2 DEF Inv, BenchTurn

\* What the executor itself does leaves the worker alone.
LEMMA PoolSteps ==
  ASSUME PoolTyped, PoolStep \/ BodyRaises
  PROVE  pool'.running = pool.running /\ pool'.dead = pool.dead /\ pool.at # "closed"
<1>1. CASE CollectFound \/ CollectRemaining
  <2>1. \A k : Collected(pool, k).running = pool.running /\ Collected(pool, k).dead = pool.dead
    BY DEF Collected, PoolTyped, Pools
  <2>2. \A k, found : LET q == [Collected(pool, k) EXCEPT !.found = found]
                     IN q.running = pool.running /\ q.dead = pool.dead
    BY DEF Collected, PoolTyped, Pools
  <2>3. CASE CollectRemaining
    BY <2>1, <2>3 DEF CollectRemaining
  <2>4. CASE CollectFound
    <3>1. CASE pool.found = {}
      BY <2>4, <3>1 DEF CollectFound, PoolTyped, Pools
    <3>2. CASE pool.found # {}
      <4>1. pool.at # "closed" /\ \E k, found : pool' = [Collected(pool, k) EXCEPT !.found = found]
        BY <2>4, <3>2, Zenon DEF CollectFound
      <4> QED BY <2>2, <4>1
    <3> QED BY <3>1, <3>2
  <2> QED BY <1>1, <2>3, <2>4
<1>2. CASE Submit \/ SubmitRaises \/ AskFuture \/ AllSubmitted
  BY <1>2 DEF Submit, SubmitRaises, AskFuture, AllSubmitted, PoolTyped, Pools
<1>3. CASE AllCollected \/ ShutDown \/ BodyRaises
  BY <1>3 DEF AllCollected, ShutDown, BodyRaises, PoolTyped, Pools
<1> QED BY <1>1, <1>2, <1>3 DEF PoolStep

\* A benchmark belongs to the process and the caller that wait for it.
LEMMA BenchTurnKept ==
  ASSUME Inv, Next
  PROVE  BenchTurn'
<1>1. /\ FilesInv /\ ScriptInv /\ InnerTurn /\ FocusInv /\ BenchTurn /\ PoolInv /\ PoolTyped
      /\ script \in Scripts /\ script'.program = script.program
  BY FilesAlways DEF Inv, ScriptInv, Scripts, PoolInv
<1>2. bench.by \in {"main", "worker"} /\ "main" # "worker" /\ "idle" \notin Half
      /\ NoBench.at = "idle" /\ {"idle", "returned", "raised"} \cap Half = {}
  BY NoBenchType DEF Inv, BenchInv, BenchTyped, Process, Half
<1>3. focus.at \notin Called => script.at \in {"focusing", "calling"}
  BY <1>1 DEF InnerTurn
<1>4. ASSUME bench'.at = "idle", pool'.running = 0 \/ pool'.dead
      PROVE  BenchTurn'
  BY <1>4 DEF BenchTurn
<1>5. ASSUME pool'.running = 0, bench'.by = "main" \/ bench'.at = "idle",
             script'.at = "measuring" \/ focus'.at \in Focus \/ script.program = "application",
             bench'.at = "returned" => bench'.time \in Times
      PROVE  BenchTurn'
  BY <1>1, <1>2, <1>5 DEF BenchTurn
<1>6. ASSUME NEW p \in Process, NEW j, StartBench(p, j)
      PROVE  bench'.by = p /\ bench'.at \notin {"idle", "returned"}
  BY <1>6 DEF StartBench, NoBench
<1>7. ASSUME ScriptStep
      PROVE  BenchTurn'
  <2>1. CASE AskFocus \/ PlanRound \/ DataMissing \/ SaveRows \/ NextRound \/ RoundsEnd
    <3>1. /\ script.at \notin {"measuring", "focusing", "calling", "done"}
          /\ bench' = bench
          /\ pool.running = 0 => pool'.running = 0
          /\ script.at # "sweeping" \/ pool.at \in {"closed", "ended"}
      BY <1>1, <2>1, ArgsAsked, CallMovesFiles
         DEF AskFocus, PlanRound, DataMissing, SaveRows, NextRound, RoundsEnd, benchVars,
             ClosedPool,
             PoolTyped, Pools
    <3>2. pool.running = 0 /\ script.program # "application"
      BY <1>1, <3>1, WorkerRests DEF ScriptInv
    <3>3. bench.at = "idle"
      BY <3>1, <3>2, BenchRests
    <3> QED BY <1>4, <3>1, <3>2, <3>3
  <2>2. CASE DataReady
    <3>1. script.at = "generating" /\ bench' = bench /\ script.program # "application"
      BY <1>1, <2>2 DEF DataReady, benchVars, ScriptInv
    <3>2. pool.running = 0
      BY <1>1, <3>1, WorkerRests
    <3>3. bench.at = "idle"
      BY <3>1, <3>2, BenchRests
    <3>4. pool'.running = 0
      BY <2>2, <3>2 DEF DataReady, OpenPool, ClosedPool
    <3> QED BY <1>4, <3>1, <3>3, <3>4
  <2>3. CASE JobEnds
    <3>1. pool'.running = 0 /\ bench' = NoBench
      BY <1>1, <2>3, WorkerRests DEF JobEnds
    <3> QED BY <1>2, <1>4, <3>1
  <2>4. CASE LeaveData
    <3>1. /\ script.at \in {"measuring", "jobs", "sweeping", "saved"}
          /\ script.at = "sweeping" => pool.at = "ended"
          /\ bench' = IF script.at = "measuring" THEN NoBench ELSE bench
          /\ pool' = pool
      BY <2>4 DEF LeaveData, ReportRaises
    <3>2. pool.running = 0 /\ script.program # "application"
      BY <1>1, <3>1, WorkerRests DEF ScriptInv
    <3>3. script.at # "measuring" => bench.at = "idle"
      BY <3>1, <3>2, BenchRests
    <3> QED BY <1>2, <1>4, <3>1, <3>2, <3>3
  <2>5. CASE RunJob
    <3>1. script.at \in {"jobs", "focusing"} /\ pool' = pool
          /\ script'.at = "measuring" /\ \E j : StartBench("main", j)
      BY <1>1, <2>5 DEF RunJob, NextJob, Scripts
    <3>2. pool.running = 0
      BY <1>1, <3>1, WorkerRests
    <3> QED BY <1>5, <1>6, <3>1, <3>2 DEF Process
  <2>6. CASE AppCalls \/ AppBenchmarks \/ AppEnds \/ Ask
    <3>1. script.at = "calling" /\ script.program = "application" /\ pool' = pool
      BY <1>1, <2>6 DEF AppCalls, AppBenchmarks, AppEnds, Ask, ScriptInv
    <3>2. pool.running = 0
      BY <1>1, <3>1, WorkerRests
    <3>3. bench.by = "main" \/ bench.at = "idle"
      BY <1>1, <1>2, <3>1 DEF BenchTurn
    <3>4. bench.at = "returned" => bench.time \in Times
      BY <1>1 DEF BenchTurn
    <3>5. UNCHANGED bench \/ \E j : StartBench("main", j)
      <4>1. AppCalls => UNCHANGED benchVars
        BY <1>1, AppMovesFiles DEF Inv
      <4> QED BY <2>6, <4>1 DEF AppBenchmarks, AppEnds, Ask, benchVars
    <3> QED BY <1>5, <1>6, <3>1, <3>2, <3>3, <3>4, <3>5 DEF Process
  <2> QED BY <1>7, <2>1, <2>2, <2>3, <2>4, <2>5, <2>6 DEF ScriptStep
<1>8. ASSUME FocusStep, UNCHANGED <<pool, scriptVars>>
      PROVE  BenchTurn'
  <2>1. focus.at \notin Called /\ script' = script /\ pool' = pool
    BY <1>8 DEF FocusStep, MeasureFirst, MeasureSecond, Decide, FocusFails, FocusWithoutData,
                FocusReturns, Focus, Called, scriptVars
  <2>2. script.at \in {"focusing", "calling"} /\ pool.running = 0
    BY <1>1, <1>3, <2>1, WorkerRests
  <2>3. CASE MeasureFirst \/ MeasureSecond
    <3>1. StartBench("main", FocusJob) /\ focus'.at \in Focus
      BY <1>1, <2>3 DEF MeasureFirst, MeasureSecond, Measure, Focus, FocusInv
    <3> QED BY <1>5, <1>6, <2>1, <2>2, <3>1 DEF Process
  <2>4. CASE Decide \/ FocusFails
    BY <1>2, <1>4, <2>1, <2>2, <2>4 DEF Decide, FocusFails
  <2>5. CASE FocusWithoutData \/ FocusReturns
    <3>1. bench' = bench /\ focus.at \notin Focus
      BY <2>5 DEF FocusWithoutData, FocusReturns, benchVars, Focus
    <3>2. CASE script.at = "calling"
      <4>1. script.program = "application" /\ (bench.by = "main" \/ bench.at = "idle")
        BY <1>1, <1>2, <3>2 DEF ScriptInv, BenchTurn
      <4>2. bench.at = "returned" => bench.time \in Times
        BY <1>1 DEF BenchTurn
      <4> QED BY <1>5, <2>1, <2>2, <3>1, <4>1, <4>2
    <3>3. CASE script.at = "focusing"
      <4>1. bench.at = "idle"
        BY <1>1, <1>2, <3>1, <3>3 DEF ScriptInv, BenchTurn
      <4> QED BY <1>4, <2>1, <2>2, <3>1, <4>1
    <3> QED BY <2>2, <3>2, <3>3
  <2> QED BY <1>8, <2>3, <2>4, <2>5 DEF FocusStep
<1>9. ASSUME bench' = bench, focus' = focus, script' = script,
             pool'.running = pool.running, pool'.dead = pool.dead
      PROVE  BenchTurn'
  BY <1>1, <1>9 DEF BenchTurn
<1>10. ASSUME WorkerStep \/ WorkerDies, UNCHANGED <<focus, scriptVars>>
       PROVE  BenchTurn'
  <2>1. focus' = focus /\ script' = script
    BY <1>10 DEF scriptVars
  <2>2. CASE TakeTask
    <3>1. /\ pool.running = 0 /\ ~pool.dead
      BY <2>2 DEF TakeTask
    <3>2. PICK k \in Futures :
            /\ pool.state[k] = "pending"
            /\ \/ /\ \E j : StartBench("worker", j)
                  /\ pool' = [pool EXCEPT !.running = k, !.state[k] = "running"]
               \/ /\ pool' = [pool EXCEPT !.state[k] = "failed"]
                  /\ UNCHANGED benchVars
      BY <2>2 DEF TakeTask
    <3>3. k # 0
      BY <1>1, TasksKnown
    <3>4. script.at = "sweeping"
      <4>1. Futures # Finished /\ Futures # {}
        BY <3>2 DEF Finished
      <4>2. pool.at \notin {"closed", "ended"}
        BY <1>1, <4>1 DEF PoolInv, ClosedPool, Futures
      <4> QED BY <1>1, <4>2 DEF PoolInv
    <3>5. CASE pool' = [pool EXCEPT !.state[k] = "failed"] /\ UNCHANGED benchVars
      <4>1. pool'.running = pool.running /\ pool'.dead = pool.dead /\ bench' = bench
        BY <1>1, <3>5 DEF PoolTyped, Pools, benchVars
      <4> QED BY <1>9, <2>1, <4>1
    <3>6. CASE (\E j : StartBench("worker", j))
               /\ pool' = [pool EXCEPT !.running = k, !.state[k] = "running"]
      <4>1. pool'.running = k /\ pool'.dead = pool.dead
        BY <1>1, <3>6 DEF PoolTyped, Pools
      <4>2. bench'.by = "worker" /\ bench'.at \notin {"idle", "returned"}
        BY <1>6, <3>6 DEF Process
      <4> QED BY <1>2, <2>1, <3>1, <3>3, <3>4, <4>1, <4>2 DEF BenchTurn
    <3> QED BY <3>2, <3>5, <3>6
  <2>3. CASE TaskEnds
    <3>1. pool'.running = 0 /\ bench' = NoBench
      BY <1>1, <2>3 DEF TaskEnds, PoolTyped, Pools
    <3> QED BY <1>2, <1>4, <3>1
  <2>4. CASE WorkerDies
    <3>1. pool'.dead /\ bench' = NoBench
      BY <1>1, <2>4 DEF WorkerDies, PoolTyped, Pools
    <3> QED BY <1>2, <1>4, <3>1
  <2>5. CASE PoolBreaks
    <3>1. pool.dead /\ pool'.running = 0 /\ bench' = bench
      BY <1>1, <2>5 DEF PoolBreaks, PoolTyped, Pools, Others, benchVars
    <3> QED BY <1>1, <1>2, <2>1, <3>1 DEF BenchTurn
  <2> QED BY <1>10, <2>2, <2>3, <2>4, <2>5 DEF WorkerStep
<1>11. ASSUME BenchStep \/ RaiseInBench, UNCHANGED <<focus, pool, scriptVars>>
       PROVE  BenchTurn'
  <2>1. focus' = focus /\ script' = script /\ pool' = pool
    BY <1>11 DEF scriptVars
  <2>2. BenchTyped
    BY DEF Inv, BenchInv
  <2>3. /\ bench.at # "idle" /\ bench'.at # "idle" /\ bench'.by = bench.by
        /\ bench'.at = "returned" => bench'.time \in Times
    <3>1. CASE RunBlock
      BY <1>2, <2>2, <3>1 DEF RunBlock, BenchTyped
    <3>2. CASE NextHalf
      BY <2>2, <3>2 DEF NextHalf, BenchTyped
    <3>3. CASE FinishBench
      <4>1. PICK time \in Times : bench' = [bench EXCEPT !.at = "returned", !.time = time]
        BY <3>3 DEF FinishBench
      <4> QED BY <2>2, <3>3, <4>1 DEF FinishBench, BenchTyped
    <3>4. CASE RaiseInBench
      BY <1>2, <2>2, <3>4 DEF RaiseInBench, BenchTyped
    <3> QED BY <1>11, <3>1, <3>2, <3>3, <3>4 DEF BenchStep
  <2> QED BY <1>1, <2>1, <2>3 DEF BenchTurn
<1>12. ASSUME PoolStep \/ BodyRaises, UNCHANGED <<benchVars, focus, scriptVars>>
       PROVE  BenchTurn'
  BY <1>1, <1>9, <1>12, PoolSteps DEF benchVars, scriptVars
<1>13. ASSUME UNCHANGED <<benchVars, focus, pool, scriptVars>>
       PROVE  BenchTurn'
  BY <1>9, <1>13 DEF benchVars, scriptVars
<1> QED BY <1>7, <1>8, <1>10, <1>11, <1>12, <1>13, StepKinds

-------------------------------------------------------------------------------
(* The pool: who finishes, and whose row it is.                            *)

\* One element more at the end of a sequence.
LEMMA Appended ==
  ASSUME NEW S, NEW s \in Seq(S), NEW x \in S
  PROVE  /\ Append(s, x) \in Seq(S) /\ Len(Append(s, x)) = Len(s) + 1
         /\ DOMAIN s = 1 .. Len(s) /\ DOMAIN Append(s, x) = 1 .. Len(s) + 1
         /\ DOMAIN Append(s, x) = DOMAIN s \cup {Len(s) + 1}
         /\ Len(s) + 1 \notin DOMAIN s
         /\ \A i \in DOMAIN s : Append(s, x)[i] = s[i]
         /\ Append(s, x)[Len(s) + 1] = x
  OBVIOUS

\* The closed pool is empty.
LEMMA ClosedPoolType ==
  /\ ClosedPool \in Pools /\ ClosedPool.at = "closed" /\ ClosedPool.running = 0
  /\ ClosedPool.todo = <<>> /\ ClosedPool.noted = <<>> /\ ClosedPool.state = <<>>
  /\ ClosedPool.rows = <<>> /\ ClosedPool.found = {} /\ ClosedPool.completed = {}
<1>1. NoTask \in Tasks
  BY DEF NoTask, Task, Combo, Tasks, Rings
<1> HIDE DEF NoTask
<1> QED BY <1>1 DEF Pools, ClosedPool

\* A future that is finished stays so, and with it all that was made of it.
LEMMA FuturesFinish ==
  ASSUME PoolInv, PoolTyped',
         pool'.noted = pool.noted, pool'.rows = pool.rows, pool'.completed = pool.completed,
         \A k \in Finished : pool'.state[k] = pool.state[k],
         pool'.found \subseteq Finished' \ pool'.completed
  PROVE  /\ RowsInv' /\ Futures' = Futures /\ Finished \subseteq Finished'
         /\ pool'.completed \subseteq Finished'
<1>1. RowsInv /\ pool.completed \subseteq Finished
  BY DEF PoolInv
<1>2. Futures' = Futures /\ Finished \subseteq Finished'
  BY DEF Futures, Finished
<1>3. RowsInv'
  BY <1>1 DEF RowsInv, Finished
<1> QED BY <1>1, <1>2, <1>3

\* A step that only moves on in the loops of main.
LEMMA PoolMovesOn ==
  ASSUME Inv, PoolTyped', script' = script, script.at = "sweeping",
         pool'.noted = pool.noted, pool'.rows = pool.rows, pool'.completed = pool.completed,
         pool'.todo = pool.todo, pool'.locals = pool.locals, pool'.running = pool.running,
         pool'.state = pool.state, pool'.found \subseteq Finished \ pool.completed,
         pool'.at # "closed", pool'.at = "ended" => Finished = Futures,
         pool'.at \in {"shutting_down", "ended"} /\ ~pool'.failed => pool.completed = Futures,
         pool.at # "closed", pool'.at \in {"submitting", "collecting"} => pool'.found = {}
  PROVE  PoolInv'
<1>1. PoolInv
  BY DEF Inv
<1>2. Finished' = Finished /\ Futures' = Futures
  BY DEF Finished, Futures
<1>3. RowsInv' /\ pool'.completed \subseteq Finished'
  BY <1>1, <1>2, FuturesFinish
<1>4. \A k \in Futures' : pool'.noted[k] = Task(pool'.todo[k], script'.plan.n_runs)
  BY <1>1, <1>2 DEF PoolInv
<1>5. pool'.running # 0 => pool'.running \in Futures' /\ pool'.state[pool'.running] = "running"
  BY <1>1, <1>2 DEF PoolInv
<1>6. script.at # "closed" => script'.at \in {"sweeping", "saved", "leaving"}
                              /\ pool'.locals.n_runs = script'.plan.n_runs
  BY <1>1 DEF PoolInv
<1> QED BY <1>2, <1>3, <1>4, <1>5, <1>6 DEF PoolInv

\* A program that does not touch the pool.
LEMMA PoolStays ==
  ASSUME PoolInv, pool' = pool, pool.at # "closed" => script'.plan = script.plan,
         pool.at # "closed" => script'.at \in {"sweeping", "saved", "leaving"},
         script'.at \in {"saved", "leaving"} => pool.at \in {"closed", "ended"}
  PROVE  PoolInv'
<1>1. PoolTyped' /\ RowsInv' /\ Finished' = Finished /\ Futures' = Futures
  BY DEF PoolInv, PoolTyped, Pools, RowsInv, Finished, Futures
<1>2. \A k \in Futures' : pool'.noted[k] = Task(pool'.todo[k], script'.plan.n_runs)
  <2>1. CASE pool.at = "closed"
    BY <1>1, <2>1, ClosedPoolType DEF PoolInv, Futures
  <2>2. CASE pool.at # "closed"
    BY <1>1, <2>2 DEF PoolInv
  <2> QED BY <2>1, <2>2
<1> QED BY <1>1, <1>2 DEF PoolInv

\* A step of a worker: some future gets on.
LEMMA FutureGetsOn ==
  ASSUME Inv, PoolTyped', script' = script, pool.at # "closed", pool'.at = pool.at,
         pool'.noted = pool.noted, pool'.rows = pool.rows, pool'.completed = pool.completed,
         pool'.todo = pool.todo, pool'.locals = pool.locals, pool'.found = pool.found,
         pool'.failed = pool.failed,
         \A k \in Finished : pool'.state[k] = pool.state[k],
         pool'.running # 0 => pool'.running \in Futures /\ pool'.state[pool'.running] = "running"
  PROVE  PoolInv'
<1>1. PoolInv
  BY DEF Inv
<1>2. /\ pool.found \subseteq Finished \ pool.completed /\ pool.completed \subseteq Finished
      /\ Finished \subseteq Futures
  BY <1>1 DEF PoolInv, Finished
<1>3. Finished \subseteq Finished' /\ Futures' = Futures /\ Finished' \subseteq Futures'
  BY DEF Finished, Futures
<1>4. RowsInv' /\ pool'.found \subseteq Finished' \ pool'.completed
      /\ pool'.completed \subseteq Finished'
  BY <1>1, <1>2, <1>3, FuturesFinish
<1>5. \A k \in Futures' : pool'.noted[k] = Task(pool'.todo[k], script'.plan.n_runs)
  BY <1>1, <1>3 DEF PoolInv
<1>6. pool.at # "closed" => script'.at \in {"sweeping", "saved", "leaving"}
                              /\ pool'.locals.n_runs = script'.plan.n_runs
  BY <1>1 DEF PoolInv
<1>7. script'.at \in {"saved", "leaving"} => pool'.at \in {"closed", "ended"}
  BY <1>1 DEF PoolInv
<1>8. /\ pool'.at = "ended" => Finished' = Futures'
      /\ pool'.at \in {"shutting_down", "ended"} /\ ~pool'.failed => pool'.completed = Futures'
  BY <1>1, <1>3 DEF PoolInv
<1> QED BY <1>1, <1>3, <1>4, <1>5, <1>6, <1>7, <1>8 DEF PoolInv

\* The result of future k is collected.
LEMMA FutureCollected ==
  ASSUME Inv, script' = script, script.at = "sweeping",
         pool.at \in {"asking", "collecting"},
         NEW k \in Finished \ pool.completed, NEW found \in SUBSET (pool.found \ {k}),
         pool' = [Collected(pool, k) EXCEPT !.found = found]
  PROVE  PoolInv'
<1>1. PoolInv /\ PoolTyped /\ RowsInv /\ ScriptInv
  BY DEF Inv, PoolInv
<1>2. /\ k \in Futures /\ k \in Nat \ {0} /\ pool.noted[k] \in Tasks
      /\ pool.noted[k].n_runs = script.plan.n_runs
  <2>1. k \in Futures
    BY DEF Finished
  <2>2. pool.noted[k] = Task(pool.todo[k], script.plan.n_runs)
    BY <1>1, <2>1, TasksKnown
  <2> QED BY <1>1, <2>1, <2>2, TasksKnown DEF Task
<1> DEFINE row == [label |-> pool.noted[k], task |-> k]
<1>3. /\ pool'.noted = pool.noted /\ pool'.todo = pool.todo /\ pool'.state = pool.state
      /\ pool'.running = pool.running /\ pool'.at = pool.at /\ pool'.failed = pool.failed
      /\ pool'.found = found /\ pool'.completed = pool.completed \cup {k}
      /\ pool'.locals = pool.noted[k]
      /\ pool'.rows = IF pool.state[k] = "done" THEN Append(pool.rows, row) ELSE pool.rows
  BY <1>1 DEF PoolTyped, Pools, Collected
<1>4. Futures' = Futures /\ Finished' = Finished
  BY <1>3 DEF Futures, Finished
<1>5. row \in [label : Tasks, task : Nat] /\ row.label = pool.noted[k] /\ row.task = k
  BY <1>2
<1>6. pool.rows \in Seq([label : Tasks, task : Nat])
  BY <1>1 DEF PoolTyped, Pools
<1>7. PoolTyped'
  <2> HIDE DEF row
  <2>1. pool'.rows \in Seq([label : Tasks, task : Nat])
    <3> DEFINE R == [label : Tasks, task : Nat]
    <3>1. row \in R /\ pool.rows \in Seq(R)
      BY <1>5, <1>6
    <3> HIDE DEF R
    <3>2. Append(pool.rows, row) \in Seq(R)
      BY <3>1, Appended
    <3>3. pool'.rows \in Seq(R)
      BY <1>3, <3>1, <3>2
    <3> QED BY <3>3 DEF R
  <2>2. pool'.completed \in SUBSET Nat /\ found \in SUBSET Nat
    BY <1>1, <1>2, <1>3 DEF PoolTyped, Pools
  <2> DEFINE completed == pool'.completed
             rows      == pool'.rows
             locals    == pool.noted[k]
  <2>3. pool' = [pool EXCEPT !.completed = completed, !.locals = locals, !.rows = rows,
                             !.found = found]
    BY <1>1, <1>3 DEF PoolTyped, Pools, Collected
  <2>4. /\ completed \in SUBSET Nat /\ locals \in Tasks
        /\ rows \in Seq([label : Tasks, task : Nat])
    BY <1>2, <2>1, <2>2
  <2> HIDE DEF completed, rows, locals
  <2>5. pool' \in Pools
    BY <1>1, <2>2, <2>3, <2>4, ZenonT(60) DEF PoolTyped, Pools
  <2> QED BY <1>1, <1>3, <2>5 DEF PoolTyped
<1>8. RowsInv'
  <2> HIDE DEF row
  <2>1. \A i \in DOMAIN pool.rows : pool.rows[i].task # k
    BY <1>1 DEF RowsInv
  <2>2. CASE pool.state[k] # "done"
    BY <1>1, <1>3, <2>2 DEF RowsInv
  <2>3. CASE pool.state[k] = "done"
    <3>1. /\ DOMAIN pool'.rows = DOMAIN pool.rows \cup {Len(pool.rows) + 1}
          /\ Len(pool.rows) + 1 \notin DOMAIN pool.rows
          /\ \A i \in DOMAIN pool.rows : pool'.rows[i] = pool.rows[i]
          /\ pool'.rows[Len(pool.rows) + 1] = row
      BY <1>3, <1>5, <1>6, <2>3, Appended
    <3> DEFINE last == Len(pool.rows) + 1
    <3> HIDE DEF last
    <3>2. \A i \in DOMAIN pool'.rows :
            IF i = last THEN pool'.rows[i] = row ELSE i \in DOMAIN pool.rows
                                                       /\ pool'.rows[i] = pool.rows[i]
      BY <3>1 DEF last
    <3>3. \A i \in DOMAIN pool'.rows :
            LET t == pool'.rows[i].task
            IN t \in pool'.completed /\ pool'.state[t] = "done" /\ pool'.rows[i].label = pool'.noted[t]
      BY <1>1, <1>3, <1>5, <2>3, <3>2 DEF RowsInv
    <3>4. \A t \in pool'.completed : pool'.state[t] = "done" =>
            \E i \in DOMAIN pool'.rows : pool'.rows[i].task = t
      <4>1. last \in DOMAIN pool'.rows /\ pool'.rows[last] = row
        BY <3>1 DEF last
      <4>2. \A i \in DOMAIN pool.rows : i \in DOMAIN pool'.rows /\ pool'.rows[i] = pool.rows[i]
        BY <3>1
      <4> QED BY <1>1, <1>3, <1>5, <4>1, <4>2 DEF RowsInv
    <3>5. \A i, j \in DOMAIN pool'.rows : pool'.rows[i].task = pool'.rows[j].task => i = j
      BY <1>1, <1>5, <2>1, <3>2 DEF RowsInv
    <3> QED BY <3>3, <3>4, <3>5 DEF RowsInv
  <2> QED BY <2>2, <2>3
<1>9. \A j \in Futures' : pool'.noted[j] = Task(pool'.todo[j], script'.plan.n_runs)
  BY <1>1, <1>3, <1>4 DEF PoolInv
<1>10. pool'.running # 0 => pool'.running \in Futures' /\ pool'.state[pool'.running] = "running"
  BY <1>1, <1>3, <1>4 DEF PoolInv
<1>11. pool'.found \subseteq Finished' \ pool'.completed /\ pool'.completed \subseteq Finished'
  BY <1>1, <1>3, <1>4 DEF PoolInv
<1>12. pool'.at = "collecting" => pool'.found = {}
  BY <1>1, <1>3 DEF PoolInv
<1> HIDE DEF row
<1> QED BY <1>2, <1>3, <1>4, <1>12, <1>7, <1>8, <1>9, <1>10, <1>11 DEF PoolInv

\* One task more: the loop variables are those of its combination, but for n_runs.
LEMMA TaskSubmitted ==
  ASSUME Inv, Submit, script' = script
  PROVE  PoolInv'
<1>1. PoolInv /\ PoolTyped /\ RowsInv /\ ScriptInv /\ script.at = "sweeping"
  BY DEF Inv, PoolInv, Submit
<1> DEFINE k == Len(pool.noted) + 1
           new == Task(pool.todo[k], pool.locals.n_runs)
<1>2. /\ k \in Nat \ {0} /\ k \in DOMAIN pool.todo /\ pool.todo[k] \in Combos
      /\ pool.locals.n_runs = script.plan.n_runs /\ script.plan.n_runs \in Nat
      /\ pool.noted \in Seq(Tasks) /\ Len(pool.state) = Len(pool.noted)
      /\ Len(pool.noted) < Len(pool.todo)
  <2>1. /\ pool.noted \in Seq(Tasks) /\ pool.todo \in Seq(Combos)
        /\ Len(pool.state) = Len(pool.noted) /\ Len(pool.noted) < Len(pool.todo)
    BY <1>1 DEF PoolTyped, Pools, Submit
  <2>2. k \in Nat \ {0} /\ k \in DOMAIN pool.todo
    BY <2>1
  <2>3. pool.todo[k] \in Combos
    BY <2>1, <2>2, MemberAt
  <2>4. pool.locals.n_runs = script.plan.n_runs /\ script.plan.n_runs \in Nat
    BY <1>1 DEF PoolInv, ScriptInv, Plans, Submit
  <2> QED BY <2>1, <2>2, <2>3, <2>4
<1>3. new \in Tasks /\ new.n_runs = script.plan.n_runs
  BY <1>2 DEF Task, Tasks, Combos
<1>4. pool' = [pool EXCEPT !.locals = new, !.noted = Append(@, new),
                           !.state = Append(@, "pending"),
                           !.at = IF Drains(k - 1) THEN "asking" ELSE @,
                           !.scan = 1, !.found = {}]
  BY DEF Submit
<1> HIDE DEF new
<1>5. /\ pool'.noted = Append(pool.noted, new) /\ pool'.state = Append(pool.state, "pending")
      /\ pool'.locals = new /\ pool'.found = {} /\ pool'.todo = pool.todo
      /\ pool'.completed = pool.completed /\ pool'.rows = pool.rows
      /\ pool'.running = pool.running /\ pool'.at \in {"submitting", "asking"}
  BY <1>1, <1>4 DEF PoolTyped, Pools, Submit
<1> DEFINE States == {"pending", "running", "done", "failed"}
<1>6. pool.state \in Seq(States) /\ "pending" \in States
  BY <1>1 DEF PoolTyped, Pools
<1> HIDE DEF States
<1>7. /\ Append(pool.noted, new) \in Seq(Tasks) /\ Append(pool.state, "pending") \in Seq(States)
      /\ DOMAIN pool.noted = 1 .. Len(pool.noted) /\ DOMAIN pool.state = 1 .. Len(pool.noted)
      /\ DOMAIN Append(pool.noted, new) = DOMAIN pool.noted \cup {k} /\ k \notin DOMAIN pool.noted
      /\ Len(Append(pool.noted, new)) = k /\ Len(Append(pool.state, "pending")) = k
      /\ \A j \in DOMAIN pool.noted : Append(pool.noted, new)[j] = pool.noted[j]
      /\ \A j \in DOMAIN pool.state : Append(pool.state, "pending")[j] = pool.state[j]
      /\ Append(pool.noted, new)[k] = new /\ Append(pool.state, "pending")[k] = "pending"
  BY <1>2, <1>3, <1>6, Appended
<1>8. k <= Len(pool.todo)
  BY <1>2
<1> HIDE DEF k
<1>9. /\ Futures' = Futures \cup {k} /\ k \notin Futures /\ DOMAIN pool.state = Futures
      /\ \A j \in Futures : pool'.noted[j] = pool.noted[j] /\ pool'.state[j] = pool.state[j]
      /\ pool'.noted[k] = new /\ pool'.state[k] = "pending"
  BY <1>5, <1>7 DEF Futures
<1>10. Finished' = Finished /\ Finished \subseteq Futures
  BY <1>9 DEF Finished
<1>11. PoolTyped'
  <2> DEFINE noted == pool'.noted
             state == pool'.state
             at    == pool'.at
  <2>1. at \in {"submitting", "asking"} /\ noted \in Seq(Tasks) /\ state \in Seq(States)
    BY <1>5, <1>7
  <2>2. pool' = [pool EXCEPT !.locals = new, !.noted = noted, !.state = state, !.at = at,
                             !.scan = 1, !.found = {}]
    BY <1>1, <1>4, <1>5 DEF PoolTyped, Pools
  <2>3. Len(pool'.state) = Len(pool'.noted) /\ Len(pool'.noted) <= Len(pool'.todo)
    BY <1>5, <1>7, <1>8
  <2> HIDE DEF noted, state, at
  <2>4. pool' \in Pools
    BY <1>1, <1>3, <2>1, <2>2 DEF PoolTyped, Pools, States
  <2> QED BY <2>3, <2>4 DEF PoolTyped
<1>12. RowsInv'
  <2>1. pool.completed \subseteq Futures
    BY <1>1, <1>10 DEF PoolInv
  <2>2. \A i \in DOMAIN pool.rows :
          LET t == pool.rows[i].task
          IN t \in pool.completed /\ pool.state[t] = "done" /\ pool.rows[i].label = pool.noted[t]
    BY <1>1 DEF RowsInv
  <2>3. \A i \in DOMAIN pool'.rows :
          LET t == pool'.rows[i].task
          IN t \in pool'.completed /\ pool'.state[t] = "done" /\ pool'.rows[i].label = pool'.noted[t]
    <3>1. pool'.rows = pool.rows /\ pool'.completed = pool.completed
      BY <1>5
    <3>2. \A t \in pool.completed : pool'.state[t] = pool.state[t] /\ pool'.noted[t] = pool.noted[t]
      BY <1>9, <2>1
    <3> QED BY <2>2, <3>1, <3>2
  <2>4. \A t \in pool'.completed : pool'.state[t] = "done" =>
          \E i \in DOMAIN pool'.rows : pool'.rows[i].task = t
    BY <1>1, <1>5, <1>9, <2>1 DEF RowsInv
  <2>5. \A i, j \in DOMAIN pool'.rows : pool'.rows[i].task = pool'.rows[j].task => i = j
    BY <1>1, <1>5 DEF RowsInv
  <2> QED BY <2>3, <2>4, <2>5 DEF RowsInv
<1>13. \A j \in Futures' : pool'.noted[j] = Task(pool'.todo[j], script'.plan.n_runs)
  BY <1>1, <1>2, <1>5, <1>9 DEF PoolInv, new
<1>14. pool'.running # 0 => pool'.running \in Futures' /\ pool'.state[pool'.running] = "running"
  BY <1>1, <1>5, <1>9 DEF PoolInv
<1>15. pool'.found \subseteq Finished' \ pool'.completed /\ pool'.completed \subseteq Finished'
  BY <1>1, <1>5, <1>10 DEF PoolInv
<1> QED BY <1>1, <1>3, <1>5, <1>11, <1>12, <1>13, <1>14, <1>15 DEF PoolInv

\* What the main process does in its loops.
LEMMA PoolLoops ==
  ASSUME Inv, PoolStep \/ BodyRaises, script' = script
  PROVE  PoolInv'
<1>1. PoolInv /\ PoolTyped /\ pool.at \in {"submitting", "asking", "collecting", "shutting_down"}
  BY DEF Inv, PoolInv, PoolStep, BodyRaises, Submit, SubmitRaises, AskFuture, CollectFound,
         AllSubmitted, CollectRemaining, AllCollected, ShutDown
<1>2. script.at = "sweeping"
  BY <1>1 DEF PoolInv
<1>3. pool.found \subseteq Finished \ pool.completed /\ Finished \subseteq Nat
  <2>1. \A k \in Finished : k \in Nat
    BY <1>1 DEF Finished, Futures, PoolTyped, Pools
  <2> QED BY <1>1, <2>1 DEF PoolInv
<1>4. CASE Submit
  BY <1>4, TaskSubmitted
<1>5. CASE SubmitRaises \/ AllSubmitted \/ AllCollected \/ ShutDown \/ BodyRaises
  <2>1. PICK at, failed : /\ pool' = [pool EXCEPT !.at = at, !.failed = failed]
                          /\ at \in {"collecting", "shutting_down", "ended"} /\ failed \in BOOLEAN
                          /\ at = "collecting" => pool.at = "submitting"
                          /\ at = "ended" => Finished = Futures
                          /\ at \in {"shutting_down", "ended"} /\ ~failed =>
                               pool.completed = Futures
    <3>1. CASE SubmitRaises \/ BodyRaises
      BY <3>1 DEF SubmitRaises, BodyRaises
    <3>2. CASE AllSubmitted
      <4>1. pool' = [pool EXCEPT !.at = "collecting"] /\ pool.at = "submitting"
        BY <3>2 DEF AllSubmitted
      <4>2. pool' = [pool EXCEPT !.at = "collecting", !.failed = pool.failed]
        BY <1>1, <4>1 DEF PoolTyped, Pools
      <4>3. pool.failed \in BOOLEAN /\ pool.at = "submitting"
        BY <1>1, <4>1 DEF PoolTyped, Pools
      <4> WITNESS "collecting", pool.failed
      <4> QED BY <4>2, <4>3
    <3>3. CASE AllCollected
      <4>1. pool' = [pool EXCEPT !.at = "shutting_down"] /\ pool.completed = Futures
        BY <3>3 DEF AllCollected
      <4>2. pool' = [pool EXCEPT !.at = "shutting_down", !.failed = pool.failed]
        BY <1>1, <4>1 DEF PoolTyped, Pools
      <4>3. pool.failed \in BOOLEAN
        BY <1>1 DEF PoolTyped, Pools
      <4> QED BY <4>1, <4>2, <4>3
    <3>4. CASE ShutDown
      <4>1. /\ pool' = [pool EXCEPT !.at = "ended"] /\ pool.at = "shutting_down"
            /\ Finished = Futures
        BY <3>4 DEF ShutDown
      <4>2. pool' = [pool EXCEPT !.at = "ended", !.failed = pool.failed]
        BY <1>1, <4>1 DEF PoolTyped, Pools
      <4>3. pool.failed \in BOOLEAN /\ (~pool.failed => pool.completed = Futures)
        BY <1>1, <4>1 DEF PoolTyped, Pools, PoolInv
      <4> QED BY <4>1, <4>2, <4>3
    <3> QED BY <1>5, <3>1, <3>2, <3>3, <3>4
  <2>2. PoolTyped'
    BY <1>1, <2>1 DEF PoolTyped, Pools
  <2>3. /\ pool'.noted = pool.noted /\ pool'.rows = pool.rows /\ pool'.completed = pool.completed
        /\ pool'.todo = pool.todo /\ pool'.locals = pool.locals /\ pool'.running = pool.running
        /\ pool'.state = pool.state /\ pool'.found = pool.found /\ pool'.at = at
        /\ pool'.failed = failed
    BY <1>1, <2>1 DEF PoolTyped, Pools
  <2>4. pool'.at \in {"submitting", "collecting"} => pool'.found = {}
    BY <1>1, <2>1, <2>3 DEF PoolInv
  <2> QED BY <1>1, <1>2, <1>3, <2>1, <2>2, <2>3, <2>4, PoolMovesOn, SMTT(30)
<1>6. CASE AskFuture
  <2>1. PICK found : /\ pool' = [pool EXCEPT !.scan = @ + 1, !.found = found]
                     /\ found \subseteq Finished \ pool.completed
    BY <1>3, <1>6 DEF AskFuture
  <2>2. PoolTyped'
    <3>1. found \in SUBSET Nat /\ pool.scan + 1 \in Nat
      BY <1>1, <1>3, <2>1 DEF PoolTyped, Pools
    <3>2. PICK scan \in Nat : pool' = [pool EXCEPT !.scan = scan, !.found = found]
      BY <2>1, <3>1
    <3> QED BY <1>1, <3>1, <3>2 DEF PoolTyped, Pools
  <2>3. /\ pool'.noted = pool.noted /\ pool'.rows = pool.rows /\ pool'.completed = pool.completed
        /\ pool'.todo = pool.todo /\ pool'.locals = pool.locals /\ pool'.running = pool.running
        /\ pool'.state = pool.state /\ pool'.found = found /\ pool'.at = pool.at
    BY <1>1, <2>1 DEF PoolTyped, Pools
  <2>4. pool.at = "asking"
    BY <1>6 DEF AskFuture
  <2>5. pool'.at \notin {"closed", "submitting", "collecting", "shutting_down", "ended"}
    BY <2>3, <2>4
  <2> QED BY <1>1, <1>2, <2>1, <2>2, <2>3, <2>5, PoolMovesOn
<1>7. CASE CollectFound
  <2>1. pool.at = "asking"
    BY <1>7 DEF CollectFound
  <2>2. CASE pool.found = {}
    <3>1. pool' = [pool EXCEPT !.at = "submitting"]
      BY <1>7, <2>2 DEF CollectFound
    <3>2. PoolTyped'
      BY <1>1, <3>1 DEF PoolTyped, Pools
    <3>3. /\ pool'.noted = pool.noted /\ pool'.rows = pool.rows /\ pool'.completed = pool.completed
          /\ pool'.todo = pool.todo /\ pool'.locals = pool.locals /\ pool'.running = pool.running
          /\ pool'.state = pool.state /\ pool'.found = pool.found /\ pool'.at = "submitting"
      BY <1>1, <3>1 DEF PoolTyped, Pools
    <3> QED BY <1>1, <1>2, <1>3, <2>1, <2>2, <3>2, <3>3, PoolMovesOn
  <2>3. CASE pool.found # {}
    <3> DEFINE k == CHOOSE k \in pool.found : \A j \in pool.found : k <= j
    <3>1. pool' = [Collected(pool, k) EXCEPT !.found = @ \ {k}]
      BY <1>7, <2>3, Zenon DEF CollectFound
    <3>2. k \in pool.found
      BY <1>3, <2>3, LeastNumber
    <3> HIDE DEF k
    <3>3. Collected(pool, k).found = pool.found
      BY <1>1 DEF Collected, PoolTyped, Pools
    <3>4. pool' = [Collected(pool, k) EXCEPT !.found = pool.found \ {k}]
      BY <3>1, <3>3
    <3>5. PICK j \in Finished \ pool.completed : 
            \E found \in SUBSET (pool.found \ {j}) :
              pool' = [Collected(pool, j) EXCEPT !.found = found]
      BY <1>3, <3>2, <3>4
    <3>6. pool.at \in {"asking", "collecting"}
      BY <2>1
    <3> QED BY <1>2, <3>5, <3>6, FutureCollected
  <2> QED BY <2>2, <2>3
<1>8. CASE CollectRemaining
  <2>1. PICK k \in Finished \ pool.completed : pool' = Collected(pool, k)
    BY <1>8 DEF CollectRemaining
  <2>2. pool.at = "collecting"
    BY <1>8 DEF CollectRemaining
  <2>3. pool.found = {}
    BY <1>1, <2>2 DEF PoolInv
  <2>4. Collected(pool, k) = [Collected(pool, k) EXCEPT !.found = {}]
    BY <1>1, <2>3 DEF Collected, PoolTyped, Pools
  <2>5. pool' = [Collected(pool, k) EXCEPT !.found = {}]
    BY <2>1, <2>4
  <2>6. /\ {} \in SUBSET (pool.found \ {k}) /\ pool.at \in {"asking", "collecting"}
        /\ k \in Finished \ pool.completed /\ script' = script
    BY <2>1, <2>2
  <2> QED BY <1>2, <2>5, <2>6, FutureCollected
<1> QED BY <1>4, <1>5, <1>6, <1>7, <1>8 DEF PoolStep

\* What the worker does, and what becomes of its tasks when it dies.
LEMMA WorkerSteps ==
  ASSUME Inv, WorkerStep \/ WorkerDies, script' = script
  PROVE  PoolInv'
<1>1. PoolInv /\ PoolTyped
  BY DEF Inv, PoolInv
<1> DEFINE States == {"pending", "running", "done", "failed"}
<1>2. /\ pool.state \in Seq(States) /\ DOMAIN pool.state = Futures
      /\ Futures = 1 .. Len(pool.noted) /\ pool.noted \in Seq(Tasks)
      /\ Len(pool.noted) \in Nat /\ Len(pool.state) = Len(pool.noted)
  BY <1>1 DEF PoolTyped, Pools, Futures
<1>3. pool.state \in [Futures -> States]
  BY <1>2
<1> HIDE DEF States
<1>4. /\ pool.running # 0 => pool.running \in Futures /\ pool.state[pool.running] = "running"
      /\ Finished = {k \in Futures : pool.state[k] \in {"done", "failed"}}
      /\ \A k \in Futures : k # 0
  BY <1>1, <1>2 DEF PoolInv, Finished
<1>5. ASSUME NEW state \in [Futures -> States], NEW running \in Futures \cup {0},
             NEW dead \in BOOLEAN, NEW broken \in BOOLEAN, pool.at # "closed",
             \A k \in Finished : state[k] = pool.state[k],
             running # 0 => state[running] = "running",
             pool' = [pool EXCEPT !.state = state, !.running = running, !.dead = dead,
                                  !.broken = broken]
      PROVE  PoolInv'
  <2>1. state \in Seq(States) /\ Len(state) = Len(pool.noted) /\ running \in Nat
    BY <1>2, <1>5
  <2>2. /\ pool'.state = state /\ pool'.running = running /\ pool'.at = pool.at
        /\ pool'.noted = pool.noted /\ pool'.rows = pool.rows
        /\ pool'.completed = pool.completed /\ pool'.todo = pool.todo
        /\ pool'.locals = pool.locals /\ pool'.found = pool.found /\ pool'.failed = pool.failed
    BY <1>1, <1>5 DEF PoolTyped, Pools
  <2>3. PoolTyped'
    <3>1. Len(pool'.state) = Len(pool'.noted) /\ Len(pool'.noted) <= Len(pool'.todo)
      BY <1>1, <2>1, <2>2 DEF PoolTyped, Pools
    <3> QED BY <1>1, <1>5, <2>1, <3>1 DEF PoolTyped, Pools, States
  <2>4. \A k \in Finished : pool'.state[k] = pool.state[k]
    BY <1>5, <2>2
  <2>5. pool'.running # 0 => pool'.running \in Futures /\ pool'.state[pool'.running] = "running"
    BY <1>5, <2>2
  <2> QED BY <1>5, <2>2, <2>3, <2>4, <2>5, FutureGetsOn
<1>6. Futures # {} => pool.at # "closed"
  BY <1>1, ClosedPoolType DEF PoolInv, Futures
<1>7. CASE TakeTask
  <2>1. PICK k \in Futures :
          /\ pool.state[k] = "pending"
          /\ \/ pool' = [pool EXCEPT !.running = k, !.state[k] = "running"]
             \/ pool' = [pool EXCEPT !.state[k] = "failed"]
    BY <1>7 DEF TakeTask
  <2>2. pool.running = 0 /\ pool.dead \in BOOLEAN /\ pool.broken \in BOOLEAN
    BY <1>1, <1>7 DEF TakeTask, PoolTyped, Pools
  <2>3. CASE pool' = [pool EXCEPT !.running = k, !.state[k] = "running"]
    <3> DEFINE state == [pool.state EXCEPT ![k] = "running"]
    <3>1. /\ state \in [Futures -> States] /\ state[k] = "running"
          /\ \A j \in Finished : state[j] = pool.state[j]
      BY <1>3, <1>4, <2>1 DEF States
    <3>2. pool' = [pool EXCEPT !.state = state, !.running = k, !.dead = pool.dead,
                               !.broken = pool.broken]
      BY <1>1, <2>3 DEF PoolTyped, Pools
    <3> HIDE DEF state
    <3> QED BY <1>5, <1>6, <2>2, <3>1, <3>2
  <2>4. CASE pool' = [pool EXCEPT !.state[k] = "failed"]
    <3> DEFINE state == [pool.state EXCEPT ![k] = "failed"]
    <3>1. state \in [Futures -> States] /\ \A j \in Finished : state[j] = pool.state[j]
      BY <1>3, <1>4, <2>1 DEF States
    <3>2. pool' = [pool EXCEPT !.state = state, !.running = 0, !.dead = pool.dead,
                               !.broken = pool.broken]
      BY <1>1, <2>2, <2>4 DEF PoolTyped, Pools
    <3> HIDE DEF state
    <3> QED BY <1>5, <1>6, <2>2, <3>1, <3>2
  <2> QED BY <2>1, <2>3, <2>4
<1>8. CASE TaskEnds
  <2>1. PICK s \in {"done", "failed"} :
          pool' = [pool EXCEPT !.running = 0, !.state[pool.running] = s]
    BY <1>8 DEF TaskEnds
  <2> DEFINE state == [pool.state EXCEPT ![pool.running] = s]
  <2>2. pool.running \in Futures /\ pool.state[pool.running] = "running" /\ s \in States
    BY <1>4, <1>8 DEF TaskEnds, States
  <2>3. state \in [Futures -> States] /\ \A j \in Finished : state[j] = pool.state[j]
    BY <1>3, <1>4, <2>2
  <2>4. pool.dead \in BOOLEAN /\ pool.broken \in BOOLEAN
    BY <1>1 DEF PoolTyped, Pools
  <2>5. pool' = [pool EXCEPT !.state = state, !.running = 0, !.dead = pool.dead,
                             !.broken = pool.broken]
    BY <1>1, <2>1 DEF PoolTyped, Pools
  <2> HIDE DEF state
  <2> QED BY <1>5, <1>6, <2>2, <2>3, <2>4, <2>5
<1>9. CASE PoolBreaks
  <2> DEFINE state == [k \in Futures |-> IF k \in Finished THEN pool.state[k] ELSE "failed"]
  <2>1. state \in [Futures -> States] /\ \A j \in Finished : state[j] = pool.state[j]
    BY <1>3, <1>4 DEF States
  <2>2. pool' = [pool EXCEPT !.broken = TRUE, !.running = 0, !.state = state] /\ pool.dead
    BY <1>9 DEF PoolBreaks
  <2> HIDE DEF state
  <2>3. pool.dead \in BOOLEAN /\ pool.at # "closed"
    BY <1>1, <2>2 DEF PoolTyped, Pools, PoolInv, ClosedPool
  <2>4. pool' = [pool EXCEPT !.state = state, !.running = 0, !.dead = pool.dead, !.broken = TRUE]
    BY <1>1, <2>2 DEF PoolTyped, Pools
  <2> QED BY <1>5, <2>1, <2>3, <2>4
<1>10. CASE WorkerDies
  <2>1. pool' = [pool EXCEPT !.dead = TRUE] /\ pool.running # 0
    BY <1>10 DEF WorkerDies
  <2>2. pool' = [pool EXCEPT !.state = pool.state, !.running = pool.running, !.dead = TRUE,
                             !.broken = pool.broken]
    BY <1>1, <2>1 DEF PoolTyped, Pools
  <2>3. pool.broken \in BOOLEAN /\ pool.at # "closed" /\ pool.running \in Futures \cup {0}
    BY <1>1, <1>4, <1>6, <2>1 DEF PoolTyped, Pools
  <2>4. pool.running # 0 => pool.state[pool.running] = "running"
    BY <1>4
  <2> QED BY <1>3, <1>5, <2>2, <2>3, <2>4
<1> QED BY <1>7, <1>8, <1>9, <1>10 DEF WorkerStep

\* The executor of a sweep is created.
LEMMA PoolOpened ==
  ASSUME Inv, DataReady, script.program \in Sweeps
  PROVE  PoolInv'
<1>1. PoolInv /\ ScriptInv
  BY DEF Inv
<1> DEFINE todo == SweepTasks(script.program)
           n    == script.plan.n_runs
           p    == [NoTask EXCEPT !.n_runs = n]
<1>2. todo \in Seq(Combos) /\ n \in Nat
  BY <1>1, SweepTasksType DEF ScriptInv, Plans
<1>3. p \in Tasks /\ p.n_runs = n
  BY <1>2 DEF NoTask, Task, Combo, Tasks, Rings
<1>4. /\ pool' = [ClosedPool EXCEPT !.at = "submitting", !.program = script.program, !.todo = todo,
                                    !.locals.n_runs = n]
      /\ script' = [script EXCEPT !.at = "sweeping"]
  BY DEF DataReady, OpenPool
<1>5. script'.at = "sweeping" /\ script'.plan.n_runs = n
  BY <1>1, <1>4 DEF ScriptInv
<1>6. pool' = [ClosedPool EXCEPT !.at = "submitting", !.program = script.program, !.todo = todo,
                                 !.locals = p]
  BY <1>4 DEF ClosedPool
<1> HIDE DEF todo, n, p
<1>7. /\ pool'.at = "submitting" /\ pool'.todo = todo /\ pool'.noted = <<>> /\ pool'.state = <<>>
      /\ pool'.locals = p /\ pool'.running = 0 /\ pool'.rows = <<>>
      /\ pool'.completed = {} /\ pool'.found = {}
  BY <1>6, ClosedPoolType DEF Pools
<1>8. PoolTyped'
  <2>1. Len(pool'.state) = Len(pool'.noted) /\ Len(pool'.noted) <= Len(pool'.todo)
    BY <1>2, <1>7
  <2>2. "submitting" \in {"closed", "submitting", "asking", "collecting", "shutting_down", "ended"}
    OBVIOUS
  <2>3. pool' \in Pools
    BY <1>2, <1>3, <1>6, <2>2, ClosedPoolType DEF Pools
  <2> QED BY <2>1, <2>3 DEF PoolTyped
<1>9. Futures' = {} /\ RowsInv'
  BY <1>7 DEF Futures, RowsInv
<1> QED BY <1>3, <1>5, <1>7, <1>8, <1>9 DEF PoolInv

\* Every step keeps the pool as it should be.
LEMMA PoolKept ==
  ASSUME Inv, Next
  PROVE  PoolInv'
<1>1. PoolInv /\ PoolTyped /\ ScriptInv /\ script \in Scripts /\ UNCHANGED host
  BY FilesAlways DEF Inv, PoolInv, ScriptInv, Scripts
<1>2. ASSUME pool' = pool, script' = script
      PROVE  PoolInv'
  BY <1>1, <1>2, PoolStays DEF PoolInv
<1>3. CASE ScriptStep
  <2>1. CASE PlanRound
    <3>1. pool' = pool /\ script.at = "planning" /\ script'.at \notin {"saved", "leaving"}
      BY <1>1, <2>1 DEF PlanRound, Scripts
    <3> QED BY <1>1, <3>1, PoolStays DEF PoolInv
  <2>2. CASE DataMissing \/ RoundsEnd \/ Ask \/ AppEnds \/ AppCalls \/ AppBenchmarks
    <3>1. /\ pool' = pool /\ script.at \notin {"sweeping", "saved", "leaving"}
          /\ script'.at \notin {"saved", "leaving"}
      BY <1>1, <2>2 DEF DataMissing, RoundsEnd, Ask, AppEnds, AppCalls, AppBenchmarks, Scripts
    <3> QED BY <1>1, <3>1, PoolStays DEF PoolInv
  <2>3. CASE AskFocus \/ RunJob \/ JobEnds
    <3>1. /\ pool' = pool /\ script.at \notin {"sweeping", "saved", "leaving"}
          /\ script'.at \notin {"saved", "leaving"}
      BY <1>1, <2>3 DEF AskFocus, RunJob, JobEnds, NextJob, Scripts
    <3> QED BY <1>1, <3>1, PoolStays DEF PoolInv
  <2>4. CASE DataReady
    <3>1. CASE script.program \in Sweeps
      BY <2>4, <3>1, PoolOpened
    <3>2. CASE script.program \notin Sweeps
      <4>1. pool' = pool /\ script.at = "generating" /\ script'.at = "jobs"
        BY <1>1, <2>4, <3>2 DEF DataReady, Scripts
      <4> QED BY <1>1, <4>1, PoolStays DEF PoolInv
    <3> QED BY <3>1, <3>2
  <2>5. CASE LeaveData
    <3>1. /\ pool' = pool /\ script'.at = "leaving" /\ script'.plan = script.plan
          /\ script.at \in {"measuring", "jobs", "sweeping", "saved"}
          /\ script.at = "sweeping" => pool.at = "ended"
      BY <1>1, <2>5 DEF LeaveData, ReportRaises, Scripts
    <3>2. pool.at \in {"closed", "ended"}
      BY <1>1, <3>1 DEF PoolInv
    <3> QED BY <1>1, <3>1, <3>2, PoolStays
  <2>6. CASE SaveRows
    <3>1. script.at = "sweeping" /\ pool.at = "ended"
      BY <2>6 DEF SaveRows
    <3>2. CASE script' = [script EXCEPT !.at = "saved", !.saved = @ + 1] /\ UNCHANGED pool
      <4>1. pool' = pool /\ script'.at = "saved" /\ script'.plan = script.plan
        BY <1>1, <3>2 DEF Scripts
      <4> QED BY <1>1, <3>1, <4>1, PoolStays
    <3>3. CASE pool' = [pool EXCEPT !.failed = TRUE] /\ UNCHANGED script
      <4>1. /\ pool'.noted = pool.noted /\ pool'.rows = pool.rows
            /\ pool'.completed = pool.completed /\ pool'.todo = pool.todo
            /\ pool'.locals = pool.locals /\ pool'.running = pool.running
            /\ pool'.state = pool.state /\ pool'.found = pool.found /\ pool'.at = pool.at
            /\ pool'.failed = TRUE
        BY <1>1, <3>3 DEF PoolTyped, Pools
      <4>2. PoolTyped'
        BY <1>1, <3>3 DEF PoolTyped, Pools
      <4>3. /\ Finished = Futures /\ pool.found \subseteq Finished \ pool.completed
            /\ pool'.at = "ended" /\ pool.at # "closed" /\ script' = script
        BY <1>1, <3>1, <3>3, <4>1 DEF PoolInv
      <4> QED BY <3>1, <4>1, <4>2, <4>3, PoolMovesOn
    <3> QED BY <2>6, <3>2, <3>3 DEF SaveRows
  <2>7. CASE NextRound
    <3>1. pool' = ClosedPool /\ script'.at \in {"raised", "planning"}
      BY <1>1, <2>7 DEF NextRound, Scripts
    <3>2. PoolTyped' /\ Futures' = {} /\ RowsInv'
      BY <3>1, ClosedPoolType DEF PoolTyped, Futures, RowsInv
    <3> QED BY <3>1, <3>2, ClosedPoolType DEF PoolInv
  <2> QED BY <1>3, <2>1, <2>2, <2>3, <2>4, <2>5, <2>6, <2>7 DEF ScriptStep
<1>4. CASE (PoolStep \/ BodyRaises) /\ UNCHANGED scriptVars
  BY <1>4, PoolLoops DEF scriptVars
<1>5. CASE (WorkerStep \/ WorkerDies) /\ UNCHANGED scriptVars
  BY <1>5, WorkerSteps DEF scriptVars
<1>6. CASE UNCHANGED <<pool, scriptVars>>
  BY <1>2, <1>6 DEF scriptVars
<1> QED BY <1>3, <1>4, <1>5, <1>6, StepKinds

-------------------------------------------------------------------------------
(* The invariant, at the start and ever after.                             *)

\* The invariant holds at the start.
LEMMA InitInv ==
  ASSUME Init
  PROVE  Inv
<1>1. FilesInit /\ BenchInit /\ FocusInit /\ PoolInit /\ answer = [op |-> "none"]
  BY DEF Init
<1>2. PICK program \in Programs :
        script = [program |-> program, round |-> 1, job |-> 1, saved |-> 0,
                  failed |-> FALSE, zero |-> FALSE, plan |-> Refused,
                  at |-> IF program = "application" THEN "calling" ELSE "planning"]
  BY DEF Init
<1>3. program \in ProgramNames
  BY ScriptsAssumption DEF ProgramNames
<1>4. /\ script \in Scripts /\ script.at \in {"calling", "planning"} /\ script.at \notin InRound
      /\ script.at = "calling" <=> script.program = "application"
  BY <1>2, <1>3 DEF Scripts, InRound, Plans, Refused
<1>5. /\ host \in Host /\ evict = FreshConfig
      /\ disk = [l \in Level |-> [k \in Kinds |-> NoFile]] /\ mgr = [l \in Level |-> Closed]
  BY <1>1 DEF FilesInit
<1>6. /\ Closed \in Managers /\ Closed.at = "closed" /\ Closed.raised = FALSE
  <2>1. Shapes(0, 0, 0) \in Shape
    <3>1. \A x \in Int : <<0, x>> \in Int \X Int /\ <<1, x>> \in Int \X Int
      OBVIOUS
    <3>2. 0 \div 2 = 0
      OBVIOUS
    <3> QED BY <3>1, <3>2 DEF Shapes, Shape
  <2>2. 1 \in DOMAIN FileKind
    BY DEF FileKind
  <2> HIDE DEF Shapes, Shape, FileKind
  <2> QED BY <2>1, <2>2 DEF Closed, Managers
<1>7. FilesInv
  <2>1. NoFile \in Extents /\ FreshConfig \in Configs
    BY DEF NoFile, Extents, FreshConfig, Configs
  <2>2. FilesTyped
    BY <1>5, <1>6, <2>1 DEF FilesTyped
  <2>3. ASSUME NEW l \in Level
        PROVE  Progress(mgr[l], disk[l], Asked(l), evict)
    <3>1. mgr[l].at = "closed" /\ mgr[l].raised = FALSE
          /\ disk[l] = [k \in Kinds |-> NoFile]
      BY <1>5, <1>6
    <3> QED BY <3>1 DEF Progress
  <2> QED BY <2>2, <2>3 DEF FilesInv
<1>8. ScriptInv
  BY <1>1, <1>4 DEF ScriptInv, Scripts, InRound
<1>9. focus.at = "idle" /\ focus.result = "none" /\ FocusInv
  <2>1. NoArgs \in FocusCalls
    <3>1. "float32" \in Dtype
      BY DEF Dtype, ItemSize
    <3> QED BY <3>1 DEF NoArgs, FocusCalls, Focus
  <2>2. [f \in Focus |-> Absent] \in [Focus -> Times \cup {Absent}]
    OBVIOUS
  <2>3. focus.at = "idle" /\ focus.result = "none"
    BY <1>1 DEF FocusInit
  <2> HIDE DEF NoArgs
  <2>4. focus \in [at : Called \cup Focus \cup {"generating", "leaving"}, args : FocusCalls,
                   n_runs : Nat, times : [Focus -> Times \cup {Absent}], failed : BOOLEAN,
                   result : Focus \cup {"none"}]
    BY <1>1, <2>1, <2>2 DEF FocusInit, Called
  <2> QED BY <2>3, <2>4 DEF FocusInv, Called
<1>10. OuterTurn /\ InnerTurn
  <2>1. \A l \in Level : mgr[l].at = "closed" /\ mgr[l].at \in At_Rest
    BY <1>5, <1>6 DEF At_Rest
  <2>2. "outer" \in Level /\ "inner" \in Level
    BY DEF Level
  <2>3. focus.at \in Called /\ focus.at \notin Focus
    BY <1>9 DEF Called, Focus
  <2> QED BY <1>4, <1>9, <2>1, <2>2, <2>3 DEF OuterTurn, InnerTurn
<1>11. bench = NoBench /\ bench.at = "idle" /\ BenchTyped
  BY <1>1, NoBenchType DEF BenchInit, BenchTyped
<1>12. BenchInv
  <2>1. CollectorBackOn
    BY <1>1 DEF BenchInit, CollectorBackOn
  <2>2. OwnDataWraps
    BY <1>11 DEF OwnDataWraps
  <2>3. "idle" \notin Half \cup {"returned"}
    BY DEF Half
  <2> QED BY <1>11, <2>1, <2>2, <2>3 DEF BenchInv
<1>13. PoolInv
  <2>1. pool = ClosedPool
    BY <1>1 DEF PoolInit
  <2>2. PoolTyped /\ RowsInv /\ Futures = {}
    BY <2>1, ClosedPoolType DEF PoolTyped, Futures, RowsInv
  <2>3. script.at \notin {"saved", "leaving"}
    BY <1>4
  <2> QED BY <2>1, <2>2, <2>3, ClosedPoolType DEF PoolInv
<1>14. BenchTurn
  <2>1. pool.running = 0
    BY <1>1, ClosedPoolType DEF PoolInit
  <2> QED BY <1>11, <2>1 DEF BenchTurn
<1> QED BY <1>7, <1>8, <1>9, <1>10, <1>12, <1>13, <1>14 DEF Inv

\* The invariant is about the variables of the system.
LEMMA Stutters ==
  ASSUME Inv, UNCHANGED vars
  PROVE  Inv'
<1>1. /\ host' = host /\ evict' = evict /\ disk' = disk /\ mgr' = mgr /\ bench' = bench
      /\ gc' = gc /\ focus' = focus /\ pool' = pool /\ script' = script /\ answer' = answer
  BY DEF vars
<1>2. FilesInv'
  BY <1>1, FilesKept DEF Inv, FilesMove, fileVars, Asked, Wanted
<1>3. BenchInv'
  BY <1>1, BenchKept DEF Inv, BenchMove, benchVars
<1>4. PoolInv'
  BY <1>1, PoolStays DEF Inv, PoolInv
<1>5. ScriptInv' /\ OuterTurn' /\ InnerTurn'
  <2>1. Rounds' = Rounds
    BY <1>1, RoundsSame
  <2>2. CurrentRound' = CurrentRound
    BY <1>1, <2>1 DEF CurrentRound
  <2> QED BY <1>1, <2>1, <2>2 DEF Inv, ScriptInv, OuterTurn, InnerTurn
<1>6. FocusInv'
  <2>1. focus.args \in FocusCalls /\ host' = host
    BY <1>1 DEF Inv, FocusInv
  <2>2. FocusRuns(focus.args)' = FocusRuns(focus.args)
    BY <1>1 DEF FocusRuns, FocusPlan, Budget
  <2> QED BY <1>1, <2>1, <2>2 DEF Inv, FocusInv
<1>7. BenchTurn'
  BY <1>1 DEF Inv, BenchTurn
<1> QED BY <1>2, <1>3, <1>4, <1>5, <1>6, <1>7 DEF Inv

\* The inductive invariant of the scripts.
THEOREM BenchSpecInv == Spec => []Inv
<1>1. Init => Inv
  BY InitInv
<1>2. ASSUME Inv, [Next]_vars
      PROVE  Inv'
  <2>1. CASE Next
    <3>1. FilesInv'
      <4>1. FilesMove /\ UNCHANGED host /\ script'.program = script.program
        BY <1>2, <2>1, FilesAlways DEF Inv
      <4> QED BY <1>2, <4>1, FilesKept DEF Inv, Asked, Wanted
    <3>2. ScriptInv'
      BY <1>2, <2>1, ScriptKept DEF Inv
    <3>3. OuterTurn' /\ InnerTurn' /\ FocusInv' /\ BenchTurn' /\ PoolInv'
      BY <1>2, <2>1, OuterKept, InnerKept, FocusKept, BenchTurnKept, PoolKept
    <3>4. BenchInv'
      BY <1>2, <2>1, BenchAlways, BenchKept DEF Inv
    <3> QED BY <3>1, <3>2, <3>3, <3>4 DEF Inv
  <2>2. CASE UNCHANGED vars
    BY <1>2, <2>2, Stutters
  <2> QED BY <1>2, <2>1, <2>2
<1> QED BY <1>1, <1>2, PTL DEF Spec

-------------------------------------------------------------------------------
(* What follows.                                                           *)

\* Type correctness of the benchmark tools.
LEMMA InvBenchTypeOK ==
  ASSUME Inv
  PROVE  BenchTypeOK
<1>1. \A l \in Level :
        /\ mgr[l].at \in {"closed", "generating", "open", "removing", "left"}
        /\ mgr[l].next \in DOMAIN FileKind
        /\ mgr[l].at = "open" => mgr[l].open = mgr[l].wanted
  BY DEF Inv, FilesInv, FilesTyped, Managers, Progress
<1>2. /\ bench.at \in Half \cup {"idle", "returned", "raised"} /\ bench.by \in Process
      /\ gc \in [Process -> BOOLEAN] /\ bench.i \in Nat
  BY DEF Inv, BenchInv, BenchTyped
<1>3. bench.at \in Half => bench.i \in 0 .. HalfRows(bench.job, bench.at)
  <2>1. ASSUME bench.at \in Half
        PROVE  HalfRows(bench.job, bench.at) \in Nat
    BY <2>1, HalvesFit DEF Inv, BenchInv, BenchTyped
  <2> QED BY <1>2, <2>1 DEF Inv, BenchInv
<1>4. focus.result \in Focus \cup {"none"}
  BY DEF Inv, FocusInv
<1>5. pool.completed \subseteq Finished /\ pool.running \in Futures \cup {0}
  BY DEF Inv, PoolInv
<1> QED BY <1>1, <1>2, <1>3, <1>4, <1>5 DEF BenchTypeOK

\* A context that was left keeps only what could not be removed.
LEMMA InvFilesRemoved ==
  ASSUME Inv
  PROVE  FilesRemoved
  BY DEF Inv, FilesInv, Progress, FilesRemoved

\* The turns of the contexts and of the benchmarks fit together.
LEMMA InvUsedDataStaysOpen ==
  ASSUME Inv
  PROVE  UsedDataStaysOpen
<1>1. ASSUME bench.at \in Half, script.program # "application"
      PROVE  mgr[DataLevel].at = "open"
  <2>1. bench.at # "idle" /\ bench.by \in {"main", "worker"}
    BY <1>1 DEF Half, Inv, BenchInv, BenchTyped, Process
  <2>2. CASE focus.at \in Focus
    BY <2>2 DEF DataLevel, Inv, InnerTurn
  <2>3. CASE focus.at \notin Focus
    <3>1. script.at \in {"sweeping", "measuring"}
      BY <1>1, <2>1, <2>3 DEF Inv, BenchTurn
    <3> QED BY <2>3, <3>1 DEF DataLevel, Inv, OuterTurn
  <2> QED BY <2>2, <2>3
<1>2. ASSUME Futures # Finished
      PROVE  mgr["outer"].at = "open"
  <2>1. pool.at # "closed" /\ pool.at # "ended"
    BY <1>2, ClosedPoolType DEF Inv, PoolInv, Futures, Finished
  <2>2. script.at = "sweeping"
    BY <2>1 DEF Inv, PoolInv
  <2> QED BY <2>2 DEF Inv, OuterTurn
<1> QED BY <1>1, <1>2 DEF UsedDataStaysOpen

\* The array for the cache is as large as it was configured.
LEMMA InvEvictArrayFillsCache ==
  ASSUME Inv
  PROVE  EvictArrayFillsCache
<1> SUFFICES ASSUME NEW l \in Level, mgr[l].at = "open"
             PROVE  LET size == disk[l]["evict"][2] * disk[l]["evict"][3]
                    IN size > 0 /\ size <= evict.bytes
                       /\ evict.bytes < size + disk[l]["evict"][3]
  BY DEF EvictArrayFillsCache
<1>1. /\ evict \in Configs /\ IsRead(evict) /\ disk[l]["evict"] = EvictFile(evict)
  BY DEF Inv, FilesInv, FilesTyped, Progress
<1>2. /\ evict.dtype \in Dtype /\ evict.item_size = ItemSize[evict.dtype]
      /\ evict.bytes \in Nat /\ evict.bytes >= 8
  BY <1>1 DEF Configs, IsRead
<1>3. evict.item_size \in {4, 8}
  BY <1>2 DEF Dtype, ItemSize
<1> DEFINE rows == evict.bytes \div evict.item_size
<1>4. /\ rows \in Nat /\ rows * evict.item_size <= evict.bytes
      /\ evict.bytes < rows * evict.item_size + evict.item_size /\ rows * evict.item_size > 0
  BY <1>2, <1>3
<1>5. disk[l]["evict"][2] = rows /\ disk[l]["evict"][3] = evict.item_size
  BY <1>1, <1>2 DEF EvictFile, EvictShape
<1> HIDE DEF rows
<1> QED BY <1>4, <1>5

\* Every time that enters the mean was taken.
LEMMA InvTimesAreMeasured ==
  ASSUME Inv
  PROVE  TimesAreMeasured
<1> SUFFICES ASSUME bench.at = "returned", NEW h \in Half
             PROVE  LET n == HalfLen(bench.job.n_runs, h)
                    IN TrimmedTimes(n) \subseteq bench.timed[h] /\ bench.timed[h] \subseteq 0 .. n - 1
  BY DEF TimesAreMeasured
<1> DEFINE n == HalfLen(bench.job.n_runs, h)
<1>1. bench.at \notin Half
  BY DEF Half
<1>2. bench.timed[h] = 0 .. n - 1
  BY <1>1 DEF Inv, BenchInv, MeasuredRuns
<1>3. n \in Nat
  BY HalvesFit DEF Inv, BenchInv, BenchTyped
<1> HIDE DEF n
<1>4. RoundedTenth(n) \in Nat
  BY <1>3 DEF RoundedTenth
<1>5. AtLeastOne(RoundedTenth(n)) \in Nat
  BY <1>4 DEF AtLeastOne
<1>6. TrimmedTimes(n) \subseteq 0 .. n - 1
  BY <1>3, <1>5 DEF TrimmedTimes
<1> QED BY <1>2, <1>6 DEF n

\* Every N-th run is measured with the calculation.
LEMMA InvCalcsEvenly ==
  ASSUME Inv
  PROVE  CalcsEvenly
<1> SUFFICES ASSUME bench.at = "returned", bench.job.kind = "raw_bench_with_calc", NEW h \in Half,
                    NEW first \in 0 .. HalfLen(bench.job.n_runs, h) - bench.job.calc_every
             PROVE  Cardinality(bench.calcs[h] \cap (first .. first + bench.job.calc_every - 1)) = 1
  BY DEF CalcsEvenly
<1> DEFINE n == HalfLen(bench.job.n_runs, h)
           c == bench.job.calc_every
<1>1. bench.at \notin Half
  BY DEF Half
<1>2. bench.calcs[h] = CalcMask(n, c) \cap (0 .. n - 1)
  BY <1>1 DEF Inv, BenchInv, MeasuredRuns
<1>3. n \in Nat /\ c \in Nat \ {0}
  <2>1. bench.job \in JobArgs /\ RowsMatch(bench.job)
    BY DEF Inv, BenchInv, BenchTyped
  <2>2. n \in Nat
    BY <2>1, HalvesFit
  <2> QED BY <2>1, <2>2 DEF JobArgs
<1> HIDE DEF n, c
<1>4. bench.calcs[h] = CalcMask(n, c)
  BY <1>2 DEF CalcMask
<1>5. first \in Nat /\ first + c <= n
  BY <1>3 DEF n, c
<1>6. PICK i \in first .. first + c - 1 : CalcMask(n, c) \cap (first .. first + c - 1) = {i}
  BY <1>3, <1>5, CalculationsEvenly
<1>7. Cardinality({i}) = 1
  BY FS_Singleton
<1> QED BY <1>4, <1>6, <1>7 DEF c

\* The answer is the faster focus, or the fallback.
LEMMA InvFocusAnswers ==
  ASSUME Inv
  PROVE  FocusAnswers
<1>1. Absent \notin Times
  BY TimesAssumption DEF Absent
<1> QED BY <1>1 DEF Inv, FocusInv, FocusAnswers

\* Questions get the answers that determine_num_runs and generate_rand_memmap_arr give.
LEMMA InvAnswers ==
  ASSUME Inv
  PROVE  PlanLeavesLessThanARun /\ ValuesInRange
<1>1. CASE answer = [op |-> "none"]
  <2>1. answer.op = "none"
    BY <1>1
  <2> QED BY <2>1 DEF PlanLeavesLessThanARun, ValuesInRange
<1>2. CASE answer \in Questions
  <2>1. answer.op = "determine_num_runs" => answer.args \in PlanArgs
    BY <1>2, ApplicationAssumption
  <2>2. answer.op = "generate_rand_memmap_arr" =>
          IntegerType(answer.info) /\ answer.mul \in Int /\ answer.sub \in answer.info.min .. answer.info.max
    BY <1>2, ApplicationAssumption
  <2> QED BY <2>1, <2>2, PlanLeavesLittle, RandomStaysInRange DEF PlanLeavesLessThanARun, ValuesInRange
<1> QED BY <1>1, <1>2 DEF Inv, ScriptInv

\* One row for each task, and each is of the task it names.
LEMMA InvRowsTellTheirTask ==
  ASSUME Inv
  PROVE  RowsTellTheirTask
<1>1. PoolInv /\ PoolTyped /\ RowsInv /\ ScriptInv
  BY DEF Inv, PoolInv
<1> DEFINE D == DOMAIN pool.rows
           T == {pool.rows[i].task : i \in D}
           f == [i \in D |-> pool.rows[i].task]
<1>2. D = 1 .. Len(pool.rows) /\ Len(pool.rows) \in Nat
  BY <1>1 DEF PoolTyped, Pools
<1>3. f \in Bijection(D, T)
  <2>1. \A i, j \in D : f[i] = f[j] => i = j
    BY <1>1 DEF RowsInv
  <2>2. f \in [D -> T] /\ \A t \in T : \E i \in D : f[i] = t
    OBVIOUS
  <2> HIDE DEF D, T, f
  <2> QED BY <2>1, <2>2 DEF Bijection, Injection, Surjection, IsInjective
<1>4. Cardinality(T) = Len(pool.rows)
  <2>1. IsFiniteSet(D) /\ Cardinality(D) = Len(pool.rows)
    BY <1>2, FS_Interval
  <2> HIDE DEF D, T, f
  <2> QED BY <1>3, <2>1, FS_Bijection DEF ExistsBijection
<1>5. {r.task : r \in {pool.rows[i] : i \in D}} = T
  OBVIOUS
<1>6. \A k \in T : k \in Futures /\ pool.state[k] = "done"
  BY <1>1 DEF RowsInv, PoolInv, Finished
<1>7. ASSUME pool.at = "ended", ~pool.failed
      PROVE  {k \in Futures : pool.state[k] = "done"} = T
  <2>1. pool.completed = Futures
    BY <1>1, <1>7 DEF PoolInv
  <2>2. \A k \in Futures : pool.state[k] = "done" => k \in T
    BY <1>1, <2>1 DEF RowsInv
  <2> QED BY <1>6, <2>2
<1>8. \A i \in D : pool.rows[i].label = Task(pool.todo[pool.rows[i].task], script.plan.n_runs)
  BY <1>1 DEF RowsInv, PoolInv, Finished
<1> HIDE DEF f
<1> QED BY <1>4, <1>5, <1>7, <1>8 DEF RowsTellTheirTask

\* The files of an open context, and the buffer, take no more than was allowed.
LEMMA OpenFits ==
  ASSUME Inv, NEW l \in Level, mgr[l].at = "open", NEW a \in PlanArgs,
         DetermineNumRuns(a) # Refused, Sizes(a).block_size > 1,
         NEW n \in Nat, n <= DetermineNumRuns(a).n_runs,
         mgr[l].shapes = Shapes(n, Sizes(a).block_size, Sizes(a).maxlen),
         Asked(l) \in {Kinds, AllButFill}, Asked(l) = Kinds => a.with_fill
  PROVE  (ItemsOnDisk(l) + Sizes(a).maxlen) * a.elem_bytes <= a.total_byte_limit
<1> DEFINE shapes   == Shapes(n, Sizes(a).block_size, Sizes(a).maxlen)
           items(k) == shapes[k][1] * shapes[k][2]
           planned  == IF a.with_fill THEN items("fill") ELSE 0
           onDisk(k) == disk[l][k][1] * disk[l][k][2]
<1>1. /\ (items("data") + items("warmup") + items("offset") + planned + Sizes(a).maxlen)
             * a.elem_bytes <= a.total_byte_limit
      /\ shapes \in [data : Nat \X Nat, warmup : Nat \X Nat, offset : Nat \X Nat,
                     fill : Nat \X Nat]
  BY FewerFilesFit
<1>2. /\ \A k \in Asked(l) \ {"evict"} : disk[l][k] = Shaped(mgr[l], k)
      /\ \A k \in Kinds \ Asked(l) : disk[l][k] = NoFile
  BY DEF Inv, FilesInv, Progress
<1> HIDE DEF shapes
<1>3. \A k \in Asked(l) \ {"evict"} : onDisk(k) = items(k)
  BY <1>2 DEF Shaped, shapes
<1>4. {"data", "warmup", "offset"} \subseteq Asked(l) \ {"evict"}
  BY DEF Kinds, AllButFill
<1>5. items("data") \in Nat /\ items("warmup") \in Nat /\ items("offset") \in Nat
      /\ items("fill") \in Nat
  BY <1>1
<1>6. onDisk("fill") \in Nat /\ onDisk("fill") <= planned
  <2>1. CASE Asked(l) = Kinds
    BY <1>3, <1>5, <2>1 DEF Kinds
  <2>2. CASE Asked(l) = AllButFill
    <3>1. disk[l]["fill"] = NoFile
      BY <1>2, <2>2 DEF Kinds, AllButFill
    <3>2. onDisk("fill") = 0
      BY <3>1 DEF NoFile
    <3> QED BY <1>5, <3>2
  <2> QED BY <2>1, <2>2
<1>7. ItemsOnDisk(l) = items("data") + items("warmup") + items("offset") + onDisk("fill")
  BY <1>3, <1>4 DEF ItemsOnDisk
<1>8. a.elem_bytes \in Nat /\ Sizes(a).maxlen \in Nat /\ a.total_byte_limit \in Nat
      /\ planned \in Nat
  <2>1. DetermineNumRuns(a) \in Plans /\ DetermineNumRuns(a).maxlen = Sizes(a).maxlen
    BY PlanType
  <2> QED BY <1>5, <2>1 DEF PlanArgs, Plans
<1> HIDE DEF items, onDisk, planned
<1> DEFINE x == ItemsOnDisk(l) + Sizes(a).maxlen
           y == items("data") + items("warmup") + items("offset") + planned + Sizes(a).maxlen
<1>9. x \in Nat /\ y \in Nat /\ x <= y
  BY <1>5, <1>6, <1>7, <1>8
<1>10. y * a.elem_bytes <= a.total_byte_limit
  BY <1>1 DEF items, planned
<1> HIDE DEF x, y
<1>11. x * a.elem_bytes <= y * a.elem_bytes /\ x * a.elem_bytes \in Nat /\ y * a.elem_bytes \in Nat
  BY <1>8, <1>9
<1>12. x * a.elem_bytes <= a.total_byte_limit
  BY <1>8, <1>10, <1>11
<1> QED BY <1>12 DEF x

\* Both contexts are generated for what was planned.
LEMMA InvFootprintFits ==
  ASSUME Inv
  PROVE  FootprintFits
<1> SUFFICES ASSUME NEW l \in Level, mgr[l].at = "open", Sizes(PlanOf(l)).block_size > 1
             PROVE  (ItemsOnDisk(l) + Sizes(PlanOf(l)).maxlen) * PlanOf(l).elem_bytes
                      <= PlanOf(l).total_byte_limit
  BY DEF FootprintFits
<1>1. FilesInv /\ ScriptInv /\ OuterTurn /\ InnerTurn /\ FocusInv /\ host \in Host
  BY DEF Inv, FilesInv, FilesTyped
<1>2. CASE l = "outer"
  <2> DEFINE a    == CurrentRound.plan
             plan == DetermineNumRuns(a)
  <2>1. script.at \in InRound
    BY <1>1, <1>2 DEF OuterTurn, At_Rest, InRound, ScriptInv
  <2>2. /\ script.round \in DOMAIN Rounds /\ script.plan = plan /\ plan # Refused
        /\ mgr["outer"].shapes = Shapes(plan.n_runs, plan.block_size, plan.maxlen)
    BY <1>1, <2>1 DEF ScriptInv, OuterTurn
  <2>3. a \in PlanArgs /\ CurrentRound \in RoundsOf(script.program) /\ plan \in Plans
    BY <1>1, <2>2, RoundInHand
  <2>4. a.with_fill <=> Wanted(script.program) = Kinds
    BY <2>3 DEF RoundsOf
  <2>5. Asked(l) = Wanted(script.program) /\ Wanted(script.program) \in {Kinds, AllButFill}
    BY <1>2 DEF Asked, Wanted
  <2>6. PlanOf(l) = a
    BY <1>2 DEF PlanOf
  <2> HIDE DEF a
  <2>7. plan.block_size = Sizes(a).block_size /\ plan.maxlen = Sizes(a).maxlen
        /\ plan.n_runs \in Nat /\ plan.n_runs <= plan.n_runs
    BY <2>2, <2>3, PlanType DEF Plans
  <2> QED BY <1>2, <2>2, <2>3, <2>4, <2>5, <2>6, <2>7, OpenFits
<1>3. CASE l = "inner"
  <2> DEFINE a == FocusPlan(focus.args)
  <2>1. focus.at \in Focus \cup {"generating"}
    BY <1>1, <1>3 DEF InnerTurn, At_Rest, FocusInv
  <2>2. /\ focus.at \notin Called /\ focus.args \in FocusCalls /\ ~InvalidFocus(focus.args)
        /\ focus.n_runs = FocusRuns(focus.args) /\ focus.n_runs >= focus.args.calc_every
    BY <1>1, <2>1 DEF FocusInv, Called, Focus
  <2>3. mgr["inner"].shapes = Shapes(focus.n_runs, focus.args.block_size, focus.args.buffer_maxlen)
    BY <1>1, <2>1 DEF InnerTurn
  <2>4. /\ a \in PlanArgs /\ Sizes(a).block_size = focus.args.block_size
        /\ Sizes(a).maxlen = focus.args.buffer_maxlen
        /\ focus.n_runs \in Nat /\ focus.n_runs <= DetermineNumRuns(a).n_runs
        /\ focus.n_runs # 0 => DetermineNumRuns(a) # Refused
        /\ focus.args.calc_every \in Nat \ {0}
    BY <1>1, <2>2, FocusPlanned
  <2>5. focus.n_runs # 0
    BY <2>2, <2>4
  <2>6. Asked(l) = Kinds /\ PlanOf(l) = a /\ a.with_fill
    BY <1>3 DEF Asked, PlanOf, FocusPlan
  <2> HIDE DEF a
  <2> QED BY <1>3, <2>3, <2>4, <2>5, <2>6, OpenFits
<1> QED BY <1>2, <1>3 DEF Level

-------------------------------------------------------------------------------
(* The theorems.                                                           *)

\* The benchmark tools keep to their types: an open context has mapped what it was
\* asked for, no benchmark is further than its rows, what was collected had finished.
THEOREM SpecBenchTypeOK == Spec => []BenchTypeOK
<1>1. Inv => BenchTypeOK
  BY InvBenchTypeOK
<1> QED BY <1>1, BenchSpecInv, PTL

\* temporary_benchmark_data leaves no file behind that could be removed, however its body
\* ended, whatever was generated and whichever file stayed.
THEOREM SpecFilesRemoved == Spec => []FilesRemoved
<1>1. Inv => FilesRemoved
  BY InvFilesRemoved
<1> QED BY <1>1, BenchSpecInv, PTL

\* No context is closed under a benchmark of this process, one of the worker, or a task
\* that is still to map its data, also when the worker dies or an exception ends the body.
THEOREM SpecUsedDataStaysOpen == Spec => []UsedDataStaysOpen
<1>1. Inv => UsedDataStaysOpen
  BY InvUsedDataStaysOpen
<1> QED BY <1>1, BenchSpecInv, PTL

\* The files that are open, and the buffer, take no more than determine_num_runs was
\* allowed, for every machine and every program.
THEOREM SpecFootprintFits == Spec => []FootprintFits
<1>1. Inv => FootprintFits
  BY InvFootprintFits
<1> QED BY <1>1, BenchSpecInv, PTL

\* Whatever an application asks of determine_num_runs, the answer fits and leaves less than
\* a run that wraps takes, and a refusal had no room for a run of either kind.
THEOREM SpecPlanLeavesLessThanARun == Spec => []PlanLeavesLessThanARun
<1>1. Inv => PlanLeavesLessThanARun
  BY InvAnswers
<1> QED BY <1>1, BenchSpecInv, PTL

\* generate_rand_memmap_arr draws all the values that stay in the type, and no others.
THEOREM SpecValuesInRange == Spec => []ValuesInRange
<1>1. Inv => ValuesInRange
  BY InvAnswers
<1> QED BY <1>1, BenchSpecInv, PTL

\* The eviction array is as large as EvictArrConfig says when it is used, after whatever
\* changes to the configuration.
THEOREM SpecEvictArrayFillsCache == Spec => []EvictArrayFillsCache
<1>1. Inv => EvictArrayFillsCache
  BY InvEvictArrayFillsCache
<1> QED BY <1>1, BenchSpecInv, PTL

\* Every run that is to wrap does, with data generated for the sizes of the benchmark.
THEOREM SpecOwnDataWraps == Spec => []OwnDataWraps
<1>1. Inv => OwnDataWraps
  BY DEF Inv, BenchInv
<1> QED BY <1>1, BenchSpecInv, PTL

\* Every time that enters the mean was measured.
THEOREM SpecTimesAreMeasured == Spec => []TimesAreMeasured
<1>1. Inv => TimesAreMeasured
  BY InvTimesAreMeasured
<1> QED BY <1>1, BenchSpecInv, PTL

\* Of any calc_every runs in a row exactly one is measured with its calculation.
THEOREM SpecCalcsEvenly == Spec => []CalcsEvenly
<1>1. Inv => CalcsEvenly
  BY InvCalcsEvenly
<1> QED BY <1>1, BenchSpecInv, PTL

\* no_gc: the collector is on again when no benchmark runs in the process.
THEOREM SpecCollectorBackOn == Spec => []CollectorBackOn
<1>1. Inv => CollectorBackOn
  BY DEF Inv, BenchInv
<1> QED BY <1>1, BenchSpecInv, PTL

\* determine_operation_focus returns the faster focus, or the fallback.
THEOREM SpecFocusAnswers == Spec => []FocusAnswers
<1>1. Inv => FocusAnswers
  BY InvFocusAnswers
<1> QED BY <1>1, BenchSpecInv, PTL

\* The table of a sweep has one row for each task that came to a result, with the
\* parameters of that task.
THEOREM SpecRowsTellTheirTask == Spec => []RowsTellTheirTask
<1>1. Inv => RowsTellTheirTask
  BY InvRowsTellTheirTask
<1> QED BY <1>1, BenchSpecInv, PTL
===============================================================================

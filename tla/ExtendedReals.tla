----------------------------- MODULE ExtendedReals -----------------------------
(***************************************************************************)
(* The floating-point numbers of the statistics buffers: integers up to    *)
(* MaxFinite in magnitude, the two infinities and NaN, with IEEE 754's     *)
(* rules for them and for overflow.  Sums are exact below the overflow;    *)
(* rounding is modelled where it matters, as drift of an accumulator.      *)
(***************************************************************************)
EXTENDS Integers, Sequences

CONSTANT MaxFinite      \* the largest finite value

ASSUME MaxFiniteAssumption == MaxFinite \in Nat

Fin(v) == [kind |-> "finite", val |-> v]
NaN    == [kind |-> "nan", val |-> 0]
PosInf == [kind |-> "infinite", val |-> 1]
NegInf == [kind |-> "infinite", val |-> -1]

Number == {Fin(v) : v \in -MaxFinite .. MaxFinite} \cup {NaN, PosInf, NegInf}

IsFinite(x) == x.kind = "finite"
IsNaN(x)    == x.kind = "nan"
IsInf(x)    == x.kind = "infinite"

Rounded(v) ==
  IF v > MaxFinite THEN PosInf ELSE IF v < -MaxFinite THEN NegInf ELSE Fin(v)

Negative(x) == [x EXCEPT !.val = -@]

Plus(x, y) ==
  CASE IsNaN(x) \/ IsNaN(y)                 -> NaN
    [] IsFinite(x) /\ IsFinite(y)           -> Rounded(x.val + y.val)
    [] IsInf(x) /\ IsInf(y) /\ x # y        -> NaN
    [] IsInf(x) /\ (IsFinite(y) \/ x = y)   -> x
    [] IsFinite(x) /\ IsInf(y)              -> y

Minus(x, y) == Plus(x, Negative(y))

Square(x) ==
  CASE IsNaN(x)    -> NaN
    [] IsInf(x)    -> PosInf
    [] IsFinite(x) -> Rounded(x.val * x.val)

\* x > limit; comparisons with NaN are false.
Above(x, limit) ==
  \/ x = PosInf
  \/ IsFinite(x) /\ x.val > limit

\* What is left of x after an operation that rounds by up to d.
Near(x, d) == IF IsFinite(x) THEN {Rounded(x.val + e) : e \in -d .. d} ELSE {x}

\* The sum of a sequence, from left to right.
Total(s) ==
  LET sum[n \in 0 .. Len(s)] == IF n = 0 THEN Fin(0) ELSE Plus(sum[n - 1], s[n])
  IN  sum[Len(s)]

Mapped(s, F(_)) == [i \in 1 .. Len(s) |-> F(s[i])]
===============================================================================

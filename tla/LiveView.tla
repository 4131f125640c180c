------------------------------- MODULE LiveView -------------------------------
(***************************************************************************)
(* class _InternalCircView of core.pyx.in over an overwriting buffer:      *)
(* indexing, slicing, copying and iterating in logical order, while the    *)
(* owner goes on writing between the calls.                                *)
(***************************************************************************)
EXTENDS OverwriteCircBuffer, Integers, FiniteSets

CONSTANTS
  MaxSsize,       \* PY_SSIZE_T_MAX
  None,           \* an omitted bound of a slice
  Slices,         \* slices: records of start, stop and step
  KeptSlices      \* those whose result a caller keeps

ASSUME NoneAssumption == None \notin Int

\* The values of Py_ssize_t.
PySsize == -MaxSsize - 1 .. MaxSsize

\* An array of twice the capacity could be addressed.  slice.indices raises for other
\* bounds, and for a step of zero; a step that is no Py_ssize_t raises when it is stored.
ASSUME SlicesAssumption ==
  /\ MaxSsize \in Nat /\ 2 * MaxLen <= MaxSsize
  /\ KeptSlices \subseteq Slices
  /\ \A s \in Slices : /\ s.step \in PySsize \ {0}
                        /\ s.start \in Int \cup {None} /\ s.stop \in Int \cup {None}

VARIABLES
  held,           \* an array a caller got from a slice and still uses
  iter            \* an iteration in progress

viewVars == <<buf, write_head, size, policy, returned, held, iter>>

StartPos == GetStartPos(write_head, size)
-------------------------------------------------------------------------------
\* Bounds of a slice, resolved for a sequence of len items (slice.indices).
Resolve(s, len) ==
  LET lower == IF s.step > 0 THEN 0 ELSE -1
      upper == IF s.step > 0 THEN len ELSE len - 1
      clamp(x) == LET y == IF x < 0 THEN x + len ELSE x
                  IN IF y < lower THEN lower ELSE IF y > upper THEN upper ELSE y
  IN [start |-> IF s.start # None THEN clamp(s.start)
                ELSE IF s.step > 0 THEN lower ELSE upper,
      stop  |-> IF s.stop # None THEN clamp(s.stop)
                ELSE IF s.step > 0 THEN upper ELSE lower]

\* The positions that Python's (and NumPy's) slicing selects, in order.
Selected(s, len) ==
  LET r == Resolve(s, len)
      inside(k) == IF s.step > 0 THEN k < r.stop ELSE k > r.stop
      n == Cardinality({j \in 0 .. len - 1 : inside(r.start + j * s.step)})
  IN [j \in 1 .. n |-> r.start + (j - 1) * s.step]

\* The cells buffer_arr[start : stop : step] refers to.
Cells(start, stop, step) ==
  Selected([start |-> start, stop |-> stop, step |-> step], MaxLen)

\* A Py_ssize_t that is assigned x.  What a build does where x does not fit is undefined;
\* here it wraps, and no property looks at such a slice (StepFits).
Ssize(x) == ((x + MaxSsize + 1) % (2 * MaxSsize + 2)) - MaxSsize - 1

Magnitude(x) == IF x < 0 THEN -x ELSE x

\* x / y of C, which drops the fraction whatever the signs.
CDiv(x, y) ==
  LET q == Magnitude(x) \div Magnitude(y)
  IN IF (x < 0) = (y < 0) THEN q ELSE -q

\* Faulty variant: a negative end is handed to NumPy, which counts it from the end.
SliceDown_NegativeEnd(i, n_total, step) ==
  LET n1 == CDiv(i, Ssize(-step)) + 1
      p2 == Ssize(i + n1 * step + MaxLen)
  IN IF Ssize(i + (n_total - 1) * step) >= 0
     THEN [shared |-> TRUE, cells |-> Cells(i, Ssize(i + n_total * step), step)]
     ELSE [shared |-> FALSE,
           cells |-> Cells(i, None, step)
                       \o Cells(p2, Ssize(p2 + (n_total - n1) * step), step)]

\* __getitem__ of a slice with a negative step, from cell i.
SliceDown(i, n_total, step) ==
  LET end   == Ssize(i + n_total * step)
      n1    == CDiv(i, Ssize(-step)) + 1
      p2    == Ssize(i + n1 * step + MaxLen)
      stop2 == Ssize(p2 + (n_total - n1) * step)
      downTo(k) == IF k < 0 THEN None ELSE k
  IN IF Ssize(i + (n_total - 1) * step) >= 0
     THEN [shared |-> TRUE, cells |-> Cells(i, downTo(end), step)]
     ELSE [shared |-> FALSE,
           cells |-> Cells(i, None, step) \o Cells(p2, downTo(stop2), step)]

\* __getitem__ of a slice with a positive step, from cell i.
SliceUp(i, n_total, step) ==
  LET n1 == CDiv(Ssize(MaxLen - i + step - 1), step)
      p2 == Ssize(i + n1 * step - MaxLen)
  IN IF Ssize(i + (n_total - 1) * step) < MaxLen
     THEN [shared |-> TRUE, cells |-> Cells(i, Ssize(i + n_total * step), step)]
     ELSE [shared |-> FALSE,
           cells |-> Cells(i, MaxLen, step)
                       \o Cells(p2, Ssize(p2 + (n_total - n1) * step), step)]

\* __getitem__ of a slice: the cells of the result, and whether it is one piece of
\* the buffer's own array (a NumPy slice) or two pieces copied together.
GetSlice(s) ==
  LET r == Resolve(s, size)
      i == IF r.start + StartPos >= MaxLen THEN r.start + StartPos - MaxLen
           ELSE r.start + StartPos
  IN IF s.step > 0
     THEN IF r.start >= r.stop THEN [shared |-> FALSE, cells |-> <<>>]
          ELSE SliceUp(i, CDiv(Ssize(r.stop - r.start + s.step - 1), s.step), s.step)
     ELSE IF r.start <= r.stop THEN [shared |-> FALSE, cells |-> <<>>]
          ELSE SliceDown(i, CDiv(Ssize(r.stop - r.start + s.step + 1), s.step), s.step)

\* Faulty variant: a negative index counts from the capacity.
GetIndex_FromCapacity(idx) ==
  LET k == IF idx < 0 THEN idx + MaxLen ELSE idx
  IN IF k < 0 \/ k >= size THEN None
     ELSE IF k + StartPos >= MaxLen THEN k + StartPos - MaxLen ELSE k + StartPos

\* __getitem__ of an integer: the cell, or None when it is out of bounds.
GetIndex(idx) ==
  LET k == IF idx < 0 THEN idx + size ELSE idx
  IN IF k < 0 \/ k >= size THEN None
     ELSE IF k + StartPos >= MaxLen THEN k + StartPos - MaxLen ELSE k + StartPos

\* to_numpy.
ToNumpy ==
  LET end == StartPos + size
      part(from, to) == [k \in 1 .. to - from |-> buf[from + k - 1]]
  IN IF size = 0 THEN <<>>
     ELSE IF end <= MaxLen THEN part(StartPos, end)
     ELSE part(StartPos, MaxLen) \o part(0, end - MaxLen)
-------------------------------------------------------------------------------
Idle == [at |-> "none", i |-> 0, end |-> 0, wrap_limit |-> 0, out |-> <<>>,
         opened |-> <<>>, changed |-> FALSE]

NoArray == [shared |-> FALSE, cells |-> <<>>, items |-> <<>>]

ViewInit ==
  /\ Init
  /\ held = NoArray
  /\ iter = Idle

Items(cells) == [k \in 1 .. Len(cells) |-> buf[cells[k]]]

TakeSlice(s) ==
  /\ LET g == GetSlice(s)
     IN held' = [shared |-> g.shared, cells |-> g.cells, items |-> Items(g.cells)]
  /\ UNCHANGED <<buf, write_head, size, policy, returned, iter>>

\* Faulty variant: the end is not cut at the end of the array.
IterOpen_NoWrap ==
  /\ iter.at = "none" /\ size # 0
  /\ iter' = [iter EXCEPT !.at = "first", !.i = StartPos,
                          !.end = IF StartPos + size > MaxLen THEN MaxLen
                                  ELSE StartPos + size,
                          !.wrap_limit = 0, !.opened = Window]
  /\ UNCHANGED <<buf, write_head, size, policy, returned, held>>

\* The first next() of __iter__ reads size and start position, once.  opened and
\* changed are history: what the buffer held then, and whether it was written since.
IterOpen ==
  /\ iter.at = "none" /\ size # 0
  /\ LET end == StartPos + size
     IN iter' = [iter EXCEPT !.at = "first", !.i = StartPos,
                             !.end = IF end > MaxLen THEN MaxLen ELSE end,
                             !.wrap_limit = IF end > MaxLen THEN end - MaxLen ELSE 0,
                             !.opened = Window]
  /\ UNCHANGED <<buf, write_head, size, policy, returned, held>>

\* Each next() reads the cell as it is now.
IterNext ==
  /\ \/ /\ iter.at = "first" /\ iter.i < iter.end
        /\ iter' = [iter EXCEPT !.out = Append(@, buf[iter.i]), !.i = @ + 1]
     \/ /\ iter.at = "first" /\ iter.i = iter.end /\ iter.wrap_limit > 0
        /\ iter' = [iter EXCEPT !.at = "second", !.out = Append(@, buf[0]), !.i = 1]
     \/ /\ iter.at = "second" /\ iter.i < iter.wrap_limit
        /\ iter' = [iter EXCEPT !.out = Append(@, buf[iter.i]), !.i = @ + 1]
  /\ UNCHANGED <<buf, write_head, size, policy, returned, held>>

\* The generator returns: after the first part, or after the second.
IterEnds ==
  \/ iter.at = "first" /\ iter.i = iter.end /\ iter.wrap_limit = 0
  \/ iter.at = "second" /\ iter.i = iter.wrap_limit

IterStop ==
  /\ IterEnds
  /\ iter' = Idle
  /\ UNCHANGED <<buf, write_head, size, policy, returned, held>>

\* The owner of the buffer writes to it.
OwnerWrites ==
  /\ Next
  /\ iter' = IF iter.at = "none" THEN iter
             ELSE [iter EXCEPT !.changed = @ \/ ringVars' # ringVars]
  /\ UNCHANGED held

ViewNext ==
  \/ OwnerWrites
  \/ \E s \in KeptSlices : TakeSlice(s)
  \/ IterOpen \/ IterNext \/ IterStop

ViewSpec == ViewInit /\ [][ViewNext]_viewVars
-------------------------------------------------------------------------------
\* No sum of __getitem__ leaves Py_ssize_t, whatever the bounds: the greatest is that of
\* the number of items and the step, on the way to the length of the slice.
StepFits(step) == MaxLen + Magnitude(step) <= MaxSsize

\* ViewProtocol, "Behaves like a 1D NumPy array in logical order": a slice, with any
\* bounds and any step that leaves room for its arithmetic, selects the same items of the
\* buffer as the same slice of the sequence of its items, wherever the buffer wraps.  A
\* slice is computed from the buffer alone: looking while nobody holds an array or
\* iterates shows them all.
SlicesInOrder ==
  held = NoArray /\ iter = Idle =>
    \A s \in {t \in Slices : StepFits(t.step)} :
      LET at == Selected(s, size)
      IN Items(GetSlice(s).cells) = [k \in 1 .. Len(at) |-> Window[at[k] + 1]]

\* An integer index, from either end, finds the item of that position, and fails
\* outside the buffer; to_numpy is the whole sequence.
IndexInOrder ==
  /\ \A idx \in -(size + 2) .. size + 1 :
       LET k == IF idx < 0 THEN idx + size ELSE idx
       IN IF k \in 0 .. size - 1 THEN /\ GetIndex(idx) # None
                                      /\ buf[GetIndex(idx)] = Window[k + 1]
          ELSE GetIndex(idx) = None
  /\ ToNumpy = Window

\* ViewProtocol.__iter__, "Iterates over the buffer in logical order": an iteration
\* yields as many items as there were when it began, and exactly those when nothing
\* was written meanwhile; it never leaves the array, whatever was written.
IterationInOrder ==
  iter.at # "none" =>
    /\ iter.end <= MaxLen /\ iter.i <= MaxLen /\ iter.wrap_limit < MaxLen
    /\ Len(iter.out) <= Len(iter.opened)
    /\ IterEnds => Len(iter.out) = Len(iter.opened)
    /\ ~iter.changed => iter.out = SubSeq(iter.opened, 1, Len(iter.out))

\* What a held array shows: a piece of the buffer's own cells, or a copy.
Shown == IF held.shared THEN Items(held.cells) ELSE held.items

\* README.md, "All returned arrays are independent (no shared memory)": a write to
\* the buffer never changes an array that was returned before.
ReturnedArraysKeepTheirItems == [][UNCHANGED held => Shown' = Shown]_viewVars
===============================================================================

---------------------------- MODULE ReferenceBuffer ----------------------------
(***************************************************************************)
(* class RefPythonNumPyCircBuffer of bench_utils.py, the baseline that the *)
(* benchmarks compare OverwriteCircBuffer with.  Both get the same calls.  *)
(* The baseline has fewer operations, and no block may exceed its          *)
(* capacity; in a behaviour that is not paired the buffer gets all calls.  *)
(***************************************************************************)
EXTENDS OverwriteCircBuffer

VARIABLES paired, ref_buffer, ref_head, ref_size

refVars == <<ref_buffer, ref_head, ref_size>>

PairInit ==
  /\ Init
  /\ paired \in BOOLEAN
  /\ ref_buffer = [i \in Index |-> Zero] /\ ref_head = 0 /\ ref_size = 0

RefAppend(value) ==
  /\ ref_size' = IF ref_size < MaxLen THEN ref_size + 1 ELSE ref_size
  /\ ref_buffer' = [ref_buffer EXCEPT ![ref_head] = value]
  /\ ref_head' = IF ref_head + 1 >= MaxLen THEN 0 ELSE ref_head + 1

\* Faulty variant: a block that ends on the last cell leaves the head behind it.
RefExtend_Late(block) ==
  LET n    == Len(block)
      to   == ref_head + n
      part == IF to <= MaxLen THEN n ELSE MaxLen - ref_head
  IN IF n = 0 THEN UNCHANGED refVars
     ELSE /\ ref_buffer' = [i \in Index |->
               IF i \in ref_head .. ref_head + part - 1 THEN block[i - ref_head + 1]
               ELSE IF i < n - part THEN block[part + i + 1] ELSE ref_buffer[i]]
          /\ ref_head' = IF to > MaxLen THEN to - MaxLen ELSE to
          /\ ref_size' = IF ref_size + n <= MaxLen THEN ref_size + n ELSE ref_size

\* extend_unchecked: the size only grows when the whole block still fits.
RefExtend(block) ==
  LET n    == Len(block)
      to   == ref_head + n
      part == IF to <= MaxLen THEN n ELSE MaxLen - ref_head
  IN IF n = 0 THEN UNCHANGED refVars
     ELSE /\ ref_buffer' = [i \in Index |->
               IF i \in ref_head .. ref_head + part - 1 THEN block[i - ref_head + 1]
               ELSE IF i < n - part THEN block[part + i + 1] ELSE ref_buffer[i]]
          /\ ref_head' = IF to >= MaxLen THEN to - MaxLen ELSE to
          /\ ref_size' = IF ref_size + n <= MaxLen THEN ref_size + n ELSE ref_size

RefClear ==
  /\ ref_head' = 0 /\ ref_size' = 0
  /\ UNCHANGED ref_buffer

\* The same call on both.
BothCalls ==
  \/ \E v \in Value : AppendValue(v, FALSE) /\ RefAppend(v)
  \/ \E block \in Blocks :
       /\ Len(block) <= MaxLen
       /\ \/ ExtendEmpty(block)
          \/ ExtendPart(block, FALSE)
          \/ ExtendWhole(block, FALSE)
       /\ RefExtend(block)
  \/ Clear /\ RefClear

PairNext ==
  /\ UNCHANGED paired
  /\ \/ paired /\ BothCalls
     \/ ~paired /\ Next /\ UNCHANGED refVars

PairSpec == PairInit /\ [][PairNext]_<<vars, paired, refVars>>
-------------------------------------------------------------------------------
\* bench_utils.py, "serves as a baseline for performance comparisons": whatever the
\* benchmarks call, behind its head the baseline has the items the buffer has, though
\* not always in the same cells (a block of the capacity rewinds only the buffer), and
\* its size may stay short of a full buffer but never differs otherwise.
RefFollowsBuffer ==
  paired =>
    /\ ref_head \in Index
    /\ ReadData(ref_buffer, GetStartPos(ref_head, size), size) = Window
    /\ ref_size = size \/ (size = MaxLen /\ ref_size < MaxLen)
===============================================================================

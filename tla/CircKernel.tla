------------------------------ MODULE CircKernel ------------------------------
(***************************************************************************)
(* The index arithmetic and the two-part copies of kernels.hpp, on which   *)
(* every circular buffer of the package is built.  A buffer is a function  *)
(* from Index to items; a block is a sequence of items.                    *)
(***************************************************************************)
EXTENDS Naturals, Sequences

CONSTANT MaxLen     \* capacity of the buffer (self._maxlen)

\* _shared_main_buffer_init refuses a capacity that is not a positive int.
ASSUME MaxLenAssumption == MaxLen \in Nat \ {0}

Index == 0 .. MaxLen - 1

MinSz(a, b) == IF a < b THEN a ELSE b

\* The position of the oldest item of a buffer that keeps no read head.
GetStartPos(write_head, size) ==
  IF write_head >= size THEN write_head - size ELSE write_head + MaxLen - size

\* Faulty variant: the head may rest on the end of the buffer.
AppendAdvanceHead_Late(head) == IF head + 1 > MaxLen THEN 0 ELSE head + 1

AppendAdvanceHead(head) == IF head + 1 >= MaxLen THEN 0 ELSE head + 1

ExtendAdvanceHead(head, n) ==
  IF head + n >= MaxLen THEN head + n - MaxLen ELSE head + n

\* The number of items the first of the two copies moves.
FirstPart(start, n) == IF start + n <= MaxLen THEN n ELSE MaxLen - start

\* write_data: src is copied to start, start + 1, ..., wrapping once.
WriteData(buf, src, start) ==
  LET p1 == FirstPart(start, Len(src))
  IN [i \in Index |->
        IF i >= start /\ i < start + p1 THEN src[i - start + 1]
        ELSE IF i < Len(src) - p1 THEN src[p1 + i + 1]
        ELSE buf[i]]

\* read_data: the n items at start, start + 1, ..., wrapping once.
ReadData(buf, start, n) ==
  LET p1 == FirstPart(start, n)
  IN [i \in 1 .. n |-> IF i <= p1 THEN buf[start + i - 1] ELSE buf[i - p1 - 1]]
===============================================================================

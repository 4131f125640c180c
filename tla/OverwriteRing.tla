----------------------------- MODULE OverwriteRing -----------------------------
(***************************************************************************)
(* The cells of the buffers that overwrite their oldest items: the base    *)
(* classes _OverwriteCircBufferBP of core.pyx.in and the overwriting       *)
(* appends of kernels.hpp.  There is no read head: the oldest item is      *)
(* where get_start_pos says.                                               *)
(***************************************************************************)
EXTENDS CircKernel, Filtering

VARIABLES buf, write_head, size

ringVars == <<buf, write_head, size>>

\* _shared_main_buffer_init, on cells filled with zero.
InitRing(zero) ==
  /\ buf = [i \in Index |-> zero]
  /\ write_head = 0 /\ size = 0

\* read_overwritten: the n oldest items.
Oldest(n) == ReadData(buf, GetStartPos(write_head, size), n)

\* The items in logical order, oldest first.
Window == Oldest(size)

\* overwritten_{never,always,conditional}_append, less what they return.
Push(v) ==
  /\ buf' = [buf EXCEPT ![write_head] = v]
  /\ write_head' = AppendAdvanceHead(write_head)
  /\ size' = IF size < MaxLen THEN size + 1 ELSE size

\* A block of maxlen items or more: its last maxlen from cell 0 on.
PushWhole(block) ==
  /\ LET n == Len(block)
     IN buf' = [i \in Index |-> block[n - MaxLen + i + 1]]
  /\ write_head' = 0
  /\ size' = MaxLen

\* Faulty variant: the size is not capped.
PushPart_Uncapped(block) ==
  /\ buf' = WriteData(buf, block, write_head)
  /\ write_head' = ExtendAdvanceHead(write_head, Len(block))
  /\ size' = IF size # MaxLen THEN size + Len(block) ELSE size

PushPart(block) ==
  /\ buf' = WriteData(buf, block, write_head)
  /\ write_head' = ExtendAdvanceHead(write_head, Len(block))
  /\ size' = IF size # MaxLen THEN MinSz(MaxLen, size + Len(block)) ELSE size

Reset ==
  /\ write_head' = 0 /\ size' = 0
  /\ UNCHANGED buf

\* clear_nans, clear_infs: _remove_{target} moves the items it keeps together,
\* from the oldest on.
Filter(target) ==
  /\ size # 0
  /\ LET items == Window
         start == GetStartPos(write_head, size)
     IN \E f \in KeptOrder(items, target) :
          LET kept == [i \in 1 .. Len(f) |-> items[f[i]]]
          IN /\ buf' = WriteData(buf, kept, start)
             /\ size' = Len(kept)
             /\ write_head' = ExtendAdvanceHead(start, Len(kept))
===============================================================================

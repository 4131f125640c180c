-------------------------- MODULE OverwriteCircBuffer --------------------------
(***************************************************************************)
(* class OverwriteCircBuffer of core.pyx.in: a buffer for one thread that  *)
(* keeps the last maxlen items, with a policy for what a write returns of  *)
(* the items it overwrites.  A DataSizeWarning that is an error leaves     *)
(* extend before it has changed anything, so that path is no action.       *)
(***************************************************************************)
EXTENDS OverwriteRing

CONSTANTS
  Value,          \* the items
  Zero,           \* what the cells hold before they are written
  Policies,       \* the return_overwritten_policy values to choose from
  Blocks,         \* the blocks extend is called with
  Targets         \* the sets of items clear_nans and clear_infs remove

ASSUME PolicyAssumption == Policies \subseteq {"never", "always", "conditional"}
ASSUME BlocksAssumption == Blocks \subseteq Seq(Value)

Item == Value \cup {Zero}

VARIABLES policy, returned

vars == <<buf, write_head, size, policy, returned>>

Init ==
  /\ InitRing(Zero)
  /\ policy \in Policies
  /\ returned = <<>>

\* Whether the call returns what it overwrites.
Captures(return_overwritten) ==
  policy = "always" \/ (policy = "conditional" /\ return_overwritten)

AppendValue(v, return_overwritten) ==
  /\ Push(v)
  /\ returned' = IF Captures(return_overwritten) /\ size = MaxLen
                 THEN <<buf[write_head]>> ELSE <<>>
  /\ UNCHANGED policy

ExtendEmpty(block) ==
  /\ Len(block) = 0
  /\ returned' = <<>>
  /\ UNCHANGED <<buf, write_head, size, policy>>

ExtendWhole(block, return_overwritten) ==
  /\ Len(block) >= MaxLen
  /\ PushWhole(block)
  /\ returned' = IF Captures(return_overwritten) THEN Oldest(size) ELSE <<>>
  /\ UNCHANGED policy

\* Faulty variant: overwritten_len does not count the cells that were free.
ExtendPart_AllOverwritten(block, return_overwritten) ==
  /\ Len(block) > 0 /\ Len(block) < MaxLen
  /\ PushPart(block)
  /\ returned' = IF Captures(return_overwritten) /\ size + Len(block) > MaxLen
                 THEN Oldest(MinSz(Len(block), size)) ELSE <<>>
  /\ UNCHANGED policy

ExtendPart(block, return_overwritten) ==
  /\ Len(block) > 0 /\ Len(block) < MaxLen
  /\ PushPart(block)
  /\ returned' = IF Captures(return_overwritten) /\ size + Len(block) > MaxLen
                 THEN Oldest(size + Len(block) - MaxLen) ELSE <<>>
  /\ UNCHANGED policy

Clear ==
  /\ Reset
  /\ returned' = <<>>
  /\ UNCHANGED policy

Remove(target) ==
  /\ Filter(target)
  /\ returned' = <<>>
  /\ UNCHANGED policy

Next ==
  \/ \E return_overwritten \in BOOLEAN :
       \/ \E v \in Value : AppendValue(v, return_overwritten)
       \/ \E block \in Blocks :
            \/ ExtendWhole(block, return_overwritten)
            \/ ExtendPart(block, return_overwritten)
  \/ \E block \in Blocks : ExtendEmpty(block)
  \/ Clear
  \/ \E target \in Targets : Remove(target)

Spec == Init /\ [][Next]_vars

\* Type invariant: the head stays inside the cells and the size within the capacity.
TypeOK ==
  /\ buf \in [Index -> Item]
  /\ write_head \in Index /\ size \in 0 .. MaxLen
  /\ policy \in Policies
  /\ returned \in Seq(Item)

Sliding == INSTANCE SlidingWindow WITH Capacity <- MaxLen, window <- Window

\* core.pyi, OverwriteCircBuffer.append and extend, "returning an array of any values
\* that were overwritten": the buffer behaves as a sliding window over everything
\* written since it was cleared, and what a write returns is what left the window.
ImplementsWindow == Sliding!Spec
===============================================================================

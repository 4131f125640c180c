----------------------------- MODULE SlidingWindow -----------------------------
(***************************************************************************)
(* What core.pyi promises of an OverwriteCircBuffer: the Capacity most     *)
(* recent items, and, if the policy and the caller ask for them, the items *)
(* each write drove out, oldest first.                                     *)
(***************************************************************************)
EXTENDS Filtering

CONSTANTS Capacity, Policies, Value, Blocks, Targets

VARIABLES window, policy, returned

vars == <<window, policy, returned>>

Init ==
  /\ window = <<>>
  /\ policy \in Policies
  /\ returned = <<>>

\* How many of the oldest items a block of n drives out.
Evicted(n) ==
  IF Len(window) + n <= Capacity THEN 0
  ELSE IF n >= Capacity THEN Len(window) ELSE Len(window) + n - Capacity

Write(block, return_overwritten) ==
  LET all == window \o block
  IN /\ window' = IF Len(all) <= Capacity THEN all
                  ELSE SubSeq(all, Len(all) - Capacity + 1, Len(all))
     /\ returned' = IF policy = "always" \/ (policy = "conditional" /\ return_overwritten)
                    THEN SubSeq(window, 1, Evicted(Len(block)))
                    ELSE <<>>
     /\ UNCHANGED policy

Clear ==
  /\ window' = <<>>
  /\ returned' = <<>>
  /\ UNCHANGED policy

Remove(target) ==
  /\ \E f \in KeptOrder(window, target) : window' = [i \in 1 .. Len(f) |-> window[f[i]]]
  /\ returned' = <<>>
  /\ UNCHANGED policy

Next ==
  \/ \E return_overwritten \in BOOLEAN :
       \/ \E v \in Value : Write(<<v>>, return_overwritten)
       \/ \E block \in Blocks : Write(block, return_overwritten)
  \/ Clear
  \/ \E target \in Targets : Remove(target)

Spec == Init /\ [][Next]_vars
===============================================================================

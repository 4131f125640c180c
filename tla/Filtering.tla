------------------------------- MODULE Filtering -------------------------------
(***************************************************************************)
(* What _remove_nans and _remove_infs of core.pyx.in keep of a buffer.     *)
(***************************************************************************)
EXTENDS Naturals, Sequences

\* The positions of the items of s that are not in target, in order: the one
\* increasing enumeration of them.
KeptOrder(s, target) ==
  LET kept == {i \in 1 .. Len(s) : s[i] \notin target}
  IN UNION {{f \in [1 .. m -> kept] :
               /\ \A i, j \in 1 .. m : i < j => f[i] < f[j]
               /\ \A k \in kept : \E i \in 1 .. m : f[i] = k} : m \in 0 .. Len(s)}
===============================================================================

------------------------------ MODULE MCLiveView ------------------------------
(***************************************************************************)
(* Instance of LiveView for TLC: a caller that keeps what a slice returned.*)
(***************************************************************************)
EXTENDS LiveView

CONSTANTS a, b

\* The oldest item.
FirstSlice == {[start |-> None, stop |-> 1, step |-> 1]}

ShortBlocks == {<<a, b>>, <<b, b, a>>}

RemoveOne == {{a}}
===============================================================================

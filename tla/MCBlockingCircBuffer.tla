------------------------- MODULE MCBlockingCircBuffer -------------------------
(***************************************************************************)
(* Instances of BlockingCircBuffer for TLC.                                *)
(***************************************************************************)
EXTENDS BlockingRefinement, TLC

CONSTANTS t1, t2, t3, a, b, bad

AppendC(v, timed)       == [op |-> "append", value |-> v, timed |-> timed]
ExtendC(s, timed)       == [op |-> "extend", block |-> s, timed |-> timed,
                            warn_size |-> FALSE]
WarnC(s)                == [op |-> "extend", block |-> s, timed |-> FALSE,
                            warn_size |-> TRUE]
ReadC(n, timed, partial) == [op |-> "read", n |-> n, timed |-> timed,
                             partial |-> partial]
ClearC                  == [op |-> "clear"]
RemoveC(target)         == [op |-> "remove", target |-> target]

\* Every kind of call, each thread may make any of them; two raise.
AllCalls == {AppendC(a, FALSE), AppendC(bad, FALSE),
             ExtendC(<<a, b>>, FALSE), ExtendC(<<a, b, a, b>>, FALSE), WarnC(<<a, b, a, b>>),
             ExtendC(<<>>, FALSE),
             ReadC(1, FALSE, TRUE), ReadC(4, TRUE, FALSE), ClearC, RemoveC({a})}
AnyCalls == [t \in Thread |-> AllCalls]

\* Fewer items and calls, for more threads: every caller may time out.
ImpatientCalls ==
  [t \in Thread |-> {AppendC(a, TRUE), ReadC(1, TRUE, TRUE), ReadC(2, TRUE, FALSE),
                     ClearC}]

Threads == Permutations(Thread)

\* A caller with writes that need the empty buffer of two cells and strict reads that
\* need the full one, between a writer of single items and an impatient reader of single
\* items that never stop.
BusyCalls ==
  [t \in Thread |->
     CASE t = t1 -> {ExtendC(<<a, a>>, FALSE), ReadC(2, FALSE, FALSE)}
       [] t = t2 -> {ReadC(1, TRUE, TRUE)}
       [] t = t3 -> {AppendC(a, FALSE)}]

\* Fairness of the callers: a thread that returned from its call makes the next one.
BusyCallers == FairSpec /\ WF_vars(Call(t2)) /\ WF_vars(Call(t3))

\* A value that does not convert, beside calls that wait for room and empty it.
FailingCalls ==
  [t \in Thread |-> {AppendC(bad, FALSE), AppendC(a, TRUE), ReadC(2, TRUE, TRUE)}]

\* One reader that wants two items, and a thread that writes one and clears.
ClearingCalls ==
  [t \in Thread |-> IF t = t1 THEN {ReadC(2, TRUE, FALSE)}
                    ELSE {AppendC(a, FALSE), ClearC}]
===============================================================================

-------------------------- MODULE BlockingRefinement --------------------------
(***************************************************************************)
(* BlockingCircBuffer implements BoundedFifo.  The content is what lies    *)
(* between the heads, a pending call is a call in progress, and one call   *)
(* arrived before another when its ticket is nearer to being served.       *)
(***************************************************************************)
EXTENDS BlockingCircBuffer

Content == ReadData(buf, read_head, size)

Order ==
  {p \in Thread \X Thread :
     /\ Live(p[1]) /\ Live(p[2])
     /\ QueueOf(call[p[1]]) = QueueOf(call[p[2]])
     /\ Dist(QueueOf(call[p[1]]), ticket[p[1]]) < Dist(QueueOf(call[p[2]]), ticket[p[2]])}

Fifo == INSTANCE BoundedFifo
          WITH Capacity <- MaxLen, content <- Content, pending <- call,
               before <- Order

\* core.pyi, "MPMC circular buffer ... Operations are mutually exclusive and will
\* not corrupt buffer state ... Arrival order ... is guaranteed": whatever the
\* interleaving, the calls behave as calls on a bounded FIFO sequence, each
\* writer's items enter in one piece and in arrival order, and a reader gets the
\* oldest items.
ImplementsFifo == Fifo!Spec
===============================================================================

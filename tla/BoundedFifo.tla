------------------------------ MODULE BoundedFifo ------------------------------
(***************************************************************************)
(* What core.pyi promises of a BlockingCircBuffer, without locks, tickets, *)
(* heads or cells: a sequence of at most Capacity items, and calls that    *)
(* wait.  A writer gets through when it is the first of the waiting        *)
(* writers and there is room for its whole block; a reader when it is the  *)
(* first of the waiting readers and there is something (or, in a strict    *)
(* read, everything) to read; a call with a timeout may return             *)
(* empty-handed.  before is the order of arrival in each queue.            *)
(***************************************************************************)
EXTENDS BufferCalls

CONSTANT Capacity

VARIABLES content, pending, before, result

vars == <<content, pending, before, result>>

AtMost(m, n) == IF m < n THEN m ELSE n

Init ==
  /\ content = <<>>
  /\ pending = [t \in Thread |-> NoCall]
  /\ before = {}
  /\ result = NoResult

Waiting(q) == {t \in Thread : pending[t] # NoCall /\ QueueOf(pending[t]) = q}

First(t) == \A u \in Thread : <<u, t>> \notin before

Arrive(t, c) ==
  /\ pending[t] = NoCall /\ c \in Calls[t] \cap QueueCall /\ Count(c) > 0
  /\ pending' = [pending EXCEPT ![t] = c]
  /\ before' = before \cup {<<u, t>> : u \in Waiting(QueueOf(c))}
  /\ result' = NoResult
  /\ UNCHANGED content

Leave(t, status, data) ==
  /\ pending[t] # NoCall
  /\ pending' = [pending EXCEPT ![t] = NoCall]
  /\ before' = {p \in before : p[1] # t /\ p[2] # t}
  /\ result' = [status |-> status, data |-> data]

\* A block larger than the capacity keeps its last Capacity items.
Write(t) ==
  /\ pending[t] \in WriteCall /\ First(t)
  /\ LET block == IF pending[t].op = "append" THEN <<pending[t].value>>
                  ELSE pending[t].block
         room  == AtMost(Len(block), Capacity)
     IN /\ block \in Seq(Value)
        /\ Len(content) + room <= Capacity
        /\ content' = content \o SubSeq(block, Len(block) - room + 1, Len(block))
  /\ Leave(t, "ok", <<>>)

Read(t) ==
  /\ pending[t] \in ReadCall /\ First(t)
  /\ LET n == AtMost(pending[t].n, IF pending[t].partial THEN Len(content) ELSE Capacity)
     IN /\ n > 0 /\ n <= Len(content)
        /\ content' = SubSeq(content, n + 1, Len(content))
        /\ Leave(t, "ok", SubSeq(content, 1, n))

Withdraw(t) ==
  /\ pending[t] # NoCall /\ pending[t].timed
  /\ Leave(t, "false", <<>>)
  /\ UNCHANGED content

\* A value that does not convert, or a warning that is an error.
Fail(t) ==
  /\ \/ pending[t] \in AppendCall /\ pending[t].value \in BadValue
     \/ pending[t] \in ExtendCall /\ WarningsRaise /\ pending[t].warn_size
        /\ Len(pending[t].block) > Capacity
  /\ Leave(t, "raised", <<>>)
  /\ UNCHANGED content

Clear(t) ==
  /\ pending[t] = NoCall /\ [op |-> "clear"] \in Calls[t]
  /\ content' = <<>>
  /\ result' = [status |-> "ok", data |-> <<>>]
  /\ UNCHANGED <<pending, before>>

Remove(t, target) ==
  /\ pending[t] = NoCall /\ [op |-> "remove", target |-> target] \in Calls[t]
  /\ \E f \in KeptOrder(content, target) :
       content' = [i \in 1 .. Len(f) |-> content[f[i]]]
  /\ result' = [status |-> "ok", data |-> <<>>]
  /\ UNCHANGED <<pending, before>>

\* A call for no items, or a step nobody outside the buffer can see.
Nothing(status) ==
  /\ result' = [status |-> status, data |-> <<>>]
  /\ UNCHANGED <<content, pending, before>>

Next ==
  \E t \in Thread :
    \/ \E c \in Calls[t] \cap QueueCall : Arrive(t, c)
    \/ \E c \in Calls[t] : c.op = "remove" /\ Remove(t, c.target)
    \/ Write(t) \/ Read(t) \/ Withdraw(t) \/ Fail(t) \/ Clear(t)
    \/ \E status \in {"none", "false"} : Nothing(status)

Spec == Init /\ [][Next]_vars
===============================================================================

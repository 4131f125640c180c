-------------------------- MODULE BlockingCircBuffer --------------------------
(***************************************************************************)
(* class BlockingCircBuffer of core.pyx.in: a bounded FIFO buffer shared   *)
(* by any number of writers and readers.                                   *)
(*                                                                         *)
(* One lock guards the buffer, and two conditions of it, not_full (writers *)
(* wait there) and not_empty (readers), are notified when the buffer or a  *)
(* queue moves.  A caller first draws a ticket, WITHOUT the lock, then     *)
(* takes the lock and waits until its ticket is served and the buffer has  *)
(* room (or items) for the whole call.  The lock is released only inside   *)
(* Condition.wait, so what a thread does between taking the lock and       *)
(* releasing it is one action here; between two actions of a thread every  *)
(* other thread may act.  pc says where a thread is:                       *)
(*   idle     in no call                                                   *)
(*   arrived  has a ticket, has not yet had the lock                       *)
(*   waiting  in Condition.wait, in the condition's list of waiters        *)
(*   woken    notified, has still to take the lock again                   *)
(*   expired  its wait timed out, has still to take the lock again         *)
(***************************************************************************)
EXTENDS CircKernel, BufferCalls

CONSTANTS
  Zero,           \* what _init_underlying_arrays fills the buffer with
  TicketMod       \* number of ticket values: 2^32, tickets are uint32_t

ASSUME TicketAssumption == TicketMod \in Nat /\ TicketMod > 1

Item   == Value \cup {Zero}
Ticket == 0 .. TicketMod - 1

VARIABLES
  buf, read_head, write_head, size,          \* the buffer
  ticket_counter, now_serving, abandoned,    \* write_queue and read_queue
  pc, call, ticket,                          \* the threads' places and locals
  result                                     \* what the last step returned to its caller

bufVars   == <<buf, read_head, write_head, size>>
queueVars == <<ticket_counter, now_serving, abandoned>>
vars      == <<buf, read_head, write_head, size, ticket_counter, now_serving,
               abandoned, pc, call, ticket, result>>

Init ==
  /\ buf = [i \in Index |-> Zero]
  /\ read_head = 0 /\ write_head = 0 /\ size = 0
  /\ ticket_counter = [q \in Queue |-> 0]
  /\ now_serving = [q \in Queue |-> 0]
  /\ abandoned = [q \in Queue |-> {}]
  /\ pc = [t \in Thread |-> "idle"]
  /\ call = [t \in Thread |-> NoCall]
  /\ ticket = [t \in Thread |-> 0]
  /\ result = NoResult
-------------------------------------------------------------------------------
\* Tickets are unsigned and wrap.
TicketPlus(k, d) == IF k + d >= TicketMod THEN k + d - TicketMod ELSE k + d

\* The d - 1 tickets that follow ticket k.
Between(k, d) == {TicketPlus(k, e) : e \in 1 .. d - 1}

\* Faulty variant: a block as large as the buffer waits for more room than there is.
Satisfied_Never(c) ==
  CASE c.op = "append" -> MaxLen - size # 0
    [] c.op = "extend" -> MaxLen - size >= Len(c.block)
    [] c.op = "read"   -> IF c.partial THEN size # 0
                          ELSE size >= MinSz(c.n, MaxLen)

\* The negation of the loop conditions of the four waiting loops, less the turn.
Satisfied(c) ==
  CASE c.op = "append" -> MaxLen - size # 0
    [] c.op = "extend" -> IF Len(c.block) >= MaxLen THEN size = 0
                          ELSE MaxLen - size >= Len(c.block)
    [] c.op = "read"   -> IF c.partial THEN size # 0
                          ELSE size >= MinSz(c.n, MaxLen)

Live(t)  == pc[t] # "idle"
Turn(t)  == now_serving[QueueOf(call[t])] = ticket[t]
\* Faulty variant: a thread goes ahead out of turn.
Ready_AnyTurn(t) == Satisfied(call[t])

Ready(t) == Turn(t) /\ Satisfied(call[t])

\* n > maxlen with warn_size: the warning is issued before the waiting loop.
WarningFails(t) ==
  /\ WarningsRaise /\ pc[t] = "arrived"
  /\ call[t].op = "extend" /\ call[t].warn_size /\ Len(call[t].block) > MaxLen

\* t can take the lock and evaluate its loop condition.
AtLoop(t) == pc[t] \in {"arrived", "woken"} /\ ~WarningFails(t)

Return(t, status, data) ==
  /\ call' = [call EXCEPT ![t] = NoCall]
  /\ ticket' = [ticket EXCEPT ![t] = 0]
  /\ result' = [status |-> status, data |-> data]

\* pc after t returned and notify_all was called for the queues in qs.
LeaveNotifying(t, qs) ==
  pc' = [u \in Thread |->
           IF u = t THEN "idle"
           ELSE IF pc[u] = "waiting" /\ QueueOf(call[u]) \in qs THEN "woken"
           ELSE pc[u]]

\* Faulty variant: the abandoned tickets are passed over but not erased.
AdvanceTicket_KeepAbandoned(q) ==
  \E d \in 1 .. TicketMod - 1 :
    /\ Between(now_serving[q], d) \subseteq abandoned[q]
    /\ TicketPlus(now_serving[q], d) \notin abandoned[q]
    /\ now_serving' = [now_serving EXCEPT ![q] = TicketPlus(@, d)]
    /\ UNCHANGED abandoned

\* now_serving += 1, then past the tickets that were abandoned.
AdvanceTicket(q) ==
  \E d \in 1 .. TicketMod - 1 :
    /\ Between(now_serving[q], d) \subseteq abandoned[q]
    /\ TicketPlus(now_serving[q], d) \notin abandoned[q]
    /\ now_serving' = [now_serving EXCEPT ![q] = TicketPlus(@, d)]
    /\ abandoned' = [abandoned EXCEPT ![q] = @ \ Between(now_serving[q], d)]

\* Faulty variant: only the threads of the other queue are notified.
ServeNext_NotifyOther(t) ==
  /\ AdvanceTicket(QueueOf(call[t]))
  /\ LeaveNotifying(t, Queue \ {QueueOf(call[t])})
  /\ UNCHANGED ticket_counter

\* The common end of a call whose ticket is being served.
ServeNext(t) ==
  /\ AdvanceTicket(QueueOf(call[t]))
  /\ LeaveNotifying(t, Queue)
  /\ UNCHANGED ticket_counter
-------------------------------------------------------------------------------
\* A call for no items returns at once: no ticket, no lock.
ReturnEmpty(t, c) ==
  /\ pc[t] = "idle" /\ c \in Calls[t] \cap QueueCall /\ Count(c) = 0
  /\ result' = [status |-> "false", data |-> <<>>]
  /\ UNCHANGED <<buf, read_head, write_head, size, ticket_counter, now_serving,
                 abandoned, pc, call, ticket>>

\* Bound: fewer than TicketMod tickets are outstanding in a queue.
TicketRoom(q) == TicketPlus(ticket_counter[q], 1) # now_serving[q]

\* Faulty variant: the ticket is read from the counter and the counter stays.
DrawTicket_NoIncrement(t, c) ==
  /\ pc[t] = "idle" /\ c \in Calls[t] \cap QueueCall /\ Count(c) > 0
  /\ pc' = [pc EXCEPT ![t] = "arrived"]
  /\ call' = [call EXCEPT ![t] = c]
  /\ ticket' = [ticket EXCEPT ![t] = ticket_counter[QueueOf(c)]]
  /\ result' = NoResult
  /\ UNCHANGED <<buf, read_head, write_head, size, ticket_counter, now_serving,
                 abandoned>>

\* ticket = queue.ticket_counter.fetch_add(1), outside the lock.
DrawTicket(t, c) ==
  /\ pc[t] = "idle" /\ c \in Calls[t] \cap QueueCall /\ Count(c) > 0
  /\ TicketRoom(QueueOf(c))
  /\ pc' = [pc EXCEPT ![t] = "arrived"]
  /\ call' = [call EXCEPT ![t] = c]
  /\ ticket' = [ticket EXCEPT ![t] = ticket_counter[QueueOf(c)]]
  /\ ticket_counter' = [ticket_counter EXCEPT ![QueueOf(c)] = TicketPlus(@, 1)]
  /\ result' = NoResult
  /\ UNCHANGED <<buf, read_head, write_head, size, now_serving, abandoned>>

\* The loop condition holds: t enters Condition.wait, which releases the lock.
Wait(t) ==
  /\ AtLoop(t) /\ ~Ready(t)
  /\ pc' = [pc EXCEPT ![t] = "waiting"]
  /\ result' = NoResult
  /\ UNCHANGED <<buf, read_head, write_head, size, ticket_counter, now_serving,
                 abandoned, call, ticket>>

\* wait(timeout) stops waiting before a notification reached t.
TimeOut(t) ==
  /\ pc[t] = "waiting" /\ call[t].timed
  /\ pc' = [pc EXCEPT ![t] = "expired"]
  /\ result' = NoResult
  /\ UNCHANGED <<buf, read_head, write_head, size, ticket_counter, now_serving,
                 abandoned, call, ticket>>

WriteAppend(t) ==
  /\ AtLoop(t) /\ Ready(t)
  /\ call[t].op = "append" /\ call[t].value \in Value
  /\ buf' = [buf EXCEPT ![write_head] = call[t].value]
  /\ write_head' = AppendAdvanceHead(write_head)
  /\ size' = size + 1
  /\ ServeNext(t)
  /\ Return(t, "ok", <<>>)
  /\ UNCHANGED read_head

\* Faulty variant: a block that is too long keeps its first items.
WriteExtendWhole_First(t) ==
  /\ AtLoop(t) /\ Ready(t)
  /\ call[t].op = "extend" /\ Len(call[t].block) >= MaxLen
  /\ buf' = [i \in Index |-> call[t].block[i + 1]]
  /\ read_head' = 0 /\ write_head' = 0 /\ size' = MaxLen
  /\ ServeNext(t)
  /\ Return(t, "ok", <<>>)

\* A block that does not fit behind other items replaces an empty buffer: its
\* last maxlen items from position 0 on.
WriteExtendWhole(t) ==
  /\ AtLoop(t) /\ Ready(t)
  /\ call[t].op = "extend" /\ Len(call[t].block) >= MaxLen
  /\ LET n == Len(call[t].block)
     IN buf' = [i \in Index |-> call[t].block[n - MaxLen + i + 1]]
  /\ read_head' = 0 /\ write_head' = 0 /\ size' = MaxLen
  /\ ServeNext(t)
  /\ Return(t, "ok", <<>>)

WriteExtendPart(t) ==
  /\ AtLoop(t) /\ Ready(t)
  /\ call[t].op = "extend" /\ Len(call[t].block) < MaxLen
  /\ buf' = WriteData(buf, call[t].block, write_head)
  /\ write_head' = ExtendAdvanceHead(write_head, Len(call[t].block))
  /\ size' = size + Len(call[t].block)
  /\ ServeNext(t)
  /\ Return(t, "ok", <<>>)
  /\ UNCHANGED read_head

\* read, read_into and read_into_unchecked: n = min_sz(n, size) or min_sz(n, maxlen).
ReadItems(t) ==
  /\ AtLoop(t) /\ Ready(t) /\ call[t].op = "read"
  /\ LET n == MinSz(call[t].n, IF call[t].partial THEN size ELSE MaxLen)
     IN /\ Return(t, "ok", ReadData(buf, read_head, n))
        /\ read_head' = ExtendAdvanceHead(read_head, n)
        /\ size' = size - n
  /\ ServeNext(t)
  /\ UNCHANGED <<buf, write_head>>

\* Faulty variant: a timed-out call just returns, with the turn in its hands.
GiveUpTurn_Keep(t) ==
  /\ pc[t] = "expired" /\ Turn(t)
  /\ LeaveNotifying(t, {})
  /\ Return(t, "false", <<>>)
  /\ UNCHANGED <<buf, read_head, write_head, size, ticket_counter, now_serving,
                 abandoned>>

\* A timed-out call whose ticket is being served hands its turn on ...
GiveUpTurn(t) ==
  /\ pc[t] = "expired" /\ Turn(t)
  /\ ServeNext(t)
  /\ Return(t, "false", <<>>)
  /\ UNCHANGED <<buf, read_head, write_head, size>>

\* Faulty variants: the ticket being served is abandoned like any other, and a
\* ticket is not recorded as abandoned.
AbandonTicket_AnyTurn(t) ==
  /\ pc[t] = "expired"
  /\ abandoned' = [abandoned EXCEPT ![QueueOf(call[t])] = @ \cup {ticket[t]}]
  /\ LeaveNotifying(t, {})
  /\ Return(t, "false", <<>>)
  /\ UNCHANGED <<buf, read_head, write_head, size, ticket_counter, now_serving>>

AbandonTicket_Forget(t) ==
  /\ pc[t] = "expired" /\ ~Turn(t)
  /\ LeaveNotifying(t, {})
  /\ Return(t, "false", <<>>)
  /\ UNCHANGED <<buf, read_head, write_head, size, ticket_counter, now_serving,
                 abandoned>>

\* ... and one whose ticket is not leaves it to be skipped.
AbandonTicket(t) ==
  /\ pc[t] = "expired" /\ ~Turn(t)
  /\ abandoned' = [abandoned EXCEPT ![QueueOf(call[t])] = @ \cup {ticket[t]}]
  /\ LeaveNotifying(t, {})
  /\ Return(t, "false", <<>>)
  /\ UNCHANGED <<buf, read_head, write_head, size, ticket_counter, now_serving>>

\* <c_type> value raises in write_append, or warnings.warn in write_extend: the
\* lock is released on the way out and the ticket is neither served nor abandoned.
RaiseInCall(t) ==
  /\ \/ WarningFails(t)
     \/ AtLoop(t) /\ Ready(t) /\ call[t].op = "append" /\ call[t].value \in BadValue
  /\ LeaveNotifying(t, {})
  /\ Return(t, "raised", <<>>)
  /\ UNCHANGED <<buf, read_head, write_head, size, ticket_counter, now_serving,
                 abandoned>>

\* Faulty variant: the write head is not reset.
ClearBuffer_KeepHead(t) ==
  /\ pc[t] = "idle" /\ [op |-> "clear"] \in Calls[t]
  /\ read_head' = 0 /\ size' = 0
  /\ LeaveNotifying(t, {"write"})
  /\ result' = [status |-> "ok", data |-> <<>>]
  /\ UNCHANGED <<buf, write_head, ticket_counter, now_serving, abandoned, call,
                 ticket>>

ClearBuffer(t) ==
  /\ pc[t] = "idle" /\ [op |-> "clear"] \in Calls[t]
  /\ read_head' = 0 /\ write_head' = 0 /\ size' = 0
  /\ LeaveNotifying(t, {"write"})
  /\ result' = [status |-> "ok", data |-> <<>>]
  /\ UNCHANGED <<buf, ticket_counter, now_serving, abandoned, call, ticket>>

\* clear_nans, clear_infs: _remove_{target} moves the items it keeps together,
\* from read_head on, and leaves the cells behind them as they were.
RemoveItems(t, target) ==
  /\ pc[t] = "idle" /\ [op |-> "remove", target |-> target] \in Calls[t]
  /\ size # 0
  /\ LET items == ReadData(buf, read_head, size)
     IN \E f \in KeptOrder(items, target) :
          LET kept == [i \in 1 .. Len(f) |-> items[f[i]]]
          IN /\ buf' = WriteData(buf, kept, read_head)
             /\ size' = Len(kept)
             /\ write_head' = ExtendAdvanceHead(read_head, Len(kept))
  /\ LeaveNotifying(t, {"write"})
  /\ result' = [status |-> "ok", data |-> <<>>]
  /\ UNCHANGED <<read_head, ticket_counter, now_serving, abandoned, call, ticket>>
-------------------------------------------------------------------------------
Call(t) ==
  \E c \in Calls[t] :
    \/ ReturnEmpty(t, c)
    \/ DrawTicket(t, c)
    \/ c.op = "clear" /\ ClearBuffer(t)
    \/ c.op = "remove" /\ RemoveItems(t, c.target)

\* What a thread does by itself once it is in a call.
Proceed(t) ==
  \/ Wait(t)
  \/ WriteAppend(t)
  \/ WriteExtendWhole(t)
  \/ WriteExtendPart(t)
  \/ ReadItems(t)
  \/ GiveUpTurn(t)
  \/ AbandonTicket(t)
  \/ RaiseInCall(t)

Next == \E t \in Thread : Call(t) \/ Proceed(t) \/ TimeOut(t)

Spec == Init /\ [][Next]_vars

\* Fairness: a thread that is in a call and not in Condition.wait gets the lock in
\* the end (the operating system runs it, and nobody keeps the lock), and a wait
\* with a timeout that is not notified ends.
FairSpec ==
  Spec /\ \A t \in Thread : WF_vars(Proceed(t)) /\ WF_vars(TimeOut(t))
-------------------------------------------------------------------------------
BufferOK ==
  /\ buf \in [Index -> Item]
  /\ read_head \in Index /\ write_head \in Index /\ size \in 0 .. MaxLen

QueuesOK ==
  /\ ticket_counter \in [Queue -> Ticket]
  /\ now_serving \in [Queue -> Ticket]
  /\ abandoned \in [Queue -> SUBSET Ticket]

ThreadsOK ==
  /\ pc \in [Thread -> {"idle", "arrived", "waiting", "woken", "expired"}]
  /\ call \in [Thread -> QueueCall \cup {NoCall}]
  /\ ticket \in [Thread -> Ticket]
  /\ result \in [status : Status, data : Seq(Item)]
  /\ \A t \in Thread : IF pc[t] = "idle" THEN call[t] = NoCall
                       ELSE call[t] \in Calls[t] \cap QueueCall /\ Count(call[t]) > 0

\* Type invariant: every variable has its type, heads and size are in range, and a
\* thread is in a call, for at least one item, exactly when it is not idle.
TypeOK == BufferOK /\ QueuesOK /\ ThreadsOK

\* The two heads and the size never drift apart: what the locked reader takes for
\* the oldest item (read_head) is what the unlocked view computes from write_head
\* and size (get_start_pos), whatever writes, reads, clears and filters went before.
RingConsistent ==
  /\ write_head = ExtendAdvanceHead(read_head, size)
  /\ GetStartPos(write_head, size) = read_head

\* How many turns after ticket now ticket k comes.
TurnsAfter(now, k) == IF k >= now THEN k - now ELSE k + TicketMod - now

\* How far ticket k is from being served.
Dist(q, k) == TurnsAfter(now_serving[q], k)

Outstanding(q) == {k \in Ticket : Dist(q, k) < Dist(q, ticket_counter[q])}

InQueue(q) == {t \in Thread : Live(t) /\ QueueOf(call[t]) = q}

\* A thread in a call holds a ticket that was drawn, was not passed over and was
\* not abandoned.
HeldOutstanding ==
  \A q \in Queue : \A t \in InQueue(q) : ticket[t] \in Outstanding(q) \ abandoned[q]

\* No two threads wait for the same ticket of a queue, also after the counter wrapped.
TicketsDistinct ==
  \A q \in Queue : \A t, u \in InQueue(q) : ticket[t] = ticket[u] => t = u

\* abandoned_tickets holds tickets still to come, never the one being served: the
\* skipping loop of the previous turn left none behind.
AbandonedAhead ==
  \A q \in Queue : abandoned[q] \subseteq Outstanding(q) \ {now_serving[q]}

\* A ticket still to be served is abandoned or held by a thread that is in the
\* call: no turn is ever given to nobody.
NoStrandedTicket ==
  \A q \in Queue : Outstanding(q) \ abandoned[q] \subseteq {ticket[t] : t \in InQueue(q)}

\* No lost wake-up: a thread in Condition.wait has a reason to wait; whatever made
\* its loop condition false has also notified it.
NoLostWakeup == \A t \in Thread : pc[t] = "waiting" => ~Ready(t)

\* core.pyi, "Writers wait if the buffer is full or does not have enough space for
\* the write" (and FIFO order): a writer that has room waits only behind another
\* writer that is in its call.
WriterWaitsForRoom ==
  \A t \in InQueue("write") :
    pc[t] = "waiting" /\ Satisfied(call[t]) => \E u \in InQueue("write") : u # t

\* "Arrival order among waiting writers and among waiting readers is guaranteed":
\* a call that succeeds leaves behind no call of its queue that drew its ticket
\* earlier.
Overtakes(u, t) ==
  /\ Live(t) /\ Live(u) /\ QueueOf(call[t]) = QueueOf(call[u])
  /\ Dist(QueueOf(call[t]), ticket[t]) < Dist(QueueOf(call[u]), ticket[u])
  /\ pc'[u] = "idle" /\ result'.status = "ok"

FifoFairness == [][\A t, u \in Thread : ~Overtakes(u, t)]_vars

\* core.pyi, "If True (default), the method returns as soon as at least one item is
\* available": the first writer and the first reader both wait only when the reader
\* is a strict one, whose items can not come because the writer's block does not
\* fit beside those already there.
BothWaitOnlyForStrictRead ==
  \A w \in InQueue("write"), r \in InQueue("read") :
    pc[w] = "waiting" /\ pc[r] = "waiting" /\ Turn(w) /\ Turn(r)
      => ~call[r].partial /\ size > 0 /\ size + Count(call[w]) > MaxLen

\* No starvation: a writer gets through, also one that needs the whole buffer
\* empty while smaller writes keep coming.
WritersReturn == \A t \in Thread : (call[t] \in WriteCall) ~> ~Live(t)

\* A reader gets its items, also a strict one beside others that take single items.
ReadersReturn == \A t \in Thread : (call[t] \in ReadCall) ~> ~Live(t)

\* core.pyi, "timeout: Maximum time to wait for space in seconds": a call with a
\* timeout returns, whatever the other threads do.
TimedCallsReturn == \A t \in Thread : (Live(t) /\ call[t].timed) ~> ~Live(t)
===============================================================================

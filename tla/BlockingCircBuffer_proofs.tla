----------------------- MODULE BlockingCircBuffer_proofs -----------------------
(***************************************************************************)
(* BlockingCircBuffer keeps its tickets, threads and ring in order and     *)
(* implements BoundedFifo, for every number of threads, every capacity,    *)
(* every set of calls and every width of the ticket counter.               *)
(***************************************************************************)
EXTENDS BlockingRefinement, CircKernel_proofs

-------------------------------------------------------------------------------
(* Type correctness.                                                       *)

LEMMA TicketPlusType ==
  ASSUME NEW k \in Ticket, NEW d \in 0 .. TicketMod
  PROVE  TicketPlus(k, d) \in Ticket
  BY TicketAssumption DEF TicketPlus, Ticket

\* Serving the next ticket keeps the queues' types.
LEMMA AdvanceTicketType ==
  ASSUME QueuesOK, NEW q \in Queue, AdvanceTicket(q), UNCHANGED ticket_counter
  PROVE  QueuesOK'
<1>1. PICK d \in 1 .. TicketMod - 1 :
         /\ now_serving' = [now_serving EXCEPT ![q] = TicketPlus(@, d)]
         /\ abandoned' = [abandoned EXCEPT ![q] = @ \ Between(now_serving[q], d)]
  BY DEF AdvanceTicket
<1>2. TicketPlus(now_serving[q], d) \in Ticket
  BY TicketPlusType, TicketAssumption DEF QueuesOK
<1>3. now_serving' \in [Queue -> Ticket]
  BY <1>1, <1>2 DEF QueuesOK
<1>4. abandoned' \in [Queue -> SUBSET Ticket]
  BY <1>1 DEF QueuesOK
<1> QED BY <1>3, <1>4 DEF QueuesOK

\* Returning from a call, with or without a notification, keeps the threads' types.
LEMMA ReturnType ==
  ASSUME ThreadsOK, NEW t \in Thread, NEW qs, LeaveNotifying(t, qs),
         NEW status \in Status, NEW data \in Seq(Item), Return(t, status, data)
  PROVE  ThreadsOK'
<1>1. /\ pc' \in [Thread -> {"idle", "arrived", "waiting", "woken", "expired"}]
      /\ pc'[t] = "idle"
      /\ \A u \in Thread : u # t => (pc'[u] = "idle" <=> pc[u] = "idle")
  BY DEF ThreadsOK, LeaveNotifying
<1>2. /\ call' \in [Thread -> QueueCall \cup {NoCall}]
      /\ call'[t] = NoCall
      /\ \A u \in Thread : u # t => call'[u] = call[u]
  BY DEF ThreadsOK, Return
<1>3. ticket' \in [Thread -> Ticket]
  BY TicketAssumption DEF ThreadsOK, Return, Ticket
<1>4. result' \in [status : Status, data : Seq(Item)]
  BY DEF Return
<1>5. ASSUME NEW u \in Thread
      PROVE  IF pc'[u] = "idle" THEN call'[u] = NoCall
             ELSE call'[u] \in Calls[u] \cap QueueCall /\ Count(call'[u]) > 0
  <2>1. CASE u = t
    BY <1>1, <1>2, <2>1
  <2>2. CASE u # t
    BY <1>1, <1>2, <2>2 DEF ThreadsOK
  <2> QED BY <2>1, <2>2
<1> QED BY <1>1, <1>2, <1>3, <1>4, <1>5 DEF ThreadsOK

\* A notification by a thread outside the queues keeps the threads' types.
LEMMA NotifyType ==
  ASSUME ThreadsOK, NEW t \in Thread, pc[t] = "idle", NEW qs, LeaveNotifying(t, qs),
         result' \in [status : Status, data : Seq(Item)], UNCHANGED <<call, ticket>>
  PROVE  ThreadsOK'
<1>1. /\ pc' \in [Thread -> {"idle", "arrived", "waiting", "woken", "expired"}]
      /\ \A u \in Thread : (pc'[u] = "idle" <=> pc[u] = "idle")
  BY DEF ThreadsOK, LeaveNotifying
<1> QED BY <1>1 DEF ThreadsOK

\* What is returned to a caller has the type of a result.
LEMMA ResultType ==
  ASSUME NEW status \in Status, NEW data \in Seq(Item)
  PROVE  [status |-> status, data |-> data] \in [status : Status, data : Seq(Item)]
  OBVIOUS

LEMMA EmptyData == <<>> \in Seq(Item)
  OBVIOUS

\* The end of a call whose ticket is served keeps the types of queues and threads.
LEMMA ServeType ==
  ASSUME TypeOK, NEW t \in Thread, Live(t), ServeNext(t),
         NEW data \in Seq(Item), NEW status \in Status, Return(t, status, data)
  PROVE  QueuesOK' /\ ThreadsOK'
<1>1. QueueOf(call[t]) \in Queue
  BY DEF QueueOf, Queue
<1>2. QueuesOK'
  BY <1>1, AdvanceTicketType DEF ServeNext, TypeOK
<1>3. ThreadsOK'
  BY ReturnType DEF ServeNext, TypeOK
<1> QED BY <1>2, <1>3

LEMMA TypeInit == Init => TypeOK
<1> SUFFICES ASSUME Init PROVE TypeOK
  OBVIOUS
<1>1. BufferOK
  BY MaxLenAssumption DEF Init, BufferOK, Index, Item
<1>2. QueuesOK
  BY TicketAssumption DEF Init, QueuesOK, Ticket
<1>3. ThreadsOK
  BY TicketAssumption DEF Init, ThreadsOK, Ticket, NoResult, Status
<1> QED BY <1>1, <1>2, <1>3 DEF TypeOK

LEMMA TypeDraw ==
  ASSUME TypeOK, NEW t \in Thread, NEW c \in Calls[t], DrawTicket(t, c)
  PROVE  TypeOK'
<1>1. QueueOf(c) \in Queue
  BY DEF QueueOf, Queue
<1>2. BufferOK'
  BY DEF DrawTicket, TypeOK, BufferOK
<1>3. QueuesOK'
  BY <1>1, TicketPlusType, TicketAssumption DEF DrawTicket, TypeOK, QueuesOK
<1>4. ThreadsOK'
  <2>1. /\ pc' \in [Thread -> {"idle", "arrived", "waiting", "woken", "expired"}]
        /\ call' \in [Thread -> QueueCall \cup {NoCall}]
    BY DEF DrawTicket, TypeOK, ThreadsOK
  <2>2. ticket' \in [Thread -> Ticket]
    BY <1>1 DEF DrawTicket, TypeOK, ThreadsOK, QueuesOK
  <2>3. result' \in [status : Status, data : Seq(Item)]
    BY DEF DrawTicket, NoResult, Status
  <2>4. ASSUME NEW u \in Thread
        PROVE  IF pc'[u] = "idle" THEN call'[u] = NoCall
               ELSE call'[u] \in Calls[u] \cap QueueCall /\ Count(call'[u]) > 0
    BY DEF DrawTicket, TypeOK, ThreadsOK
  <2> QED BY <2>1, <2>2, <2>3, <2>4 DEF ThreadsOK
<1> QED BY <1>2, <1>3, <1>4 DEF TypeOK

LEMMA TypeWaitTimeOut ==
  ASSUME TypeOK, NEW t \in Thread, Wait(t) \/ TimeOut(t)
  PROVE  TypeOK'
<1>1. pc[t] # "idle"
  BY DEF Wait, TimeOut, AtLoop
<1>2. \/ pc' = [pc EXCEPT ![t] = "waiting"]
      \/ pc' = [pc EXCEPT ![t] = "expired"]
  BY DEF Wait, TimeOut
<1>3. /\ UNCHANGED <<buf, read_head, write_head, size, ticket_counter, now_serving,
                     abandoned, call, ticket>>
      /\ result' = NoResult
  BY DEF Wait, TimeOut
<1>4. ThreadsOK'
  BY <1>1, <1>2, <1>3 DEF TypeOK, ThreadsOK, NoResult, Status
<1> QED BY <1>3, <1>4 DEF TypeOK, BufferOK, QueuesOK

LEMMA TypeWriteAppend ==
  ASSUME TypeOK, NEW t \in Thread, WriteAppend(t)
  PROVE  TypeOK'
<1>1. Live(t) /\ ServeNext(t) /\ Return(t, "ok", <<>>)
  BY DEF WriteAppend, AtLoop, Live
<1>2. size # MaxLen
  BY MaxLenAssumption DEF WriteAppend, Ready, Satisfied, TypeOK, BufferOK
<1>3. BufferOK'
  <2>1. buf' \in [Index -> Item]
    BY DEF WriteAppend, TypeOK, BufferOK, Item
  <2>2. write_head' \in Index
    BY AdvanceHeadType, MaxLenAssumption DEF WriteAppend, TypeOK, BufferOK
  <2> QED BY <1>2, <2>1, <2>2, MaxLenAssumption DEF WriteAppend, TypeOK, BufferOK
<1> QED BY <1>1, <1>3, ServeType, EmptyData DEF TypeOK, Status

\* Where the items that a whole-buffer write keeps are in the block.
LEMMA LastItems ==
  ASSUME NEW n \in Nat, n >= MaxLen, NEW i \in Index
  PROVE  n - MaxLen + i + 1 \in 1 .. n
  BY MaxLenAssumption DEF Index

LEMMA TypeWriteExtendWhole ==
  ASSUME TypeOK, NEW t \in Thread, WriteExtendWhole(t)
  PROVE  TypeOK'
<1>1. Live(t) /\ ServeNext(t) /\ Return(t, "ok", <<>>)
  BY DEF WriteExtendWhole, AtLoop, Live
<1>2. call[t].block \in Seq(Value)
  BY <1>1 DEF WriteExtendWhole, TypeOK, ThreadsOK, Live, QueueCall, WriteCall,
              AppendCall, ExtendCall, ReadCall
<1>3. BufferOK'
  <2>1. /\ Len(call[t].block) \in Nat /\ Len(call[t].block) >= MaxLen
        /\ buf' = [i \in Index |-> call[t].block[Len(call[t].block) - MaxLen + i + 1]]
        /\ read_head' = 0 /\ write_head' = 0 /\ size' = MaxLen
    BY <1>2 DEF WriteExtendWhole
  <2>2. ASSUME NEW i \in Index
        PROVE  call[t].block[Len(call[t].block) - MaxLen + i + 1] \in Item
    <3>1. Len(call[t].block) - MaxLen + i + 1 \in 1 .. Len(call[t].block)
      BY <2>1, LastItems
    <3> QED BY <1>2, <3>1 DEF Item
  <2>3. buf' \in [Index -> Item]
    BY <2>1, <2>2
  <2>4. 0 \in Index /\ MaxLen \in 0 .. MaxLen
    BY MaxLenAssumption DEF Index
  <2> QED BY <2>1, <2>3, <2>4 DEF BufferOK
<1> QED BY <1>1, <1>3, ServeType, EmptyData DEF TypeOK, Status

\* The room a writer of a part-sized block waited for.
LEMMA ExtendRoom ==
  ASSUME TypeOK, NEW t \in Thread, WriteExtendPart(t)
  PROVE  /\ call[t].block \in Seq(Value)
         /\ Len(call[t].block) \in 0 .. MaxLen
         /\ size + Len(call[t].block) <= MaxLen
<1>1. Live(t)
  BY DEF WriteExtendPart, AtLoop, Live
<1>2. call[t].block \in Seq(Value)
  BY <1>1 DEF WriteExtendPart, TypeOK, ThreadsOK, Live, QueueCall, WriteCall,
              AppendCall, ExtendCall, ReadCall
<1>3. /\ Satisfied(call[t])
      /\ call[t].op = "extend" /\ Len(call[t].block) < MaxLen
  BY DEF WriteExtendPart, Ready
<1>4. MaxLen - size >= Len(call[t].block)
  BY <1>2, <1>3, MaxLenAssumption DEF Satisfied, TypeOK, BufferOK
<1> QED BY <1>2, <1>3, <1>4, MaxLenAssumption DEF TypeOK, BufferOK

LEMMA TypeWriteExtendPart ==
  ASSUME TypeOK, NEW t \in Thread, WriteExtendPart(t)
  PROVE  TypeOK'
<1>1. Live(t) /\ ServeNext(t) /\ Return(t, "ok", <<>>)
  BY DEF WriteExtendPart, AtLoop, Live
<1>2. BufferOK'
  <2>1. buf' \in [Index -> Item]
    <3>1. call[t].block \in Seq(Item)
      BY ExtendRoom DEF Item
    <3> QED BY <3>1, ExtendRoom, WriteDataType DEF WriteExtendPart, TypeOK, BufferOK
  <2>2. write_head' \in Index
    BY ExtendRoom, AdvanceHeadType DEF WriteExtendPart, TypeOK, BufferOK
  <2> QED BY <2>1, <2>2, ExtendRoom, MaxLenAssumption
          DEF WriteExtendPart, TypeOK, BufferOK
<1> QED BY <1>1, <1>2, ServeType, EmptyData DEF TypeOK, Status

\* How many items a reader that goes ahead takes.
LEMMA ReadAmount ==
  ASSUME TypeOK, NEW t \in Thread, AtLoop(t), Ready(t), call[t].op = "read"
  PROVE  MinSz(call[t].n, IF call[t].partial THEN size ELSE MaxLen) \in 1 .. size
<1>1. call[t] \in ReadCall /\ call[t].n > 0
  BY DEF AtLoop, TypeOK, ThreadsOK, QueueCall, WriteCall, AppendCall, ExtendCall,
         ReadCall, Count
<1>2. Satisfied(call[t])
  BY DEF Ready
<1>3. call[t].n \in Nat
  BY <1>1 DEF ReadCall
<1>4. CASE call[t].partial
  BY <1>1, <1>2, <1>3, <1>4 DEF Satisfied, MinSz, TypeOK, BufferOK
<1>5. CASE ~call[t].partial
  BY <1>1, <1>2, <1>3, <1>5, MaxLenAssumption DEF Satisfied, MinSz, TypeOK, BufferOK
<1> QED BY <1>4, <1>5

LEMMA TypeReadItems ==
  ASSUME TypeOK, NEW t \in Thread, ReadItems(t)
  PROVE  TypeOK'
<1> DEFINE n == MinSz(call[t].n, IF call[t].partial THEN size ELSE MaxLen)
<1>1. Live(t) /\ ServeNext(t) /\ Return(t, "ok", ReadData(buf, read_head, n))
  BY DEF ReadItems, AtLoop, Live
<1>2. n \in 1 .. size /\ n \in 0 .. MaxLen
  <2>1. n \in 1 .. size
    BY ReadAmount DEF ReadItems
  <2> QED BY <2>1, MaxLenAssumption DEF TypeOK, BufferOK
<1>3. ReadData(buf, read_head, n) \in Seq(Item)
  BY <1>2, ReadDataType DEF TypeOK, BufferOK
<1>4. BufferOK'
  <2>1. read_head' = ExtendAdvanceHead(read_head, n) /\ size' = size - n
    BY DEF ReadItems
  <2>2. read_head' \in Index
    BY <1>2, <2>1, AdvanceHeadType DEF TypeOK, BufferOK
  <2>3. size' \in 0 .. MaxLen
    BY <1>2, <2>1, MaxLenAssumption DEF TypeOK, BufferOK
  <2> QED BY <2>2, <2>3 DEF ReadItems, TypeOK, BufferOK
<1> QED BY <1>1, <1>3, <1>4, ServeType, EmptyData DEF TypeOK, Status

LEMMA TypeGiveUpTurn ==
  ASSUME TypeOK, NEW t \in Thread, GiveUpTurn(t)
  PROVE  TypeOK'
<1>1. Live(t) /\ ServeNext(t) /\ Return(t, "false", <<>>)
  BY DEF GiveUpTurn, Live
<1>2. BufferOK'
  BY DEF GiveUpTurn, TypeOK, BufferOK
<1> QED BY <1>1, <1>2, ServeType, EmptyData DEF TypeOK, Status

LEMMA TypeAbandonTicket ==
  ASSUME TypeOK, NEW t \in Thread, AbandonTicket(t)
  PROVE  TypeOK'
<1>1. LeaveNotifying(t, {}) /\ Return(t, "false", <<>>)
  BY DEF AbandonTicket
<1>2. BufferOK'
  BY DEF AbandonTicket, TypeOK, BufferOK
<1>3. QueuesOK'
  BY DEF AbandonTicket, TypeOK, QueuesOK, ThreadsOK
<1> QED BY <1>1, <1>2, <1>3, ReturnType, EmptyData DEF TypeOK, Status

LEMMA TypeRaiseInCall ==
  ASSUME TypeOK, NEW t \in Thread, RaiseInCall(t)
  PROVE  TypeOK'
<1>1. LeaveNotifying(t, {}) /\ Return(t, "raised", <<>>)
  BY DEF RaiseInCall
<1>2. BufferOK' /\ QueuesOK'
  BY DEF RaiseInCall, TypeOK, BufferOK, QueuesOK
<1> QED BY <1>1, <1>2, ReturnType, EmptyData DEF TypeOK, Status

LEMMA TypeReturnEmpty ==
  ASSUME TypeOK, NEW t \in Thread, NEW c \in Calls[t], ReturnEmpty(t, c)
  PROVE  TypeOK'
<1>1. result' \in [status : Status, data : Seq(Item)]
  BY ResultType, EmptyData DEF ReturnEmpty, Status
<1> QED BY <1>1 DEF ReturnEmpty, TypeOK, BufferOK, QueuesOK, ThreadsOK

LEMMA TypeClearBuffer ==
  ASSUME TypeOK, NEW t \in Thread, ClearBuffer(t)
  PROVE  TypeOK'
<1>1. BufferOK'
  BY MaxLenAssumption DEF ClearBuffer, TypeOK, BufferOK, Index
<1>2. QueuesOK'
  BY DEF ClearBuffer, TypeOK, QueuesOK
<1>3. result' \in [status : Status, data : Seq(Item)]
  BY ResultType, EmptyData DEF ClearBuffer, Status
<1>4. ThreadsOK'
  BY <1>3, NotifyType DEF ClearBuffer, TypeOK
<1> QED BY <1>1, <1>2, <1>4 DEF TypeOK

\* What clear_nans and clear_infs leave: at most the items there were, moved
\* together behind the read head.
LEMMA RemoveEffect ==
  ASSUME TypeOK, NEW t \in Thread, NEW target, RemoveItems(t, target)
  PROVE  \E kept \in Seq(Item) :
           /\ Len(kept) <= size
           /\ buf' = WriteData(buf, kept, read_head)
           /\ size' = Len(kept)
           /\ write_head' = ExtendAdvanceHead(read_head, Len(kept))
           /\ read_head' = read_head
<1> DEFINE items == ReadData(buf, read_head, size)
<1>1. items \in Seq(Item) /\ Len(items) = size
  BY ReadDataType DEF TypeOK, BufferOK
<1>2. PICK f \in KeptOrder(items, target) :
        /\ buf' = WriteData(buf, [i \in 1 .. Len(f) |-> items[f[i]]], read_head)
        /\ size' = Len([i \in 1 .. Len(f) |-> items[f[i]]])
        /\ write_head' = ExtendAdvanceHead(read_head,
                                           Len([i \in 1 .. Len(f) |-> items[f[i]]]))
  BY DEF RemoveItems
<1> DEFINE kept == [i \in 1 .. Len(f) |-> items[f[i]]]
<1>3. kept \in Seq(Item) /\ Len(kept) \in 0 .. Len(items)
  BY <1>1, KeptItems
<1>4. Len(kept) <= size
  <2> HIDE DEF kept
  <2> QED BY <1>1, <1>3 DEF TypeOK, BufferOK
<1>5. read_head' = read_head
  BY DEF RemoveItems
<1>6. /\ kept \in Seq(Item)
      /\ Len(kept) <= size
      /\ buf' = WriteData(buf, kept, read_head)
      /\ size' = Len(kept)
      /\ write_head' = ExtendAdvanceHead(read_head, Len(kept))
      /\ read_head' = read_head
  BY <1>2, <1>3, <1>4, <1>5
<1> HIDE DEF kept
<1> QED BY <1>6

LEMMA TypeRemoveItems ==
  ASSUME TypeOK, NEW t \in Thread, NEW target, RemoveItems(t, target)
  PROVE  TypeOK'
<1>1. PICK kept \in Seq(Item) :
        /\ Len(kept) <= size
        /\ buf' = WriteData(buf, kept, read_head)
        /\ size' = Len(kept)
        /\ write_head' = ExtendAdvanceHead(read_head, Len(kept))
        /\ read_head' = read_head
  BY RemoveEffect
<1>2. Len(kept) \in 0 .. MaxLen /\ Len(kept) <= MaxLen
  BY <1>1, MaxLenAssumption DEF TypeOK, BufferOK
<1>3. buf' \in [Index -> Item]
  BY <1>1, <1>2, WriteDataType DEF TypeOK, BufferOK
<1>4. BufferOK'
  BY <1>1, <1>2, <1>3, AdvanceHeadType DEF TypeOK, BufferOK
<1>5. QueuesOK'
  BY DEF RemoveItems, TypeOK, QueuesOK
<1>6. result' \in [status : Status, data : Seq(Item)]
  BY ResultType, EmptyData DEF RemoveItems, Status
<1>7. ThreadsOK'
  BY <1>6, NotifyType DEF RemoveItems, TypeOK
<1> QED BY <1>4, <1>5, <1>7 DEF TypeOK

LEMMA TypeStep == TypeOK /\ [Next]_vars => TypeOK'
<1> SUFFICES ASSUME TypeOK, [Next]_vars PROVE TypeOK'
  OBVIOUS
<1>1. CASE UNCHANGED vars
  BY <1>1 DEF vars, TypeOK, BufferOK, QueuesOK, ThreadsOK
<1>2. ASSUME NEW t \in Thread, Call(t) PROVE TypeOK'
  <2>1. PICK c \in Calls[t] :
          \/ ReturnEmpty(t, c)
          \/ DrawTicket(t, c)
          \/ c.op = "clear" /\ ClearBuffer(t)
          \/ c.op = "remove" /\ RemoveItems(t, c.target)
    BY <1>2 DEF Call
  <2> QED BY <2>1, TypeReturnEmpty, TypeDraw, TypeClearBuffer, TypeRemoveItems
<1>3. ASSUME NEW t \in Thread, Proceed(t) PROVE TypeOK'
  BY <1>3, TypeWaitTimeOut, TypeWriteAppend, TypeWriteExtendWhole,
     TypeWriteExtendPart, TypeReadItems, TypeGiveUpTurn, TypeAbandonTicket,
     TypeRaiseInCall DEF Proceed
<1>4. ASSUME NEW t \in Thread, TimeOut(t) PROVE TypeOK'
  BY <1>4, TypeWaitTimeOut
<1> QED BY <1>1, <1>2, <1>3, <1>4 DEF Next

\* The buffer's heads, size, queues and threads keep their types: no head leaves the
\* buffer, and no write or read takes more than there is, whatever is called.
THEOREM TypeCorrect == Spec => []TypeOK
<1>1. Init => TypeOK
  BY TypeInit
<1>2. TypeOK /\ [Next]_vars => TypeOK'
  BY TypeStep
<1> QED BY <1>1, <1>2, PTL DEF Spec
-------------------------------------------------------------------------------
(* The ring.                                                               *)

\* read_head is what the unlocked view computes, once the heads are consistent.
LEMMA StartPos ==
  ASSUME NEW head \in Index, NEW n \in 0 .. MaxLen
  PROVE  GetStartPos(ExtendAdvanceHead(head, n), n) = head
  BY MaxLenAssumption DEF GetStartPos, ExtendAdvanceHead, Index

\* Advancing a head twice is advancing it once by the sum.
LEMMA AdvanceTwice ==
  ASSUME NEW head \in Index, NEW m \in Nat, NEW n \in Nat, m + n <= MaxLen
  PROVE  ExtendAdvanceHead(ExtendAdvanceHead(head, m), n) = ExtendAdvanceHead(head, m + n)
  BY MaxLenAssumption DEF ExtendAdvanceHead, Index

LEMMA RingStep == TypeOK /\ RingConsistent /\ [Next]_vars => RingConsistent'
<1> SUFFICES ASSUME TypeOK, RingConsistent, [Next]_vars PROVE RingConsistent'
  OBVIOUS
<1>1. TypeOK'
  BY TypeStep
<1>2. SUFFICES write_head' = ExtendAdvanceHead(read_head', size')
  BY <1>1, StartPos DEF RingConsistent, TypeOK, BufferOK
<1>3. CASE UNCHANGED <<read_head, write_head, size>>
  BY <1>3 DEF RingConsistent
<1>4. ASSUME NEW t \in Thread, WriteAppend(t) PROVE write_head' = ExtendAdvanceHead(read_head', size')
  <2>1. size + 1 <= MaxLen
    BY <1>1, <1>4, MaxLenAssumption DEF WriteAppend, TypeOK, BufferOK
  <2>2. AppendAdvanceHead(write_head) = ExtendAdvanceHead(write_head, 1)
    BY MaxLenAssumption DEF TypeOK, BufferOK, AppendAdvanceHead, ExtendAdvanceHead, Index
  <2> QED BY <1>4, <2>1, <2>2, AdvanceTwice
          DEF WriteAppend, RingConsistent, TypeOK, BufferOK
<1>5. ASSUME NEW t \in Thread, WriteExtendWhole(t) PROVE write_head' = ExtendAdvanceHead(read_head', size')
  BY <1>5, MaxLenAssumption DEF WriteExtendWhole, ExtendAdvanceHead
<1>6. ASSUME NEW t \in Thread, WriteExtendPart(t) PROVE write_head' = ExtendAdvanceHead(read_head', size')
  <2>1. /\ Len(call[t].block) \in Nat
        /\ size + Len(call[t].block) <= MaxLen
    BY <1>6, ExtendRoom
  <2> QED BY <1>6, <2>1, AdvanceTwice DEF WriteExtendPart, RingConsistent, TypeOK, BufferOK
<1>7. ASSUME NEW t \in Thread, ReadItems(t) PROVE write_head' = ExtendAdvanceHead(read_head', size')
  <2> DEFINE n == MinSz(call[t].n, IF call[t].partial THEN size ELSE MaxLen)
  <2>1. n \in 1 .. size
    BY <1>7, ReadAmount DEF ReadItems
  <2>2. /\ read_head' = ExtendAdvanceHead(read_head, n)
        /\ size' = size - n /\ write_head' = write_head
    BY <1>7 DEF ReadItems
  <2> HIDE DEF n
  <2>3. n \in Nat /\ size - n \in Nat /\ n + (size - n) = size /\ size <= MaxLen
    BY <2>1 DEF TypeOK, BufferOK
  <2>4. ExtendAdvanceHead(ExtendAdvanceHead(read_head, n), size - n)
          = ExtendAdvanceHead(read_head, n + (size - n))
    BY <2>3, AdvanceTwice DEF TypeOK, BufferOK
  <2> QED BY <2>2, <2>3, <2>4 DEF RingConsistent
<1>8. ASSUME NEW t \in Thread, ClearBuffer(t) PROVE write_head' = ExtendAdvanceHead(read_head', size')
  BY <1>8, MaxLenAssumption DEF ClearBuffer, ExtendAdvanceHead
<1>9. ASSUME NEW t \in Thread, NEW target, RemoveItems(t, target)
      PROVE write_head' = ExtendAdvanceHead(read_head', size')
  BY <1>9, RemoveEffect
<1>10. ASSUME NEW t \in Thread, Call(t) PROVE write_head' = ExtendAdvanceHead(read_head', size')
  BY <1>3, <1>8, <1>9, <1>10 DEF Call, ReturnEmpty, DrawTicket
<1>11. ASSUME NEW t \in Thread, Proceed(t) PROVE write_head' = ExtendAdvanceHead(read_head', size')
  BY <1>3, <1>4, <1>5, <1>6, <1>7, <1>11
     DEF Proceed, Wait, GiveUpTurn, AbandonTicket, RaiseInCall
<1>12. ASSUME NEW t \in Thread, TimeOut(t) PROVE write_head' = ExtendAdvanceHead(read_head', size')
  BY <1>3, <1>12 DEF TimeOut
<1>13. CASE UNCHANGED vars
  BY <1>3, <1>13 DEF vars
<1> QED BY <1>10, <1>11, <1>12, <1>13 DEF Next

\* The oldest item is where both the locked readers and the unlocked view look for it.
THEOREM RingAlwaysConsistent == Spec => []RingConsistent
<1>1. Init => RingConsistent
  BY MaxLenAssumption DEF Init, RingConsistent, ExtendAdvanceHead, GetStartPos
<1>2. TypeOK /\ RingConsistent /\ [Next]_vars => RingConsistent'
  BY RingStep
<1> QED BY <1>1, <1>2, TypeCorrect, PTL DEF Spec
-------------------------------------------------------------------------------
(* Ticket arithmetic: a ticket is identified by how many turns after the   *)
(* one being served it comes, also after the counter wrapped.              *)

LEMMA TurnsType ==
  ASSUME NEW now \in Ticket, NEW k \in Ticket
  PROVE  /\ TurnsAfter(now, k) \in 0 .. TicketMod - 1
         /\ TurnsAfter(now, k) = 0 <=> k = now
         /\ TicketPlus(now, TurnsAfter(now, k)) = k
  BY TicketAssumption DEF TurnsAfter, TicketPlus, Ticket

LEMMA TurnsOfPlus ==
  ASSUME NEW now \in Ticket, NEW d \in 0 .. TicketMod - 1
  PROVE  TurnsAfter(now, TicketPlus(now, d)) = d
  BY TicketAssumption DEF TurnsAfter, TicketPlus, Ticket

\* Turns after a later ticket.
LEMMA TurnsLater ==
  ASSUME NEW now \in Ticket, NEW k \in Ticket, NEW d \in 0 .. TicketMod - 1
  PROVE  TurnsAfter(TicketPlus(now, d), k)
           = IF TurnsAfter(now, k) >= d THEN TurnsAfter(now, k) - d
             ELSE TurnsAfter(now, k) + TicketMod - d
  BY TicketAssumption DEF TurnsAfter, TicketPlus, Ticket

\* Drawing a ticket moves the counter one turn further away.
LEMMA TurnsDraw ==
  ASSUME NEW now \in Ticket, NEW cnt \in Ticket, TicketPlus(cnt, 1) # now
  PROVE  TurnsAfter(now, TicketPlus(cnt, 1)) = TurnsAfter(now, cnt) + 1
  BY TicketAssumption DEF TurnsAfter, TicketPlus, Ticket

\* Serving the next ticket that was not abandoned, seen in one queue: the turn does
\* not pass the counter (1, 2), nothing else that is outstanding and not abandoned is
\* passed over (2), and nothing becomes outstanding (3).
LEMMA ServeQueue ==
  ASSUME NEW now \in Ticket, NEW cnt \in Ticket, NEW A \in SUBSET Ticket,
         NEW d \in 1 .. TicketMod - 1,
         Between(now, d) \subseteq A, TicketPlus(now, d) \notin A,
         \A k \in A : 0 < TurnsAfter(now, k) /\ TurnsAfter(now, k) < TurnsAfter(now, cnt),
         0 < TurnsAfter(now, cnt)
  PROVE  /\ \A k \in A \ Between(now, d) :
              /\ 0 < TurnsAfter(TicketPlus(now, d), k)
              /\ TurnsAfter(TicketPlus(now, d), k) < TurnsAfter(TicketPlus(now, d), cnt)
         /\ \A k \in Ticket \ A :
              0 < TurnsAfter(now, k) /\ TurnsAfter(now, k) < TurnsAfter(now, cnt)
                => TurnsAfter(TicketPlus(now, d), k) < TurnsAfter(TicketPlus(now, d), cnt)
         /\ \A k \in Ticket \ (A \ Between(now, d)) :
              TurnsAfter(TicketPlus(now, d), k) < TurnsAfter(TicketPlus(now, d), cnt)
                => /\ k \notin A
                   /\ 0 < TurnsAfter(now, k) /\ TurnsAfter(now, k) < TurnsAfter(now, cnt)
<1> DEFINE skipped == Between(now, d)
           next == TicketPlus(now, d)
           T(k) == TurnsAfter(now, k)
<1>1. \A k \in Ticket : /\ T(k) \in 0 .. TicketMod - 1
                        /\ T(k) = 0 <=> k = now
                        /\ TicketPlus(now, T(k)) = k
  BY TurnsType
<1>2. \A k \in Ticket : TurnsAfter(next, k) = IF T(k) >= d THEN T(k) - d
                                              ELSE T(k) + TicketMod - d
  BY TurnsLater, TicketAssumption
<1>3. \A k \in Ticket : T(k) # 0 /\ T(k) < d => k \in skipped
  <2> SUFFICES ASSUME NEW k \in Ticket, T(k) # 0, T(k) < d PROVE k \in skipped
    OBVIOUS
  <2>1. T(k) \in 1 .. d - 1
    BY <1>1, TicketAssumption
  <2> QED BY <1>1, <2>1 DEF Between
<1>4. \A k \in skipped : k \in Ticket /\ T(k) < d
  <2> SUFFICES ASSUME NEW e \in 1 .. d - 1
               PROVE  TicketPlus(now, e) \in Ticket /\ T(TicketPlus(now, e)) < d
    BY DEF Between
  <2>1. e \in 0 .. TicketMod - 1 /\ e \in 0 .. TicketMod
    BY TicketAssumption
  <2> QED BY <2>1, TurnsOfPlus, TicketPlusType
<1>5. d <= T(cnt)
  <2> SUFFICES ASSUME T(cnt) < d PROVE FALSE
    BY <1>1, TicketAssumption
  <2>1. cnt \in skipped
    BY <1>1, <1>3
  <2> QED BY <2>1, <1>1
<1>6. \A k \in Ticket : T(k) = d => k = TicketPlus(now, d)
  BY <1>1
<1> HIDE DEF T
<1>7. ASSUME NEW k \in A \ skipped
      PROVE  0 < TurnsAfter(next, k) /\ TurnsAfter(next, k) < TurnsAfter(next, cnt)
  <2>1. k \in Ticket /\ 0 < T(k) /\ T(k) < T(cnt)
    BY <1>7 DEF T
  <2>2. T(k) \in Nat /\ T(cnt) \in Nat /\ T(k) >= d /\ T(k) # d
    BY <1>1, <1>3, <1>6, <1>7, <2>1, TicketAssumption
  <2> QED BY <1>2, <1>5, <2>1, <2>2
<1>8. ASSUME NEW k \in Ticket \ A, 0 < T(k), T(k) < T(cnt)
      PROVE  TurnsAfter(next, k) < TurnsAfter(next, cnt)
  <2>1. T(k) \in Nat /\ T(cnt) \in Nat /\ T(k) >= d
    BY <1>1, <1>3, <1>8, TicketAssumption
  <2> QED BY <1>2, <1>5, <1>8, <2>1
<1>9. ASSUME NEW k \in Ticket \ (A \ skipped), TurnsAfter(next, k) < TurnsAfter(next, cnt)
      PROVE  k \notin A /\ 0 < T(k) /\ T(k) < T(cnt)
  <2>1. T(k) \in 0 .. TicketMod - 1 /\ T(cnt) \in 0 .. TicketMod - 1
    BY <1>1
  <2>2. T(k) >= d /\ T(k) < T(cnt)
    BY <1>2, <1>5, <1>9, <2>1, TicketAssumption
  <2>3. k \notin skipped
    BY <1>4, <2>1, <2>2
  <2> QED BY <1>9, <2>1, <2>2, <2>3
<1> QED BY <1>7, <1>8, <1>9 DEF T
-------------------------------------------------------------------------------
(* The ticket queues.                                                      *)

TicketInv == HeldOutstanding /\ TicketsDistinct /\ AbandonedAhead

\* The invariants, seen from one queue.
LEMMA TicketFacts ==
  ASSUME TypeOK, TicketInv, NEW q \in Queue
  PROVE  /\ now_serving[q] \in Ticket /\ ticket_counter[q] \in Ticket
         /\ abandoned[q] \in SUBSET Ticket
         /\ \A t \in InQueue(q) :
              /\ ticket[t] \in Ticket \ abandoned[q]
              /\ Dist(q, ticket[t]) < Dist(q, ticket_counter[q])
         /\ \A t, u \in InQueue(q) : ticket[t] = ticket[u] => t = u
         /\ \A k \in abandoned[q] :
              0 < Dist(q, k) /\ Dist(q, k) < Dist(q, ticket_counter[q])
<1>1. /\ now_serving[q] \in Ticket /\ ticket_counter[q] \in Ticket
      /\ abandoned[q] \in SUBSET Ticket
  BY DEF TypeOK, QueuesOK
<1>2. \A t \in InQueue(q) :
        /\ ticket[t] \in Ticket \ abandoned[q]
        /\ Dist(q, ticket[t]) < Dist(q, ticket_counter[q])
  BY DEF TicketInv, HeldOutstanding, Outstanding
<1>3. \A t, u \in InQueue(q) : ticket[t] = ticket[u] => t = u
  BY DEF TicketInv, TicketsDistinct
<1>4. ASSUME NEW k \in abandoned[q]
      PROVE  0 < Dist(q, k) /\ Dist(q, k) < Dist(q, ticket_counter[q])
  <2>1. k \in Ticket /\ k # now_serving[q] /\ Dist(q, k) < Dist(q, ticket_counter[q])
    BY <1>4 DEF TicketInv, AbandonedAhead, Outstanding
  <2> QED BY <1>1, <2>1, TurnsType DEF Dist
<1> QED BY <1>1, <1>2, <1>3, <1>4

\* A thread that returns leaves its queue and changes no other thread's locals.
LEMMA LeaveQueue ==
  ASSUME ThreadsOK, NEW t \in Thread, NEW qs, LeaveNotifying(t, qs),
         NEW status, NEW data, Return(t, status, data)
  PROVE  /\ \A u \in Thread : Live(u)' <=> Live(u) /\ u # t
         /\ \A u \in Thread \ {t} : call'[u] = call[u] /\ ticket'[u] = ticket[u]
         /\ \A q \in Queue : InQueue(q)' = InQueue(q) \ {t}
<1>1. \A u \in Thread : Live(u)' <=> Live(u) /\ u # t
  BY DEF LeaveNotifying, Live, ThreadsOK
<1>2. \A u \in Thread \ {t} : call'[u] = call[u] /\ ticket'[u] = ticket[u]
  BY DEF Return, ThreadsOK
<1> QED BY <1>1, <1>2 DEF InQueue

\* A thread in a call is in the queue of the call.
LEMMA OwnQueue ==
  ASSUME NEW t \in Thread, Live(t)
  PROVE  QueueOf(call[t]) \in Queue /\ t \in InQueue(QueueOf(call[t]))
  BY DEF InQueue, QueueOf, Queue

LEMMA QuietTickets ==
  ASSUME TicketInv, UNCHANGED <<ticket_counter, now_serving, abandoned, call, ticket>>,
         \A u \in Thread : Live(u)' <=> Live(u)
  PROVE  TicketInv'
<1>1. \A q \in Queue : InQueue(q)' = InQueue(q)
  BY DEF InQueue
<1>2. \A q \in Queue : Outstanding(q)' = Outstanding(q)
  BY DEF Outstanding, Dist
<1> QED BY <1>1, <1>2 DEF TicketInv, HeldOutstanding, TicketsDistinct, AbandonedAhead

LEMMA DrawTickets ==
  ASSUME TypeOK, TicketInv, NEW t \in Thread, NEW c \in Calls[t], DrawTicket(t, c)
  PROVE  TicketInv'
<1> DEFINE p == QueueOf(c)
<1>1. /\ p \in Queue /\ TicketPlus(ticket_counter[p], 1) # now_serving[p]
      /\ ~Live(t)
      /\ pc' = [pc EXCEPT ![t] = "arrived"] /\ call' = [call EXCEPT ![t] = c]
      /\ ticket' = [ticket EXCEPT ![t] = ticket_counter[p]]
      /\ ticket_counter' = [ticket_counter EXCEPT ![p] = TicketPlus(@, 1)]
      /\ UNCHANGED <<now_serving, abandoned>>
  BY DEF DrawTicket, TicketRoom, Live, QueueOf, Queue
<1> HIDE DEF p
<1>2. /\ \A u \in Thread \ {t} : /\ (Live(u)' <=> Live(u))
                                 /\ call'[u] = call[u] /\ ticket'[u] = ticket[u]
      /\ Live(t)' /\ call'[t] = c /\ ticket'[t] = ticket_counter[p]
  BY <1>1 DEF Live, TypeOK, ThreadsOK
<1>3. ASSUME NEW q \in Queue, q # p
      PROVE  InQueue(q)' = InQueue(q) /\ Outstanding(q)' = Outstanding(q)
  <2>1. InQueue(q)' = InQueue(q)
    BY <1>1, <1>2, <1>3 DEF InQueue, p
  <2>2. ticket_counter'[q] = ticket_counter[q]
    BY <1>1, <1>3 DEF TypeOK, QueuesOK
  <2> QED BY <1>1, <2>1, <2>2 DEF Outstanding, Dist
<1>4. InQueue(p)' = InQueue(p) \cup {t}
  BY <1>1, <1>2 DEF InQueue, p
<1>5. /\ Dist(p, ticket_counter[p]) \in Nat
      /\ (Dist(p, ticket_counter[p]))' = Dist(p, ticket_counter[p]) + 1
  <2>1. now_serving[p] \in Ticket /\ ticket_counter[p] \in Ticket
    BY <1>1 DEF TypeOK, QueuesOK
  <2>2. ticket_counter'[p] = TicketPlus(ticket_counter[p], 1)
    BY <1>1 DEF TypeOK, QueuesOK
  <2> QED BY <1>1, <2>1, <2>2, TurnsType, TurnsDraw, TicketAssumption DEF Dist
<1>6. \A k \in Ticket : Dist(p, k)' = Dist(p, k) /\ Dist(p, k) \in Nat
  BY <1>1, TurnsType, TicketAssumption DEF Dist, TypeOK, QueuesOK
<1>7. ticket_counter[p] \in Ticket
  BY <1>1 DEF TypeOK, QueuesOK
<1>8. Outstanding(p)' = Outstanding(p) \cup {ticket_counter[p]}
  <2>1. \A k \in Ticket : Dist(p, k) = Dist(p, ticket_counter[p]) => k = ticket_counter[p]
    BY <1>1, <1>7, TurnsType DEF Dist, TypeOK, QueuesOK
  <2> QED BY <1>5, <1>6, <1>7, <2>1 DEF Outstanding
<1>9. ticket_counter[p] \notin Outstanding(p)
  BY <1>5 DEF Outstanding
<1>10. HeldOutstanding'
  <2> SUFFICES ASSUME NEW q \in Queue, NEW u \in InQueue(q)'
               PROVE  ticket'[u] \in Outstanding(q)' \ abandoned'[q]
    BY DEF HeldOutstanding
  <2>1. CASE q # p
    BY <1>1, <1>2, <1>3, <2>1 DEF TicketInv, HeldOutstanding, InQueue
  <2>2. CASE q = p /\ u # t
    BY <1>1, <1>2, <1>4, <1>8, <2>2 DEF TicketInv, HeldOutstanding, InQueue
  <2>3. CASE q = p /\ u = t
    BY <1>1, <1>2, <1>8, <1>9, <2>3 DEF TicketInv, AbandonedAhead
  <2> QED BY <2>1, <2>2, <2>3
<1>11. TicketsDistinct'
  <2> SUFFICES ASSUME NEW q \in Queue, NEW u \in InQueue(q)', NEW v \in InQueue(q)',
                      ticket'[u] = ticket'[v]
               PROVE  u = v
    BY DEF TicketsDistinct
  <2>1. CASE q # p
    BY <1>1, <1>2, <1>3, <2>1 DEF TicketInv, TicketsDistinct, InQueue
  <2>2. CASE q = p /\ u # t /\ v # t
    BY <1>2, <1>4, <2>2 DEF TicketInv, TicketsDistinct, InQueue
  <2>3. CASE q = p /\ u # t /\ v = t
    BY <1>2, <1>4, <1>9, <2>3 DEF TicketInv, HeldOutstanding, InQueue
  <2>4. CASE q = p /\ u = t /\ v # t
    BY <1>2, <1>4, <1>9, <2>4 DEF TicketInv, HeldOutstanding, InQueue
  <2> QED BY <2>1, <2>2, <2>3, <2>4
<1>12. AbandonedAhead'
  BY <1>1, <1>3, <1>8 DEF TicketInv, AbandonedAhead
<1> QED BY <1>10, <1>11, <1>12 DEF TicketInv

\* Returning without serving the next ticket: the ticket is abandoned, or (after an
\* exception) just dropped.
LEMMA LeaveTickets ==
  ASSUME TypeOK, TicketInv, NEW t \in Thread, AbandonTicket(t) \/ RaiseInCall(t)
  PROVE  TicketInv'
<1> DEFINE p == QueueOf(call[t])
<1>1. Live(t) /\ UNCHANGED <<ticket_counter, now_serving>>
  BY DEF AbandonTicket, RaiseInCall, Live, AtLoop, WarningFails
<1>2. /\ \A u \in Thread : Live(u)' <=> Live(u) /\ u # t
      /\ \A u \in Thread \ {t} : call'[u] = call[u] /\ ticket'[u] = ticket[u]
      /\ \A q \in Queue : InQueue(q)' = InQueue(q) \ {t}
  BY LeaveQueue DEF AbandonTicket, RaiseInCall, TypeOK
<1>3. \A q \in Queue : Outstanding(q)' = Outstanding(q)
  BY <1>1 DEF Outstanding, Dist
<1>4. p \in Queue /\ t \in InQueue(p)
  BY <1>1, OwnQueue
<1>5. \A q \in Queue : \/ abandoned'[q] = abandoned[q]
                       \/ /\ q = p /\ now_serving[p] # ticket[t]
                          /\ abandoned'[p] = abandoned[p] \cup {ticket[t]}
  BY <1>4 DEF AbandonTicket, RaiseInCall, Turn, TypeOK, QueuesOK
<1> HIDE DEF p
<1>6. ASSUME NEW q \in Queue, NEW u \in InQueue(q)'
      PROVE  ticket'[u] \in Outstanding(q)' \ abandoned'[q]
  <2>1. u # t /\ u \in InQueue(q) /\ ticket'[u] = ticket[u]
    BY <1>2, <1>6 DEF InQueue
  <2>2. ticket[u] \in Outstanding(q) \ abandoned[q]
    BY <2>1 DEF TicketInv, HeldOutstanding
  <2>3. q = p => ticket[u] # ticket[t]
    BY <1>4, <2>1 DEF TicketInv, TicketsDistinct
  <2> QED BY <1>3, <1>5, <2>1, <2>2, <2>3
<1>7. TicketsDistinct'
  BY <1>2 DEF TicketInv, TicketsDistinct, InQueue
<1>8. ASSUME NEW q \in Queue
      PROVE  abandoned'[q] \subseteq Outstanding(q)' \ {now_serving'[q]}
  <2>1. abandoned[q] \subseteq Outstanding(q) \ {now_serving[q]}
    BY DEF TicketInv, AbandonedAhead
  <2>2. ticket[t] \in Outstanding(p)
    BY <1>4 DEF TicketInv, HeldOutstanding
  <2> QED BY <1>1, <1>3, <1>5, <2>1, <2>2
<1>9. HeldOutstanding'
  BY <1>6 DEF HeldOutstanding
<1>10. AbandonedAhead'
  BY <1>8 DEF AbandonedAhead
<1> QED BY <1>7, <1>9, <1>10 DEF TicketInv

\* What serving the next ticket does to the outstanding and the abandoned tickets of
\* each queue, in terms of the queue before.
LEMMA ServeEffect ==
  ASSUME TypeOK, TicketInv, NEW t \in Thread, Live(t), Turn(t), ServeNext(t),
         NEW status, NEW data, Return(t, status, data), NEW q \in Queue
  PROVE  /\ InQueue(q)' = InQueue(q) \ {t}
         /\ \A u \in InQueue(q) \ {t} :
              /\ ticket'[u] = ticket[u]
              /\ ticket[u] \in Outstanding(q)' \ abandoned'[q]
         /\ abandoned'[q] \subseteq Outstanding(q)' \ {now_serving'[q]}
         /\ \A k \in Outstanding(q)' \ abandoned'[q] :
              /\ k \in Outstanding(q) \ abandoned[q]
              /\ t \in InQueue(q) => k # ticket[t]
<1> DEFINE p == QueueOf(call[t])
           now == now_serving[q]
           cnt == ticket_counter[q]
<1>1. /\ p \in Queue /\ t \in InQueue(p) /\ now_serving[p] = ticket[t]
      /\ UNCHANGED ticket_counter
  BY OwnQueue DEF Turn, ServeNext
<1>2. /\ \A u \in Thread \ {t} : ticket'[u] = ticket[u]
      /\ InQueue(q)' = InQueue(q) \ {t}
  BY LeaveQueue DEF ServeNext, TypeOK
<1>3. TypeOK /\ QueuesOK'
  BY <1>1, AdvanceTicketType DEF ServeNext, TypeOK
<1>4. /\ now \in Ticket /\ cnt \in Ticket
      /\ abandoned[q] \in SUBSET Ticket
      /\ \A u \in InQueue(q) :
           /\ ticket[u] \in Ticket \ abandoned[q]
           /\ TurnsAfter(now, ticket[u]) < TurnsAfter(now, cnt)
      /\ \A u, v \in InQueue(q) : ticket[u] = ticket[v] => u = v
      /\ \A k \in abandoned[q] :
           0 < TurnsAfter(now, k) /\ TurnsAfter(now, k) < TurnsAfter(now, cnt)
  BY TicketFacts DEF Dist
<1> HIDE DEF p
<1>5. CASE q # p
  <2>1. now_serving'[q] = now_serving[q] /\ abandoned'[q] = abandoned[q]
    BY <1>1, <1>5 DEF ServeNext, AdvanceTicket, p, TypeOK, QueuesOK
  <2>2. Outstanding(q)' = Outstanding(q)
    BY <1>1, <2>1 DEF Outstanding, Dist
  <2>3. t \notin InQueue(q)
    BY <1>5 DEF p, InQueue
  <2> QED BY <1>2, <2>1, <2>2, <2>3
          DEF TicketInv, HeldOutstanding, AbandonedAhead, InQueue
<1>6. CASE q = p
  <2>0. AdvanceTicket(q)
    BY <1>6 DEF ServeNext, p
  <2>1. PICK d \in 1 .. TicketMod - 1 :
          /\ Between(now, d) \subseteq abandoned[q]
          /\ TicketPlus(now, d) \notin abandoned[q]
          /\ now_serving' = [now_serving EXCEPT ![q] = TicketPlus(@, d)]
          /\ abandoned' = [abandoned EXCEPT ![q] = @ \ Between(now, d)]
    BY <2>0 DEF AdvanceTicket
  <2> DEFINE skipped == Between(now, d)
             next == TicketPlus(now, d)
  <2>2. now_serving'[q] = next /\ abandoned'[q] = abandoned[q] \ skipped
    BY <2>1 DEF TypeOK, QueuesOK
  <2>3. skipped \subseteq abandoned[q] /\ next \notin abandoned[q]
    BY <2>1
  <2>4. ticket[t] = now /\ TurnsAfter(now, now) = 0 /\ 0 < TurnsAfter(now, cnt)
    BY <1>1, <1>4, <1>6, TurnsType, TicketAssumption
  <2> HIDE DEF now, cnt, skipped, next
  <2>5. /\ \A k \in abandoned[q] \ skipped :
             0 < TurnsAfter(next, k) /\ TurnsAfter(next, k) < TurnsAfter(next, cnt)
        /\ \A k \in Ticket \ abandoned[q] :
             0 < TurnsAfter(now, k) /\ TurnsAfter(now, k) < TurnsAfter(now, cnt)
               => TurnsAfter(next, k) < TurnsAfter(next, cnt)
        /\ \A k \in Ticket \ (abandoned[q] \ skipped) :
             TurnsAfter(next, k) < TurnsAfter(next, cnt)
               => /\ k \notin abandoned[q]
                  /\ 0 < TurnsAfter(now, k) /\ TurnsAfter(now, k) < TurnsAfter(now, cnt)
    <3>1. d \in 1 .. TicketMod - 1
      BY <2>1
    <3> QED BY <1>4, <2>3, <2>4, <3>1, ServeQueue DEF skipped, next
  <2>6. /\ Outstanding(q) = {k \in Ticket : TurnsAfter(now, k) < TurnsAfter(now, cnt)}
        /\ Outstanding(q)' = {k \in Ticket : TurnsAfter(next, k) < TurnsAfter(next, cnt)}
    BY <1>1, <2>2 DEF Outstanding, Dist, now, cnt
  <2>7. ASSUME NEW u \in InQueue(q) \ {t}
        PROVE  ticket[u] \in Outstanding(q)' \ abandoned'[q]
    <3>1. ticket[u] # now
      BY <1>1, <1>4, <1>6, <2>4, <2>7
    <3>2. 0 < TurnsAfter(now, ticket[u])
      BY <1>4, <2>7, <3>1, TurnsType, TicketAssumption
    <3> QED BY <1>4, <2>2, <2>5, <2>6, <2>7, <3>2
  <2>8. abandoned'[q] \subseteq Outstanding(q)' \ {now_serving'[q]}
    <3>1. \A k \in abandoned[q] \ skipped : k \in Ticket /\ k # next
      BY <1>4, <2>3
    <3> QED BY <2>2, <2>5, <2>6, <3>1
  <2>9. ASSUME NEW k \in Outstanding(q)' \ abandoned'[q]
        PROVE  k \in Outstanding(q) \ abandoned[q] /\ k # ticket[t]
    BY <2>2, <2>4, <2>5, <2>6, <2>9
  <2>10. \A u \in InQueue(q) \ {t} : ticket'[u] = ticket[u]
    BY <1>2 DEF InQueue
  <2> QED BY <1>2, <2>7, <2>8, <2>9, <2>10
<1> QED BY <1>5, <1>6

LEMMA ServeTickets ==
  ASSUME TypeOK, TicketInv, NEW t \in Thread, Live(t), Turn(t), ServeNext(t),
         NEW status, NEW data, Return(t, status, data)
  PROVE  TicketInv'
<1>1. \A q \in Queue :
        /\ InQueue(q)' = InQueue(q) \ {t}
        /\ \A u \in InQueue(q) \ {t} :
             /\ ticket'[u] = ticket[u]
             /\ ticket[u] \in Outstanding(q)' \ abandoned'[q]
        /\ abandoned'[q] \subseteq Outstanding(q)' \ {now_serving'[q]}
  BY ServeEffect
<1>2. HeldOutstanding'
  BY <1>1 DEF HeldOutstanding
<1>3. TicketsDistinct'
  BY <1>1 DEF TicketInv, TicketsDistinct
<1>4. AbandonedAhead'
  BY <1>1 DEF AbandonedAhead
<1> QED BY <1>2, <1>3, <1>4 DEF TicketInv

\* Every step either serves the next ticket, draws one, leaves one behind, or does
\* not touch the queues at all.
LEMMA StepKinds ==
  ASSUME TypeOK, [Next]_vars
  PROVE  \/ \E t \in Thread, status \in Status : \E data :
              /\ Live(t) /\ Turn(t) /\ ServeNext(t) /\ Return(t, status, data)
         \/ \E t \in Thread : \E c \in Calls[t] : DrawTicket(t, c)
         \/ \E t \in Thread : AbandonTicket(t) \/ RaiseInCall(t)
         \/ /\ UNCHANGED <<ticket_counter, now_serving, abandoned, call, ticket>>
            /\ \A u \in Thread : Live(u)' <=> Live(u)
<1> DEFINE Goal ==
      \/ \E t \in Thread, status \in Status : \E data :
           /\ Live(t) /\ Turn(t) /\ ServeNext(t) /\ Return(t, status, data)
      \/ \E t \in Thread : \E c \in Calls[t] : DrawTicket(t, c)
      \/ \E t \in Thread : AbandonTicket(t) \/ RaiseInCall(t)
      \/ /\ UNCHANGED <<ticket_counter, now_serving, abandoned, call, ticket>>
         /\ \A u \in Thread : Live(u)' <=> Live(u)
<1>1. CASE UNCHANGED vars
  BY <1>1 DEF vars, Live
<1>2. ASSUME NEW t \in Thread, Call(t) PROVE Goal
  <2>1. PICK c \in Calls[t] :
          \/ ReturnEmpty(t, c)
          \/ DrawTicket(t, c)
          \/ c.op = "clear" /\ ClearBuffer(t)
          \/ c.op = "remove" /\ RemoveItems(t, c.target)
    BY <1>2 DEF Call
  <2>2. CASE ReturnEmpty(t, c)
    BY <2>2 DEF ReturnEmpty, Live
  <2>3. ASSUME pc[t] = "idle", LeaveNotifying(t, {"write"})
        PROVE  \A u \in Thread : Live(u)' <=> Live(u)
    BY <2>3 DEF LeaveNotifying, Live, TypeOK, ThreadsOK
  <2>4. CASE ClearBuffer(t)
    BY <2>3, <2>4 DEF ClearBuffer
  <2>5. CASE RemoveItems(t, c.target)
    BY <2>3, <2>5 DEF RemoveItems
  <2> QED BY <2>1, <2>2, <2>4, <2>5
<1>3. ASSUME NEW t \in Thread, Wait(t) \/ TimeOut(t) PROVE Goal
  BY <1>3 DEF Wait, TimeOut, AtLoop, Live, TypeOK, ThreadsOK
<1>4. ASSUME NEW t \in Thread,
             WriteAppend(t) \/ WriteExtendWhole(t) \/ WriteExtendPart(t) \/ GiveUpTurn(t)
      PROVE  Goal
  <2>1. Live(t) /\ Turn(t) /\ ServeNext(t)
    BY <1>4 DEF WriteAppend, WriteExtendWhole, WriteExtendPart, GiveUpTurn, AtLoop,
                Ready, Live
  <2>2. \E status \in Status : Return(t, status, <<>>)
    BY <1>4 DEF WriteAppend, WriteExtendWhole, WriteExtendPart, GiveUpTurn, Status
  <2> QED BY <2>1, <2>2
<1>5. ASSUME NEW t \in Thread, ReadItems(t) PROVE Goal
  <2>1. Live(t) /\ Turn(t) /\ ServeNext(t)
    BY <1>5 DEF ReadItems, AtLoop, Ready, Live
  <2>2. \E data : Return(t, "ok", data)
    BY <1>5 DEF ReadItems
  <2> QED BY <2>1, <2>2 DEF Status
<1>6. ASSUME NEW t \in Thread, Proceed(t) PROVE Goal
  BY <1>3, <1>4, <1>5, <1>6 DEF Proceed
<1> HIDE DEF Goal
<1>7. Goal
  BY <1>1, <1>2, <1>3, <1>6 DEF Next, Goal
<1> QED BY <1>7 DEF Goal

LEMMA TicketStep == TypeOK /\ TicketInv /\ [Next]_vars => TicketInv'
<1> SUFFICES ASSUME TypeOK, TicketInv, [Next]_vars PROVE TicketInv'
  OBVIOUS
<1> QED BY StepKinds, ServeTickets, DrawTickets, LeaveTickets, QuietTickets

LEMMA TicketInit == Init => TicketInv
<1> SUFFICES ASSUME Init PROVE TicketInv
  OBVIOUS
<1>1. \A q \in Queue : InQueue(q) = {} /\ abandoned[q] = {}
  BY DEF Init, InQueue, Live
<1> QED BY <1>1 DEF TicketInv, HeldOutstanding, TicketsDistinct, AbandonedAhead

\* No ticket is held twice, none that is held was passed over or abandoned, and the
\* turn never rests on an abandoned ticket, with any interleaving of time-outs and
\* also after the counters wrapped.
THEOREM TicketsCorrect == Spec => [](HeldOutstanding /\ TicketsDistinct /\ AbandonedAhead)
<1>1. Init => TicketInv
  BY TicketInit
<1>2. TypeOK /\ TicketInv /\ [Next]_vars => TicketInv'
  BY TicketStep
<1>3. TicketInv => HeldOutstanding /\ TicketsDistinct /\ AbandonedAhead
  BY DEF TicketInv
<1> QED BY <1>1, <1>2, <1>3, TypeCorrect, PTL DEF Spec
-------------------------------------------------------------------------------
(* No turn is given to nobody, as long as no call raises.                  *)

NoFailure == BadValue = {} /\ ~WarningsRaise

LEMMA StrandStep ==
  ASSUME NoFailure, TypeOK, TicketInv, NoStrandedTicket, [Next]_vars
  PROVE  NoStrandedTicket'
<1>1. ASSUME NEW t \in Thread, NEW status \in Status, NEW data,
             Live(t), Turn(t), ServeNext(t), Return(t, status, data)
      PROVE  NoStrandedTicket'
  <2> SUFFICES ASSUME NEW q \in Queue, NEW k \in Outstanding(q)' \ abandoned'[q]
               PROVE  \E u \in InQueue(q)' : ticket'[u] = k
    BY DEF NoStrandedTicket
  <2>1. /\ InQueue(q)' = InQueue(q) \ {t}
        /\ \A u \in InQueue(q) \ {t} : ticket'[u] = ticket[u]
        /\ k \in Outstanding(q) \ abandoned[q]
        /\ t \in InQueue(q) => k # ticket[t]
    BY <1>1, ServeEffect
  <2>2. PICK u \in InQueue(q) : ticket[u] = k
    BY <2>1 DEF NoStrandedTicket
  <2> QED BY <2>1, <2>2
<1>2. ASSUME NEW t \in Thread, NEW c \in Calls[t], DrawTicket(t, c)
      PROVE  NoStrandedTicket'
  <2> SUFFICES ASSUME NEW q \in Queue, NEW k \in Outstanding(q)' \ abandoned'[q]
               PROVE  \E u \in InQueue(q)' : ticket'[u] = k
    BY DEF NoStrandedTicket
  <2>1. /\ ~Live(t) /\ Live(t)' /\ call'[t] = c
        /\ ticket'[t] = ticket_counter[QueueOf(c)]
        /\ \A u \in Thread \ {t} : /\ Live(u)' <=> Live(u)
                                   /\ call'[u] = call[u] /\ ticket'[u] = ticket[u]
    BY <1>2 DEF DrawTicket, Live, TypeOK, ThreadsOK
  <2>2. /\ UNCHANGED <<now_serving, abandoned>>
        /\ QueueOf(c) \in Queue
        /\ TicketPlus(ticket_counter[QueueOf(c)], 1) # now_serving[QueueOf(c)]
        /\ ticket_counter' = [ticket_counter EXCEPT ![QueueOf(c)] = TicketPlus(@, 1)]
    BY <1>2 DEF DrawTicket, TicketRoom, QueueOf, Queue
  <2>3. CASE k \in Outstanding(q)
    <3>1. PICK u \in InQueue(q) : ticket[u] = k
      BY <2>2, <2>3 DEF NoStrandedTicket
    <3> QED BY <2>1, <3>1 DEF InQueue
  <2>4. CASE k \notin Outstanding(q)
    <3>1. /\ now_serving[q] \in Ticket /\ ticket_counter[q] \in Ticket /\ k \in Ticket
          /\ TurnsAfter(now_serving[q], k) < TurnsAfter(now_serving[q], ticket_counter'[q])
          /\ ~(TurnsAfter(now_serving[q], k) < TurnsAfter(now_serving[q], ticket_counter[q]))
      BY <2>2, <2>4 DEF Outstanding, Dist, TypeOK, QueuesOK
    <3>2. q = QueueOf(c) /\ ticket_counter'[q] = TicketPlus(ticket_counter[q], 1)
      BY <2>2, <3>1 DEF TypeOK, QueuesOK
    <3>3. TurnsAfter(now_serving[q], k) = TurnsAfter(now_serving[q], ticket_counter[q])
      BY <2>2, <3>1, <3>2, TurnsDraw, TurnsType, TicketAssumption
    <3>4. k = ticket_counter[q]
      BY <3>1, <3>3, TurnsType
    <3> QED BY <2>1, <3>2, <3>4 DEF InQueue
  <2> QED BY <2>3, <2>4
<1>3. ASSUME NEW t \in Thread, AbandonTicket(t) \/ RaiseInCall(t)
      PROVE  NoStrandedTicket'
  <2> DEFINE p == QueueOf(call[t])
  <2>1. AbandonTicket(t)
    BY <1>3 DEF RaiseInCall, WarningFails, NoFailure
  <2>2. /\ UNCHANGED <<ticket_counter, now_serving>>
        /\ abandoned' = [abandoned EXCEPT ![p] = @ \cup {ticket[t]}]
    BY <2>1 DEF AbandonTicket
  <2>3. /\ \A u \in Thread \ {t} : call'[u] = call[u] /\ ticket'[u] = ticket[u]
        /\ \A q \in Queue : InQueue(q)' = InQueue(q) \ {t}
    BY <2>1, LeaveQueue DEF AbandonTicket, TypeOK
  <2> SUFFICES ASSUME NEW q \in Queue, NEW k \in Outstanding(q)' \ abandoned'[q]
               PROVE  \E u \in InQueue(q)' : ticket'[u] = k
    BY DEF NoStrandedTicket
  <2>4. k \in Outstanding(q) \ abandoned[q]
    BY <2>2 DEF Outstanding, Dist, TypeOK, QueuesOK
  <2>5. PICK u \in InQueue(q) : ticket[u] = k
    BY <2>4 DEF NoStrandedTicket
  <2>6. u # t
    BY <2>2, <2>5 DEF InQueue, TypeOK, QueuesOK
  <2> QED BY <2>3, <2>5, <2>6 DEF InQueue
<1>4. ASSUME UNCHANGED <<ticket_counter, now_serving, abandoned, call, ticket>>,
             \A u \in Thread : Live(u)' <=> Live(u)
      PROVE  NoStrandedTicket'
  BY <1>4 DEF NoStrandedTicket, Outstanding, Dist, InQueue
<1> QED BY <1>1, <1>2, <1>3, <1>4, StepKinds

\* As long as values convert and warnings are no errors, every ticket that is still
\* to be served and was not abandoned is held by a thread in the call: the turn is
\* never given to nobody.
THEOREM NoTurnIsLost == NoFailure /\ Spec => []NoStrandedTicket
<1>1. Init => NoStrandedTicket
  <2> SUFFICES ASSUME Init, NEW q \in Queue PROVE Outstanding(q) = {}
    BY DEF NoStrandedTicket
  <2>1. now_serving[q] = 0 /\ ticket_counter[q] = 0
    BY DEF Init
  <2>2. 0 \in Ticket
    BY TicketAssumption DEF Ticket
  <2> QED BY <2>1, <2>2, TurnsType, TicketAssumption DEF Outstanding, Dist
<1>2. NoFailure /\ TypeOK /\ TicketInv /\ NoStrandedTicket /\ [Next]_vars
        => NoStrandedTicket'
  BY StrandStep
<1>3. HeldOutstanding /\ TicketsDistinct /\ AbandonedAhead => TicketInv
  BY DEF TicketInv
<1>4. NoFailure => []NoFailure
  <2>1. NoFailure => NoFailure'
    BY DEF NoFailure
  <2> QED BY <2>1, PTL
<1> QED BY <1>1, <1>2, <1>3, <1>4, TypeCorrect, TicketsCorrect, PTL DEF Spec
-------------------------------------------------------------------------------
(* Waiting threads.                                                        *)

\* A reader that can not go on does not go on with fewer items either.
LEMMA FewerItems ==
  ASSUME TypeOK, NEW u \in Thread, Live(u), call[u].op = "read", ~Satisfied(call[u]),
         size' \in 0 .. size, call'[u] = call[u]
  PROVE  ~Satisfied(call[u])'
<1>1. call[u] \in ReadCall /\ call[u].n > 0
  BY DEF Live, TypeOK, ThreadsOK, QueueCall, WriteCall, AppendCall, ExtendCall,
         ReadCall, Count
<1>2. call[u].n \in Nat
  BY <1>1 DEF ReadCall
<1>3. size \in Nat /\ size' \in Nat /\ size' <= size
  BY DEF TypeOK, BufferOK
<1>4. ~(IF call[u].partial THEN size # 0 ELSE size >= MinSz(call[u].n, MaxLen))
  BY DEF Satisfied
<1>5. MinSz(call[u].n, MaxLen) \in Nat
  BY <1>2, MaxLenAssumption DEF MinSz
<1>6. ~(IF call[u].partial THEN size' # 0 ELSE size' >= MinSz(call[u].n, MaxLen))
  <2>1. CASE call[u].partial
    <3>1. size = 0
      BY <1>4, <2>1
    <3> QED BY <1>3, <2>1, <3>1
  <2>2. CASE ~call[u].partial
    <3>1. ~(size >= MinSz(call[u].n, MaxLen))
      BY <1>4, <2>2
    <3> QED BY <1>3, <1>5, <2>2, <3>1
  <2> QED BY <2>1, <2>2
<1> QED BY <1>6 DEF Satisfied

\* A thread that still waits after another thread cleared or filtered the buffer.
LEMMA StillWaits ==
  ASSUME TypeOK, NoLostWakeup, NEW t \in Thread, LeaveNotifying(t, {"write"}),
         pc[t] = "idle", size' \in 0 .. size,
         UNCHANGED <<ticket_counter, now_serving, call, ticket>>
  PROVE  NoLostWakeup'
<1> SUFFICES ASSUME NEW u \in Thread, pc'[u] = "waiting"
             PROVE  ~Ready(u)'
  BY DEF NoLostWakeup
<1>1. pc[u] = "waiting" /\ QueueOf(call[u]) \notin {"write"}
  BY DEF LeaveNotifying
<1>2. call[u].op = "read" /\ Live(u)
  BY <1>1 DEF QueueOf, Live
<1>3. ~Turn(u) \/ ~Satisfied(call[u])
  BY <1>1 DEF NoLostWakeup, Ready
<1>4. CASE ~Turn(u)
  BY <1>4 DEF Turn, Ready
<1>5. CASE ~Satisfied(call[u])
  BY <1>2, <1>5, FewerItems DEF Ready
<1> QED BY <1>3, <1>4, <1>5

LEMMA WakeupStep ==
  ASSUME TypeOK, NoLostWakeup, [Next]_vars
  PROVE  NoLostWakeup'
<1>1. ASSUME NEW t \in Thread, ServeNext(t) PROVE NoLostWakeup'
  <2>1. \A u \in Thread : pc'[u] # "waiting"
    BY <1>1 DEF ServeNext, LeaveNotifying, QueueOf, Queue, TypeOK, ThreadsOK
  <2> QED BY <2>1 DEF NoLostWakeup
<1>2. ASSUME UNCHANGED <<size, now_serving, call, ticket>>,
             \A u \in Thread : pc'[u] = "waiting" => pc[u] = "waiting" \/ ~Ready(u)
      PROVE  NoLostWakeup'
  BY <1>2 DEF NoLostWakeup, Ready, Turn, Satisfied
<1>3. ASSUME NEW t \in Thread, Wait(t) \/ TimeOut(t) PROVE NoLostWakeup'
  BY <1>2, <1>3 DEF Wait, TimeOut, TypeOK, ThreadsOK
<1>4. ASSUME NEW t \in Thread, AbandonTicket(t) \/ RaiseInCall(t) PROVE NoLostWakeup'
  <2> SUFFICES ASSUME NEW u \in Thread, pc'[u] = "waiting" PROVE ~Ready(u)'
    BY DEF NoLostWakeup
  <2>1. u # t /\ pc[u] = "waiting"
    BY <1>4 DEF AbandonTicket, RaiseInCall, LeaveNotifying
  <2>2. call'[u] = call[u] /\ ticket'[u] = ticket[u]
    BY <1>4, <2>1 DEF AbandonTicket, RaiseInCall, Return, TypeOK, ThreadsOK
  <2>3. UNCHANGED <<size, now_serving>>
    BY <1>4 DEF AbandonTicket, RaiseInCall
  <2> QED BY <2>1, <2>2, <2>3 DEF NoLostWakeup, Ready, Turn, Satisfied
<1>5. ASSUME NEW t \in Thread, NEW c \in Calls[t], DrawTicket(t, c) PROVE NoLostWakeup'
  <2> SUFFICES ASSUME NEW u \in Thread, pc'[u] = "waiting" PROVE ~Ready(u)'
    BY DEF NoLostWakeup
  <2>1. u # t /\ pc[u] = "waiting"
    BY <1>5 DEF DrawTicket, TypeOK, ThreadsOK
  <2>2. call'[u] = call[u] /\ ticket'[u] = ticket[u]
    BY <1>5, <2>1 DEF DrawTicket, TypeOK, ThreadsOK
  <2>3. UNCHANGED <<size, now_serving>>
    BY <1>5 DEF DrawTicket
  <2> QED BY <2>1, <2>2, <2>3 DEF NoLostWakeup, Ready, Turn, Satisfied
<1>6. ASSUME NEW t \in Thread, ClearBuffer(t) PROVE NoLostWakeup'
  <2>1. size' \in 0 .. size
    BY <1>6 DEF ClearBuffer, TypeOK, BufferOK
  <2> QED BY <1>6, <2>1, StillWaits DEF ClearBuffer
<1>7. ASSUME NEW t \in Thread, NEW target, RemoveItems(t, target) PROVE NoLostWakeup'
  <2>1. size' \in 0 .. size
    BY <1>7, RemoveEffect DEF TypeOK, BufferOK
  <2> QED BY <1>7, <2>1, StillWaits DEF RemoveItems
<1>8. ASSUME NEW t \in Thread, Call(t) PROVE NoLostWakeup'
  <2>1. PICK c \in Calls[t] :
          \/ ReturnEmpty(t, c)
          \/ DrawTicket(t, c)
          \/ c.op = "clear" /\ ClearBuffer(t)
          \/ c.op = "remove" /\ RemoveItems(t, c.target)
    BY <1>8 DEF Call
  <2>2. ReturnEmpty(t, c) => NoLostWakeup'
    BY <1>2 DEF ReturnEmpty
  <2> QED BY <1>5, <1>6, <1>7, <2>1, <2>2
<1>9. ASSUME NEW t \in Thread, Proceed(t) PROVE NoLostWakeup'
  BY <1>1, <1>3, <1>4, <1>9
     DEF Proceed, WriteAppend, WriteExtendWhole, WriteExtendPart, ReadItems, GiveUpTurn
<1>10. CASE UNCHANGED vars
  BY <1>2, <1>10 DEF vars
<1> QED BY <1>3, <1>8, <1>9, <1>10 DEF Next

\* A thread in Condition.wait always has a reason to wait: no step makes its loop
\* condition false without waking it.
THEOREM NoWakeupIsLost == Spec => []NoLostWakeup
<1>1. Init => NoLostWakeup
  BY DEF Init, NoLostWakeup
<1>2. TypeOK /\ NoLostWakeup /\ [Next]_vars => NoLostWakeup'
  BY WakeupStep
<1> QED BY <1>1, <1>2, TypeCorrect, PTL DEF Spec

\* A writer that has room for its block waits only behind another writer's call, as
\* long as no call raises.
THEOREM RoomIsUsed == NoFailure /\ Spec => []WriterWaitsForRoom
<1>1. TypeOK /\ HeldOutstanding /\ AbandonedAhead /\ NoStrandedTicket /\ NoLostWakeup
        => WriterWaitsForRoom
  <2> SUFFICES ASSUME TypeOK, HeldOutstanding, AbandonedAhead, NoStrandedTicket,
                      NoLostWakeup,
                      NEW t \in InQueue("write"), pc[t] = "waiting", Satisfied(call[t])
               PROVE  \E u \in InQueue("write") : u # t
    BY DEF WriterWaitsForRoom
  <2> DEFINE now == now_serving["write"]
             cnt == ticket_counter["write"]
  <2>1. now \in Ticket /\ cnt \in Ticket
    BY DEF TypeOK, QueuesOK, Queue
  <2>2. t \in Thread /\ QueueOf(call[t]) = "write"
    BY DEF InQueue
  <2>3. now # ticket[t]
    BY <2>2 DEF NoLostWakeup, Ready, Turn
  <2>4. ticket[t] \in Ticket /\ TurnsAfter(now, ticket[t]) < TurnsAfter(now, cnt)
    BY DEF HeldOutstanding, Outstanding, Dist, Queue
  <2>5. now \in Outstanding("write")
    BY <2>1, <2>4, TurnsType, TicketAssumption DEF Outstanding, Dist
  <2>6. now \notin abandoned["write"]
    BY DEF AbandonedAhead, Queue
  <2>7. PICK u \in InQueue("write") : ticket[u] = now
    BY <2>5, <2>6 DEF NoStrandedTicket, Queue
  <2> QED BY <2>3, <2>7
<1> QED BY <1>1, TypeCorrect, TicketsCorrect, NoTurnIsLost, NoWakeupIsLost, PTL

\* The first writer and the first reader are never both stuck, unless the reader
\* insists on more items than there are and the writer's block does not fit.
THEOREM OnlyStrictReadsBlock == Spec => []BothWaitOnlyForStrictRead
<1>1. TypeOK /\ NoLostWakeup => BothWaitOnlyForStrictRead
  <2> SUFFICES ASSUME TypeOK, NoLostWakeup,
                      NEW w \in InQueue("write"), NEW r \in InQueue("read"),
                      pc[w] = "waiting", pc[r] = "waiting", Turn(w), Turn(r)
               PROVE  ~call[r].partial /\ size > 0 /\ size + Count(call[w]) > MaxLen
    BY DEF BothWaitOnlyForStrictRead
  <2>1. ~Satisfied(call[w]) /\ ~Satisfied(call[r])
    BY DEF NoLostWakeup, Ready, InQueue
  <2>2. /\ call[w] \in QueueCall /\ call[w].op # "read"
        /\ call[r] \in QueueCall /\ call[r].op = "read"
    BY DEF InQueue, Live, QueueOf, TypeOK, ThreadsOK
  <2>3. /\ call[w] \in AppendCall \/ call[w] \in ExtendCall
        /\ call[r] \in ReadCall
    BY <2>2 DEF QueueCall, WriteCall, AppendCall, ExtendCall, ReadCall
  <2>4. size > 0 /\ size + Count(call[w]) > MaxLen
    <3>1. CASE call[w] \in AppendCall
      <4>1. call[w].op = "append"
        BY <3>1 DEF AppendCall
      <4>2. ~(MaxLen - size # 0)
        BY <2>1, <4>1 DEF Satisfied
      <4>3. Count(call[w]) = 1
        BY <4>1 DEF Count
      <4> QED BY <4>2, <4>3, MaxLenAssumption DEF TypeOK, BufferOK
    <3>2. CASE call[w] \in ExtendCall
      <4>1. call[w].op = "extend" /\ Len(call[w].block) \in Nat
        BY <3>2 DEF ExtendCall
      <4>2. ~(IF Len(call[w].block) >= MaxLen THEN size = 0
              ELSE MaxLen - size >= Len(call[w].block))
        BY <2>1, <4>1 DEF Satisfied
      <4>3. Count(call[w]) = Len(call[w].block)
        BY <4>1 DEF Count
      <4>4. CASE Len(call[w].block) >= MaxLen
        BY <4>1, <4>2, <4>3, <4>4, MaxLenAssumption DEF TypeOK, BufferOK
      <4>5. CASE ~(Len(call[w].block) >= MaxLen)
        <5>1. MaxLen - size < Len(call[w].block)
          BY <4>1, <4>2, <4>5, MaxLenAssumption DEF TypeOK, BufferOK
        <5> QED BY <4>1, <4>3, <4>5, <5>1, MaxLenAssumption DEF TypeOK, BufferOK
      <4> QED BY <4>4, <4>5
    <3> QED BY <2>3, <3>1, <3>2
  <2>5. ~call[r].partial
    BY <2>1, <2>2, <2>4 DEF Satisfied
  <2> QED BY <2>4, <2>5
<1> QED BY <1>1, TypeCorrect, NoWakeupIsLost, PTL

\* A call that succeeds was the first of its queue.
THEOREM FifoOrder == Spec => FifoFairness
<1>1. TypeOK /\ [Next]_vars => [\A t, u \in Thread : ~Overtakes(u, t)]_vars
  <2> SUFFICES ASSUME TypeOK, [Next]_vars, NEW t \in Thread, NEW u \in Thread,
                      Overtakes(u, t)
               PROVE  UNCHANGED vars
    OBVIOUS
  <2>1. /\ Live(t) /\ Live(u) /\ QueueOf(call[t]) = QueueOf(call[u])
        /\ Dist(QueueOf(call[t]), ticket[t]) < Dist(QueueOf(call[u]), ticket[u])
        /\ pc'[u] = "idle" /\ result'.status = "ok"
    BY DEF Overtakes
  <2>2. QueueOf(call[u]) \in Queue
    BY DEF QueueOf, Queue
  <2>3. Dist(QueueOf(call[u]), ticket[u]) > 0
    BY <2>1, <2>2, TurnsType, TicketAssumption, SMTT(30)
       DEF Dist, TypeOK, QueuesOK, ThreadsOK
  <2>4. ~Turn(u)
    BY <2>2, <2>3, TurnsType DEF Turn, Dist, TypeOK, QueuesOK, ThreadsOK
  <2>5. ASSUME NEW v \in Thread, NEW qs, LeaveNotifying(v, qs) PROVE u = v
    BY <2>1, <2>5 DEF LeaveNotifying, Live
  <2>6. ASSUME NEW v \in Thread, Call(v) PROVE FALSE
    BY <2>1, <2>5, <2>6
       DEF Call, ReturnEmpty, DrawTicket, ClearBuffer, RemoveItems, Live, TypeOK, ThreadsOK
  <2>7. ASSUME NEW v \in Thread, Wait(v) \/ TimeOut(v) PROVE FALSE
    BY <2>1, <2>7 DEF Wait, TimeOut, Live, TypeOK, ThreadsOK
  <2>8. ASSUME NEW v \in Thread,
               WriteAppend(v) \/ WriteExtendWhole(v) \/ WriteExtendPart(v) \/ ReadItems(v)
        PROVE  FALSE
    BY <2>4, <2>5, <2>8
       DEF WriteAppend, WriteExtendWhole, WriteExtendPart, ReadItems, ServeNext, Ready
  <2>9. ASSUME NEW v \in Thread, GiveUpTurn(v) \/ AbandonTicket(v) \/ RaiseInCall(v)
        PROVE  FALSE
    BY <2>1, <2>9 DEF GiveUpTurn, AbandonTicket, RaiseInCall, Return
  <2> QED BY <2>6, <2>7, <2>8, <2>9 DEF Next, Proceed
<1> QED BY <1>1, TypeCorrect, PTL DEF Spec, FifoFairness
-------------------------------------------------------------------------------
(* BlockingCircBuffer implements BoundedFifo: the content follows from     *)
(* what the copies of CircKernel do to the cells, the order of arrival     *)
(* from the distance of the tickets to the turn.                           *)

-------------------------------------------------------------------------------
(* The content.                                                            *)

LEMMA ContentType ==
  ASSUME TypeOK
  PROVE  Content \in Seq(Item) /\ Len(Content) = size /\ size \in 0 .. MaxLen
  BY ReadDataType DEF TypeOK, BufferOK, Content

LEMMA ContentAt ==
  ASSUME TypeOK, NEW i \in 1 .. size
  PROVE  Content[i] = buf[At(read_head, i - 1)]
  BY ReadDataAt DEF TypeOK, BufferOK, Content

LEMMA NextContent ==
  ASSUME TypeOK'
  PROVE  /\ Content' \in Seq(Item) /\ Len(Content') = size'
         /\ \A i \in 1 .. size' : Content'[i] = buf'[At(read_head', i - 1)]
<1>1. buf' \in [Index -> Item] /\ read_head' \in Index /\ size' \in 0 .. MaxLen
  BY DEF TypeOK, BufferOK
<1>2. Content' = ReadData(buf', read_head', size')
  BY DEF Content
<1> QED BY <1>1, <1>2, ReadDataType, ReadDataAt

\* A write of a block that fits behind the items adds it to the content.
LEMMA ContentGrows ==
  ASSUME TypeOK, TypeOK', RingConsistent, NEW block \in Seq(Value),
         size + Len(block) <= MaxLen,
         buf' = WriteData(buf, block, write_head), read_head' = read_head,
         size' = size + Len(block)
  PROVE  Content' = Content \o block
<1> DEFINE n == Len(block)
<1>1. /\ buf \in [Index -> Item] /\ read_head \in Index /\ write_head \in Index
      /\ size \in 0 .. MaxLen /\ n \in Nat /\ block \in Seq(Item)
      /\ write_head = ExtendAdvanceHead(read_head, size)
  BY DEF TypeOK, BufferOK, RingConsistent, Item
<1>2. Content \in Seq(Item) /\ Len(Content) = size
  BY ContentType
<1>3. Content' \in Seq(Item) /\ Len(Content') = size + n
  BY NextContent
<1>4. ASSUME NEW i \in 1 .. size + n
      PROVE  Content'[i] = IF i <= size THEN Content[i] ELSE block[i - size]
  <2>1. Content'[i] = buf'[At(read_head, i - 1)]
    BY NextContent
  <2> DEFINE d == IF i <= size THEN MaxLen - size + i - 1 ELSE i - size - 1
  <2>2. d \in 0 .. MaxLen - 1 /\ At(read_head, i - 1) = At(write_head, d)
    BY <1>1, MaxLenAssumption DEF At, Index, ExtendAdvanceHead
  <2>3. buf'[At(write_head, d)] = IF d < n THEN block[d + 1] ELSE buf[At(write_head, d)]
    <3>1. Len(block) <= MaxLen /\ Len(block) = n
      BY <1>1, MaxLenAssumption
    <3> HIDE DEF d
    <3> QED BY <1>1, <2>2, <3>1, WriteDataAt
  <2>4. CASE i <= size
    <3>1. ~(d < n)
      BY <1>1, <2>4, MaxLenAssumption
    <3>2. i \in 1 .. size
      BY <1>1, <2>4
    <3> HIDE DEF d
    <3> QED BY <2>1, <2>2, <2>3, <2>4, <3>1, <3>2, ContentAt
  <2>5. CASE ~(i <= size)
    <3>1. d < n /\ d + 1 = i - size
      BY <1>1, <2>5
    <3> HIDE DEF d
    <3> QED BY <2>1, <2>2, <2>3, <2>5, <3>1
  <2> QED BY <2>4, <2>5
<1> DEFINE all == Content \o block
<1>5. /\ all \in Seq(Item) /\ Len(all) = size + n
      /\ \A i \in 1 .. size + n : all[i] = IF i <= size THEN Content[i] ELSE block[i - size]
  BY <1>1, <1>2
<1> HIDE DEF all, n
<1>6. Content' = all
  BY <1>3, <1>4, <1>5, SameItems
<1> QED BY <1>6 DEF all

\* A read of n items takes the first n.
LEMMA ContentShrinks ==
  ASSUME TypeOK, TypeOK', NEW n \in 1 .. size,
         buf' = buf, read_head' = ExtendAdvanceHead(read_head, n), size' = size - n
  PROVE  /\ ReadData(buf, read_head, n) = SubSeq(Content, 1, n)
         /\ Content' = SubSeq(Content, n + 1, Len(Content))
<1>1. /\ buf \in [Index -> Item] /\ read_head \in Index
      /\ size \in 0 .. MaxLen /\ n \in 0 .. MaxLen
  BY MaxLenAssumption DEF TypeOK, BufferOK
<1>2. Content \in Seq(Item) /\ Len(Content) = size
  BY ContentType
<1> DEFINE first == SubSeq(Content, 1, n)
           rest  == SubSeq(Content, n + 1, Len(Content))
           data  == ReadData(buf, read_head, n)
<1>3. /\ first \in Seq(Item) /\ Len(first) = n
      /\ \A i \in 1 .. n : first[i] = Content[i]
  BY <1>2
<1>4. /\ rest \in Seq(Item) /\ Len(rest) = size - n
      /\ \A i \in 1 .. size - n : rest[i] = Content[n + i]
  BY <1>1, <1>2
<1>5. data \in Seq(Item) /\ Len(data) = n
  BY <1>1, ReadDataType
<1> HIDE DEF first, rest
<1>6. ASSUME NEW i \in 1 .. n
      PROVE  data[i] = first[i]
  <2>1. data[i] = buf[At(read_head, i - 1)]
    BY <1>1, ReadDataAt
  <2>2. i \in 1 .. size
    BY <1>1
  <2> QED BY <1>3, <2>1, <2>2, ContentAt
<1>7. data = first
  BY <1>3, <1>5, <1>6, SameItems
<1>8. Content' \in Seq(Item) /\ Len(Content') = size - n
  BY NextContent
<1>9. ASSUME NEW i \in 1 .. size - n
      PROVE  Content'[i] = rest[i]
  <2>1. Content'[i] = buf[At(read_head', i - 1)]
    BY NextContent
  <2>2. At(read_head', i - 1) = At(read_head, (n + i) - 1) /\ n + i \in 1 .. size
    BY <1>1, MaxLenAssumption DEF At, Index, ExtendAdvanceHead
  <2> QED BY <1>4, <2>1, <2>2, ContentAt
<1>10. Content' = rest
  BY <1>4, <1>8, <1>9, SameItems
<1> QED BY <1>7, <1>10 DEF first, rest

\* A block of the capacity or more becomes the content, less its beginning.
LEMMA ContentReplaced ==
  ASSUME TypeOK, TypeOK', NEW block \in Seq(Value), Len(block) >= MaxLen,
         buf' = [i \in Index |-> block[Len(block) - MaxLen + i + 1]],
         read_head' = 0, size' = MaxLen
  PROVE  Content' = SubSeq(block, Len(block) - MaxLen + 1, Len(block))
<1> DEFINE last == SubSeq(block, Len(block) - MaxLen + 1, Len(block))
<1>1. Content' \in Seq(Item) /\ Len(Content') = MaxLen
  BY NextContent
<1>2. /\ last \in Seq(Item) /\ Len(last) = MaxLen
      /\ \A i \in 1 .. MaxLen : last[i] = block[Len(block) - MaxLen + i]
  BY MaxLenAssumption DEF Item
<1> HIDE DEF last
<1>3. ASSUME NEW i \in 1 .. MaxLen
      PROVE  Content'[i] = last[i]
  <2>1. Content'[i] = buf'[At(0, i - 1)]
    BY NextContent
  <2>2. At(0, i - 1) = i - 1 /\ i - 1 \in Index
    BY MaxLenAssumption DEF At, Index
  <2>3. buf'[i - 1] = block[Len(block) - MaxLen + (i - 1) + 1]
    BY <2>2
  <2>4. Len(block) - MaxLen + (i - 1) + 1 = Len(block) - MaxLen + i
    BY MaxLenAssumption
  <2> QED BY <1>2, <2>1, <2>2, <2>3, <2>4
<1>4. Content' = last
  BY <1>1, <1>2, <1>3, SameItems
<1> QED BY <1>4 DEF last

\* What a filter moved together is the content.
LEMMA ContentWritten ==
  ASSUME TypeOK, TypeOK', NEW kept \in Seq(Item), Len(kept) <= size,
         buf' = WriteData(buf, kept, read_head), read_head' = read_head,
         size' = Len(kept)
  PROVE  Content' = kept
<1>1. /\ buf \in [Index -> Item] /\ read_head \in Index
      /\ size \in 0 .. MaxLen /\ Len(kept) \in Nat /\ Len(kept) <= MaxLen
  BY DEF TypeOK, BufferOK
<1>2. Content' \in Seq(Item) /\ Len(Content') = Len(kept)
  BY NextContent
<1>3. ASSUME NEW i \in 1 .. Len(kept)
      PROVE  Content'[i] = kept[i]
  <2>1. Content'[i] = buf'[At(read_head, i - 1)]
    BY NextContent
  <2>2. i - 1 \in 0 .. MaxLen - 1 /\ i - 1 < Len(kept) /\ (i - 1) + 1 = i
    BY <1>1, MaxLenAssumption
  <2>3. WriteData(buf, kept, read_head)[At(read_head, i - 1)] = kept[(i - 1) + 1]
    BY <1>1, <2>2, WriteDataAt
  <2> QED BY <2>1, <2>2, <2>3
<1> QED BY <1>2, <1>3, SameItems

LEMMA ContentSame ==
  ASSUME UNCHANGED <<buf, read_head, size>>
  PROVE  Content' = Content
  BY DEF Content

LEMMA EmptyContent ==
  ASSUME TypeOK, size = 0
  PROVE  Content = <<>>
  BY ContentType
-------------------------------------------------------------------------------
(* The order of arrival.                                                   *)

\* Whose ticket is being served is behind nobody.
LEMMA TurnIsFirst ==
  ASSUME TypeOK, NEW t \in Thread, Live(t), Turn(t)
  PROVE  Fifo!First(t)
<1>1. /\ QueueOf(call[t]) \in Queue /\ ticket[t] \in Ticket
      /\ now_serving[QueueOf(call[t])] = ticket[t]
  BY OwnQueue DEF Turn, TypeOK, ThreadsOK
<1>2. Dist(QueueOf(call[t]), ticket[t]) = 0
  BY <1>1, TurnsType DEF Dist
<1>3. \A u \in Thread : Live(u) /\ QueueOf(call[u]) = QueueOf(call[t])
        => Dist(QueueOf(call[t]), ticket[u]) \in Nat
  BY <1>1, TurnsType, TicketAssumption DEF Dist, TypeOK, QueuesOK, ThreadsOK
<1> QED BY <1>2, <1>3 DEF Fifo!First, Order

\* A pair is in the order unless one of its threads has left, and no pair joins.
LEMMA OrderLeaves ==
  ASSUME NEW t \in Thread,
         \A u \in Thread : Live(u)' <=> Live(u) /\ u # t,
         \A u \in Thread \ {t} : call'[u] = call[u] /\ ticket'[u] = ticket[u],
         \A u, v \in Thread \ {t} :
           Live(u) /\ Live(v) /\ QueueOf(call[u]) = QueueOf(call[v])
             => (Dist(QueueOf(call[u]), ticket[u])' < Dist(QueueOf(call[u]), ticket[v])'
                   <=> Dist(QueueOf(call[u]), ticket[u]) < Dist(QueueOf(call[u]), ticket[v]))
  PROVE  Order' = {p \in Order : p[1] # t /\ p[2] # t}
<1>1. ASSUME NEW p \in Thread \X Thread
      PROVE  p \in Order' <=> p \in Order /\ p[1] # t /\ p[2] # t
  <2>1. p[1] \in Thread /\ p[2] \in Thread
    OBVIOUS
  <2>2. p \in Order' <=>
          /\ Live(p[1])' /\ Live(p[2])'
          /\ QueueOf(call'[p[1]]) = QueueOf(call'[p[2]])
          /\ Dist(QueueOf(call[p[1]]), ticket[p[1]])'
               < Dist(QueueOf(call[p[2]]), ticket[p[2]])'
    BY DEF Order, QueueOf
  <2> QED BY <2>1, <2>2 DEF Order
<1>2. Order \subseteq Thread \X Thread /\ Order' \subseteq Thread \X Thread
  BY DEF Order
<1> QED BY <1>1, <1>2

\* Serving the next ticket brings every call that waits in the queue nearer by the same
\* number of turns: it passes over none of them.
LEMMA ServeOrder ==
  ASSUME TypeOK, TicketInv, NEW t \in Thread, Live(t), Turn(t), ServeNext(t),
         NEW status, NEW data, Return(t, status, data)
  PROVE  Order' = {p \in Order : p[1] # t /\ p[2] # t}
<1>1. /\ \A u \in Thread : Live(u)' <=> Live(u) /\ u # t
      /\ \A u \in Thread \ {t} : call'[u] = call[u] /\ ticket'[u] = ticket[u]
  BY LeaveQueue DEF ServeNext, TypeOK
<1>2. ASSUME NEW u \in Thread \ {t}, NEW v \in Thread \ {t},
             Live(u), Live(v), QueueOf(call[u]) = QueueOf(call[v])
      PROVE  Dist(QueueOf(call[u]), ticket[u])' < Dist(QueueOf(call[u]), ticket[v])'
               <=> Dist(QueueOf(call[u]), ticket[u]) < Dist(QueueOf(call[u]), ticket[v])
  <2> DEFINE q   == QueueOf(call[u])
             p   == QueueOf(call[t])
             now == now_serving[q]
  <2>1. /\ q \in Queue /\ u \in InQueue(q) /\ v \in InQueue(q)
        /\ QueueOf(call'[u]) = q
        /\ ticket'[u] = ticket[u] /\ ticket'[v] = ticket[v]
    BY <1>1, <1>2, OwnQueue
  <2>2. /\ now \in Ticket
        /\ ticket[u] \in Ticket \ abandoned[q] /\ ticket[v] \in Ticket \ abandoned[q]
        /\ \A w, x \in InQueue(q) : ticket[w] = ticket[x] => w = x
    BY <2>1, TicketFacts
  <2>3. Dist(q, ticket[u])' = TurnsAfter(now_serving'[q], ticket[u])
        /\ Dist(q, ticket[v])' = TurnsAfter(now_serving'[q], ticket[v])
    BY <2>1 DEF Dist
  <2>4. p \in Queue /\ t \in InQueue(p) /\ now_serving[p] = ticket[t] /\ AdvanceTicket(p)
    BY OwnQueue DEF Turn, ServeNext
  <2> HIDE DEF q, p
  <2>5. CASE q # p
    <3>1. now_serving'[q] = now_serving[q]
      BY <2>1, <2>4, <2>5 DEF AdvanceTicket, TypeOK, QueuesOK
    <3> QED BY <2>3, <3>1 DEF Dist, q
  <2>6. CASE q = p
    <3>1. PICK d \in 1 .. TicketMod - 1 :
            /\ Between(now, d) \subseteq abandoned[q]
            /\ now_serving'[q] = TicketPlus(now, d)
      BY <2>1, <2>4, <2>6 DEF AdvanceTicket, TypeOK, QueuesOK
    <3>2. d \in 0 .. TicketMod - 1 /\ d \in Nat
      BY TicketAssumption
    <3>3. ASSUME NEW w \in InQueue(q), w # t
          PROVE  /\ TurnsAfter(now, ticket[w]) \in Nat /\ TurnsAfter(now, ticket[w]) >= d
                 /\ TurnsAfter(now_serving'[q], ticket[w]) = TurnsAfter(now, ticket[w]) - d
      <4> DEFINE T == TurnsAfter(now, ticket[w])
      <4>1. ticket[w] \in Ticket \ abandoned[q] /\ ticket[w] # now
        BY <2>1, <2>2, <2>4, <2>6, <3>3, TicketFacts
      <4>2. T \in 0 .. TicketMod - 1 /\ T # 0 /\ TicketPlus(now, T) = ticket[w]
        BY <2>2, <4>1, TurnsType
      <4>3. TurnsAfter(TicketPlus(now, d), ticket[w])
              = IF T >= d THEN T - d ELSE T + TicketMod - d
        BY <2>2, <3>2, <4>1, TurnsLater
      <4> HIDE DEF T
      <4>4. T >= d
        <5> SUFFICES ASSUME T < d
                     PROVE  FALSE
          BY <3>2, <4>2, TicketAssumption
        <5>1. T \in 1 .. d - 1
          BY <3>2, <4>2, TicketAssumption
        <5>2. ticket[w] \in Between(now, d)
          BY <4>2, <5>1 DEF Between
        <5> QED BY <3>1, <4>1, <5>2
      <4> QED BY <3>1, <4>2, <4>3, <4>4, TicketAssumption DEF T
    <3>4. /\ TurnsAfter(now, ticket[u]) \in Nat /\ TurnsAfter(now, ticket[v]) \in Nat
          /\ Dist(q, ticket[u])' = TurnsAfter(now, ticket[u]) - d
          /\ Dist(q, ticket[v])' = TurnsAfter(now, ticket[v]) - d
      BY <2>1, <2>3, <3>3
    <3> QED BY <3>2, <3>4 DEF Dist, q
  <2> QED BY <2>5, <2>6
<1> QED BY <1>1, <1>2, OrderLeaves

\* Returning without a turn leaves the distances of the others as they were.
LEMMA QuitOrder ==
  ASSUME TypeOK, NEW t \in Thread, NEW status, NEW data,
         LeaveNotifying(t, {}), Return(t, status, data), UNCHANGED now_serving
  PROVE  Order' = {p \in Order : p[1] # t /\ p[2] # t}
<1>1. /\ \A u \in Thread : Live(u)' <=> Live(u) /\ u # t
      /\ \A u \in Thread \ {t} : call'[u] = call[u] /\ ticket'[u] = ticket[u]
  BY LeaveQueue DEF TypeOK
<1>2. ASSUME NEW u \in Thread \ {t}, NEW v \in Thread \ {t},
             Live(u), Live(v), QueueOf(call[u]) = QueueOf(call[v])
      PROVE  Dist(QueueOf(call[u]), ticket[u])' < Dist(QueueOf(call[u]), ticket[v])'
               <=> Dist(QueueOf(call[u]), ticket[u]) < Dist(QueueOf(call[u]), ticket[v])
  <2>1. /\ QueueOf(call'[u]) = QueueOf(call[u])
        /\ ticket'[u] = ticket[u] /\ ticket'[v] = ticket[v]
    BY <1>1
  <2> QED BY <2>1 DEF Dist
<1> QED BY <1>1, <1>2, OrderLeaves

\* A new ticket comes after all those that are held.
LEMMA DrawOrder ==
  ASSUME TypeOK, TicketInv, NEW t \in Thread, NEW c \in Calls[t], DrawTicket(t, c)
  PROVE  Order' = Order \cup {<<u, t>> : u \in InQueue(QueueOf(c))}
<1> DEFINE q == QueueOf(c)
<1>1. /\ q \in Queue /\ ~Live(t)
      /\ \A u \in Thread \ {t} : /\ Live(u)' <=> Live(u)
                                 /\ call'[u] = call[u] /\ ticket'[u] = ticket[u]
      /\ Live(t)' /\ call'[t] = c /\ ticket'[t] = ticket_counter[q]
      /\ now_serving' = now_serving
  BY DEF DrawTicket, Live, QueueOf, Queue, TypeOK, ThreadsOK
<1>2. /\ now_serving[q] \in Ticket /\ ticket_counter[q] \in Ticket
      /\ \A u \in InQueue(q) : Dist(q, ticket[u]) < Dist(q, ticket_counter[q])
      /\ \A u \in InQueue(q) : ticket[u] \in Ticket
  BY <1>1, TicketFacts
<1>3. /\ Dist(q, ticket_counter[q]) \in Nat
      /\ \A u \in InQueue(q) : Dist(q, ticket[u]) \in Nat
  BY <1>2, TurnsType, TicketAssumption DEF Dist
<1> HIDE DEF q
<1>4. ASSUME NEW u \in Thread, NEW v \in Thread
      PROVE  <<u, v>> \in Order' <=> <<u, v>> \in Order \/ (v = t /\ u \in InQueue(q))
  <2>1. <<u, v>> \in Order' <=>
          /\ Live(u)' /\ Live(v)' /\ QueueOf(call'[u]) = QueueOf(call'[v])
          /\ TurnsAfter(now_serving[QueueOf(call'[u])], ticket'[u])
               < TurnsAfter(now_serving[QueueOf(call'[v])], ticket'[v])
    BY <1>1 DEF Order, Dist
  <2>2. <<u, v>> \in Order <=>
          /\ Live(u) /\ Live(v) /\ QueueOf(call[u]) = QueueOf(call[v])
          /\ TurnsAfter(now_serving[QueueOf(call[u])], ticket[u])
               < TurnsAfter(now_serving[QueueOf(call[v])], ticket[v])
    BY DEF Order, Dist
  <2>3. CASE u # t /\ v # t
    BY <1>1, <2>1, <2>2, <2>3
  <2>4. CASE u = t /\ v = t
    <3>1. t \notin InQueue(q) /\ <<u, v>> \notin Order
      BY <1>1, <2>2, <2>4 DEF InQueue
    <3>2. <<u, v>> \in Order' =>
            TurnsAfter(now_serving[q], ticket_counter[q])
              < TurnsAfter(now_serving[q], ticket_counter[q])
      BY <1>1, <2>1, <2>4 DEF q
    <3> QED BY <1>3, <2>4, <3>1, <3>2 DEF Dist
  <2>5. CASE u # t /\ v = t
    <3>1. <<u, v>> \in Order' <=>
            /\ Live(u) /\ QueueOf(call[u]) = q
            /\ TurnsAfter(now_serving[q], ticket[u])
                 < TurnsAfter(now_serving[q], ticket_counter[q])
      BY <1>1, <2>1, <2>5 DEF q
    <3>2. <<u, v>> \notin Order
      BY <1>1, <2>2, <2>5
    <3> QED BY <1>2, <2>5, <3>1, <3>2 DEF InQueue, Dist
  <2>6. CASE u = t /\ v # t
    <3>1. <<u, v>> \notin Order
      BY <1>1, <2>2, <2>6
    <3> SUFFICES ASSUME <<u, v>> \in Order'
                 PROVE  FALSE
      BY <2>6, <3>1
    <3>2. /\ v \in InQueue(q)
          /\ TurnsAfter(now_serving[q], ticket_counter[q])
               < TurnsAfter(now_serving[q], ticket[v])
      BY <1>1, <2>1, <2>6 DEF InQueue, q
    <3> QED BY <1>2, <1>3, <3>2 DEF Dist
  <2> QED BY <2>3, <2>4, <2>5, <2>6
<1>5. Order \subseteq Thread \X Thread /\ Order' \subseteq Thread \X Thread
  BY DEF Order
<1>6. InQueue(q) \subseteq Thread
  BY DEF InQueue
<1>7. {<<u, t>> : u \in InQueue(q)} \subseteq Thread \X Thread
  BY <1>6
<1>8. ASSUME NEW p \in Thread \X Thread
      PROVE  p \in Order' <=> p \in Order \/ p \in {<<u, t>> : u \in InQueue(q)}
  <2>1. p = <<p[1], p[2]>> /\ p[1] \in Thread /\ p[2] \in Thread
    OBVIOUS
  <2>2. p \in {<<u, t>> : u \in InQueue(q)} <=> p[2] = t /\ p[1] \in InQueue(q)
    BY <2>1
  <2>3. <<p[1], p[2]>> \in Order' <=> <<p[1], p[2]>> \in Order \/ (p[2] = t /\ p[1] \in InQueue(q))
    BY <1>4, <2>1
  <2> QED BY <2>1, <2>2, <2>3
<1> QED BY <1>5, <1>7, <1>8 DEF q

LEMMA SameOrder ==
  ASSUME UNCHANGED <<now_serving, call, ticket>>, \A u \in Thread : Live(u)' <=> Live(u)
  PROVE  Order' = Order
  BY DEF Order, Dist
-------------------------------------------------------------------------------
(* The steps.                                                              *)

\* A wait only runs into a time-out when the call has one.
ExpiredTimed == \A t \in Thread : pc[t] = "expired" => call[t].timed

LEMMA ExpiredStep ==
  ASSUME TypeOK, ExpiredTimed, [Next]_vars
  PROVE  ExpiredTimed'
<1>1. ASSUME NEW t \in Thread, NEW qs, LeaveNotifying(t, qs),
             call'[t] = NoCall \/ call' = call,
             \A u \in Thread \ {t} : call'[u] = call[u]
      PROVE  ExpiredTimed'
  <2>1. \A u \in Thread : pc'[u] = "expired" => u # t /\ pc[u] = "expired"
    BY <1>1 DEF LeaveNotifying
  <2> QED BY <1>1, <2>1 DEF ExpiredTimed
<1>2. ASSUME NEW t \in Thread, NEW qs, NEW status, NEW data,
             LeaveNotifying(t, qs), Return(t, status, data)
      PROVE  ExpiredTimed'
  <2>1. call'[t] = NoCall /\ \A u \in Thread \ {t} : call'[u] = call[u]
    BY <1>2 DEF Return, TypeOK, ThreadsOK
  <2> QED BY <1>1, <1>2, <2>1
<1>3. ASSUME NEW t \in Thread, Call(t)
      PROVE  ExpiredTimed'
  <2>1. ASSUME NEW c \in Calls[t], ReturnEmpty(t, c)
        PROVE  ExpiredTimed'
    BY <2>1 DEF ReturnEmpty, ExpiredTimed
  <2>2. ASSUME NEW c \in Calls[t], DrawTicket(t, c)
        PROVE  ExpiredTimed'
    BY <2>2 DEF DrawTicket, ExpiredTimed, TypeOK, ThreadsOK
  <2>3. CASE ClearBuffer(t)
    BY <1>1, <2>3 DEF ClearBuffer
  <2>4. ASSUME NEW target, RemoveItems(t, target)
        PROVE  ExpiredTimed'
    BY <1>1, <2>4 DEF RemoveItems
  <2> QED BY <1>3, <2>1, <2>2, <2>3, <2>4 DEF Call
<1>4. ASSUME NEW t \in Thread, Proceed(t)
      PROVE  ExpiredTimed'
  <2>1. CASE Wait(t)
    BY <2>1 DEF Wait, ExpiredTimed, TypeOK, ThreadsOK
  <2>2. CASE ~Wait(t)
    <3>1. \E qs, status, data : LeaveNotifying(t, qs) /\ Return(t, status, data)
      BY <1>4, <2>2 DEF Proceed, WriteAppend, WriteExtendWhole, WriteExtendPart,
         ReadItems, GiveUpTurn, AbandonTicket, RaiseInCall, ServeNext
    <3> QED BY <1>2, <3>1
  <2> QED BY <2>1, <2>2
<1>5. ASSUME NEW t \in Thread, TimeOut(t)
      PROVE  ExpiredTimed'
  BY <1>5 DEF TimeOut, ExpiredTimed, TypeOK, ThreadsOK
<1>6. CASE UNCHANGED vars
  BY <1>6 DEF vars, ExpiredTimed
<1> QED BY <1>3, <1>4, <1>5, <1>6 DEF Next

\* A thread in a call has a call pending in the specification, of the same queue.
LEMMA PendingCall ==
  ASSUME TypeOK
  PROVE  /\ \A t \in Thread : Live(t) <=> call[t] # Fifo!NoCall
         /\ \A t \in Thread : Live(t) => call[t] \in Calls[t] \cap QueueCall
         /\ \A q \in Queue : Fifo!Waiting(q) = InQueue(q)
<1>1. \A t \in Thread : /\ Live(t) <=> call[t] # Fifo!NoCall
                        /\ Live(t) => call[t] \in Calls[t] \cap QueueCall
  BY DEF TypeOK, ThreadsOK, Live, NoCall, Fifo!NoCall, QueueCall, WriteCall, AppendCall,
         ExtendCall, ReadCall
<1>2. \A q \in Queue : Fifo!Waiting(q) = InQueue(q)
  BY <1>1 DEF Fifo!Waiting, InQueue, QueueOf, Fifo!QueueOf
<1> QED BY <1>1, <1>2

\* A call that returns with its turn, or without, leaves the specification's queues.
LEMMA ReturnLeaves ==
  ASSUME TypeOK, NEW t \in Thread, Live(t), NEW status, NEW data,
         Return(t, status, data),
         Order' = {p \in Order : p[1] # t /\ p[2] # t}
  PROVE  Fifo!Leave(t, status, data)
  BY PendingCall DEF Fifo!Leave, Return, NoCall, Fifo!NoCall

\* What a call that goes ahead asks for.
LEMMA CallKinds ==
  ASSUME TypeOK, NEW t \in Thread, Live(t)
  PROVE  /\ call[t].op = "append" => call[t] \in Fifo!WriteCall /\ call[t] \in AppendCall
                                     /\ call[t] \in Fifo!AppendCall
         /\ call[t].op = "extend" => /\ call[t] \in Fifo!WriteCall /\ call[t] \in ExtendCall
                                     /\ call[t] \in Fifo!ExtendCall
                                     /\ call[t].block \in Seq(Value)
         /\ call[t].op = "read" => /\ call[t] \in Fifo!ReadCall /\ call[t].n \in Nat
                                   /\ call[t].partial \in BOOLEAN
<1>1. call[t] \in QueueCall
  BY PendingCall
<1>2. /\ Fifo!WriteCall = WriteCall /\ Fifo!ReadCall = ReadCall
      /\ Fifo!AppendCall = AppendCall /\ Fifo!ExtendCall = ExtendCall
  BY DEF Fifo!WriteCall, WriteCall, Fifo!ReadCall, ReadCall, Fifo!AppendCall, AppendCall,
         Fifo!ExtendCall, ExtendCall
<1>3. \A c \in AppendCall : c.op = "append"
  BY DEF AppendCall
<1>4. \A c \in ExtendCall : c.op = "extend" /\ c.block \in Seq(Value)
  BY DEF ExtendCall
<1>5. \A c \in ReadCall : c.op = "read" /\ c.n \in Nat /\ c.partial \in BOOLEAN
  BY DEF ReadCall
<1>6. call[t] \in AppendCall \/ call[t] \in ExtendCall \/ call[t] \in ReadCall
  BY <1>1 DEF QueueCall, WriteCall
<1> QED BY <1>2, <1>3, <1>4, <1>5, <1>6 DEF WriteCall

LEMMA WholeSubSeq ==
  ASSUME NEW S, NEW s \in Seq(S)
  PROVE  SubSeq(s, 1, Len(s)) = s
  OBVIOUS

LEMMA AppendWrites ==
  ASSUME TypeOK, TypeOK', RingConsistent, TicketInv, NEW t \in Thread, WriteAppend(t)
  PROVE  Fifo!Write(t)
<1> DEFINE v == call[t].value
<1>1. /\ Live(t) /\ Turn(t) /\ ServeNext(t) /\ Return(t, "ok", <<>>)
      /\ call[t].op = "append" /\ v \in Value /\ size' = size + 1 /\ read_head' = read_head
      /\ buf' = [buf EXCEPT ![write_head] = v]
  BY DEF WriteAppend, AtLoop, Ready, Live
<1>2. /\ buf \in [Index -> Item] /\ write_head \in Index
      /\ size \in 0 .. MaxLen /\ size' \in 0 .. MaxLen
  BY DEF TypeOK, BufferOK
<1>3. <<v>> \in Seq(Value) /\ Len(<<v>>) = 1 /\ <<v>>[1] = v
  BY <1>1
<1> HIDE DEF v
<1>4. buf' = WriteData(buf, <<v>>, write_head)
  <2>1. FirstPart(write_head, 1) = 1
    BY <1>2, MaxLenAssumption DEF FirstPart, Index
  <2>2. \A i \in Index : (IF i >= write_head /\ i < write_head + 1
                            THEN <<v>>[i - write_head + 1]
                          ELSE IF i < 1 - 1 THEN <<v>>[1 + i + 1] ELSE buf[i])
                         = IF i = write_head THEN v ELSE buf[i]
    BY <1>2, <1>3, MaxLenAssumption DEF Index
  <2>3. WriteData(buf, <<v>>, write_head)
          = [i \in Index |-> IF i = write_head THEN v ELSE buf[i]]
    BY <1>3, <2>1, <2>2 DEF WriteData
  <2> QED BY <1>1, <1>2, <2>3
<1>5. Content' = Content \o <<v>> /\ Len(Content) = size
  <2>1. size + Len(<<v>>) <= MaxLen /\ size' = size + Len(<<v>>)
    BY <1>1, <1>2, <1>3, MaxLenAssumption
  <2> QED BY <1>1, <1>3, <1>4, <2>1, ContentGrows, ContentType
<1>6. Fifo!Leave(t, "ok", <<>>)
  BY <1>1, ServeOrder, ReturnLeaves
<1>7. call[t] \in Fifo!WriteCall /\ Fifo!First(t)
  BY <1>1, CallKinds, TurnIsFirst
<1>8. Fifo!AtMost(Len(<<v>>), MaxLen) = 1
  BY <1>3, MaxLenAssumption DEF Fifo!AtMost
<1>9. SubSeq(<<v>>, Len(<<v>>) - 1 + 1, Len(<<v>>)) = <<v>>
  <2> DEFINE one == <<v>>
  <2>1. one \in Seq(Value) /\ Len(one) = 1
    BY <1>3
  <2> HIDE DEF one
  <2>2. SubSeq(one, Len(one) - 1 + 1, Len(one)) = one
    BY <2>1, WholeSubSeq
  <2> QED BY <2>2 DEF one
<1>10. size + 1 <= MaxLen
  BY <1>1, <1>2, MaxLenAssumption
<1> QED BY <1>1, <1>3, <1>5, <1>6, <1>7, <1>8, <1>9, <1>10 DEF Fifo!Write, v

LEMMA WholeWrites ==
  ASSUME TypeOK, TypeOK', TicketInv, NEW t \in Thread, WriteExtendWhole(t)
  PROVE  Fifo!Write(t)
<1> DEFINE block == call[t].block
<1>1. /\ Live(t) /\ Turn(t) /\ ServeNext(t) /\ Return(t, "ok", <<>>)
      /\ call[t].op = "extend" /\ Len(block) >= MaxLen
      /\ buf' = [i \in Index |-> block[Len(block) - MaxLen + i + 1]]
      /\ read_head' = 0 /\ size' = MaxLen
  BY DEF WriteExtendWhole, AtLoop, Ready, Live
<1>2. size = 0
  BY <1>1 DEF WriteExtendWhole, Ready, Satisfied
<1>3. block \in Seq(Value) /\ call[t] \in Fifo!WriteCall /\ Fifo!First(t)
  BY <1>1, CallKinds, TurnIsFirst
<1>4. Content = <<>>
  BY <1>2, EmptyContent
<1>5. Content' = SubSeq(block, Len(block) - MaxLen + 1, Len(block))
  BY <1>1, <1>3, ContentReplaced
<1>6. Fifo!Leave(t, "ok", <<>>)
  BY <1>1, ServeOrder, ReturnLeaves
<1>7. Fifo!AtMost(Len(block), MaxLen) = MaxLen
  BY <1>1, <1>3, MaxLenAssumption DEF Fifo!AtMost
<1>8. <<>> \o SubSeq(block, Len(block) - MaxLen + 1, Len(block))
        = SubSeq(block, Len(block) - MaxLen + 1, Len(block))
  BY <1>1, <1>3, MaxLenAssumption
<1>9. Len(<<>>) + MaxLen <= MaxLen
  BY MaxLenAssumption
<1>10. Content' = Content \o SubSeq(block, Len(block) - MaxLen + 1, Len(block))
       /\ Len(Content) + MaxLen <= MaxLen
  BY <1>4, <1>5, <1>8, <1>9
<1> QED BY <1>1, <1>3, <1>6, <1>7, <1>10 DEF Fifo!Write

LEMMA PartWrites ==
  ASSUME TypeOK, TypeOK', RingConsistent, TicketInv, NEW t \in Thread, WriteExtendPart(t)
  PROVE  Fifo!Write(t)
<1> DEFINE block == call[t].block
<1>1. /\ Live(t) /\ Turn(t) /\ ServeNext(t) /\ Return(t, "ok", <<>>)
      /\ call[t].op = "extend" /\ Len(block) < MaxLen
      /\ buf' = WriteData(buf, block, write_head) /\ read_head' = read_head
      /\ size' = size + Len(block)
  BY DEF WriteExtendPart, AtLoop, Ready, Live
<1>2. block \in Seq(Value) /\ size + Len(block) <= MaxLen
  BY ExtendRoom
<1>3. call[t] \in Fifo!WriteCall /\ Fifo!First(t)
  BY <1>1, CallKinds, TurnIsFirst
<1>4. Content' = Content \o block /\ Len(Content) = size
  BY <1>1, <1>2, ContentGrows, ContentType
<1>5. Fifo!Leave(t, "ok", <<>>)
  BY <1>1, ServeOrder, ReturnLeaves
<1>6. Fifo!AtMost(Len(block), MaxLen) = Len(block)
  BY <1>1 DEF Fifo!AtMost
<1>7. SubSeq(block, Len(block) - Len(block) + 1, Len(block)) = block
  BY <1>2
<1> QED BY <1>1, <1>2, <1>3, <1>4, <1>5, <1>6, <1>7 DEF Fifo!Write

LEMMA ReadReads ==
  ASSUME TypeOK, TypeOK', TicketInv, NEW t \in Thread, ReadItems(t)
  PROVE  Fifo!Read(t)
<1> DEFINE n == MinSz(call[t].n, IF call[t].partial THEN size ELSE MaxLen)
<1>1. /\ Live(t) /\ Turn(t) /\ ServeNext(t)
      /\ Return(t, "ok", ReadData(buf, read_head, n))
      /\ call[t].op = "read" /\ buf' = buf
      /\ read_head' = ExtendAdvanceHead(read_head, n) /\ size' = size - n
  BY DEF ReadItems, AtLoop, Ready, Live
<1>2. n \in 1 .. size
  BY ReadAmount DEF ReadItems
<1>3. Len(Content) = size /\ size \in Nat
  BY ContentType
<1>4. n = Fifo!AtMost(call[t].n, IF call[t].partial THEN Len(Content) ELSE MaxLen)
  BY <1>3 DEF MinSz, Fifo!AtMost
<1> HIDE DEF n
<1>5. /\ ReadData(buf, read_head, n) = SubSeq(Content, 1, n)
      /\ Content' = SubSeq(Content, n + 1, Len(Content))
  BY <1>1, <1>2, ContentShrinks
<1>6. Fifo!Leave(t, "ok", ReadData(buf, read_head, n))
  BY <1>1, ServeOrder, ReturnLeaves
<1>7. call[t] \in Fifo!ReadCall /\ Fifo!First(t)
  BY <1>1, CallKinds, TurnIsFirst
<1>8. n > 0 /\ n <= Len(Content)
  BY <1>2, <1>3
<1> QED BY <1>4, <1>5, <1>6, <1>7, <1>8 DEF Fifo!Read

LEMMA TimedWithdraws ==
  ASSUME TypeOK, TicketInv, ExpiredTimed, NEW t \in Thread, GiveUpTurn(t) \/ AbandonTicket(t)
  PROVE  Fifo!Withdraw(t)
<1>1. Live(t) /\ call[t].timed /\ Content' = Content
  BY ContentSame DEF GiveUpTurn, AbandonTicket, Live, ExpiredTimed
<1>2. Fifo!Leave(t, "false", <<>>)
  <2>1. CASE GiveUpTurn(t)
    BY <1>1, <2>1, ServeOrder, ReturnLeaves DEF GiveUpTurn
  <2>2. CASE AbandonTicket(t)
    BY <1>1, <2>2, QuitOrder, ReturnLeaves DEF AbandonTicket
  <2> QED BY <2>1, <2>2
<1> QED BY <1>1, <1>2, PendingCall DEF Fifo!Withdraw

LEMMA RaiseFails ==
  ASSUME TypeOK, NEW t \in Thread, RaiseInCall(t)
  PROVE  Fifo!Fail(t)
<1>1. /\ Live(t) /\ Return(t, "raised", <<>>) /\ LeaveNotifying(t, {})
      /\ UNCHANGED <<buf, read_head, size, now_serving>>
  BY DEF RaiseInCall, WarningFails, AtLoop, Live
<1>2. Content' = Content
  BY <1>1, ContentSame
<1>3. Fifo!Leave(t, "raised", <<>>)
  BY <1>1, QuitOrder, ReturnLeaves
<1>4. Len(Content) \in Nat
  BY ContentType
<1>5. \/ call[t] \in Fifo!AppendCall /\ call[t].value \in BadValue
      \/ /\ call[t] \in Fifo!ExtendCall /\ WarningsRaise /\ call[t].warn_size
         /\ Len(call[t].block) > MaxLen
  BY <1>1, CallKinds DEF RaiseInCall, WarningFails
<1> QED BY <1>2, <1>3, <1>5 DEF Fifo!Fail

LEMMA DrawArrives ==
  ASSUME TypeOK, TicketInv, NEW t \in Thread, NEW c \in Calls[t], DrawTicket(t, c)
  PROVE  Fifo!Arrive(t, c)
<1>1. /\ ~Live(t) /\ c \in QueueCall /\ Count(c) > 0
      /\ call' = [call EXCEPT ![t] = c] /\ result' = NoResult
      /\ UNCHANGED <<buf, read_head, size>>
  BY DEF DrawTicket, Live
<1>2. Fifo!QueueCall = QueueCall /\ Fifo!Count(c) = Count(c) /\ Fifo!NoResult = NoResult
      /\ Fifo!QueueOf(c) = QueueOf(c) /\ QueueOf(c) \in Queue
  BY DEF Fifo!QueueCall, QueueCall, Fifo!WriteCall, WriteCall, Fifo!ReadCall, ReadCall,
         Fifo!AppendCall, AppendCall, Fifo!ExtendCall, ExtendCall, Fifo!Count, Count,
         Fifo!NoResult, NoResult, Fifo!QueueOf, QueueOf, Queue
<1>3. call[t] = Fifo!NoCall /\ Fifo!Waiting(QueueOf(c)) = InQueue(QueueOf(c))
  BY <1>1, <1>2, PendingCall
<1>4. Order' = Order \cup {<<u, t>> : u \in InQueue(QueueOf(c))}
  BY DrawOrder
<1>5. Content' = Content
  BY <1>1, ContentSame
<1> QED BY <1>1, <1>2, <1>3, <1>4, <1>5 DEF Fifo!Arrive

LEMMA ClearClears ==
  ASSUME TypeOK, TypeOK', NEW t \in Thread, ClearBuffer(t)
  PROVE  Fifo!Clear(t)
<1>1. /\ ~Live(t) /\ [op |-> "clear"] \in Calls[t] /\ size' = 0
      /\ result' = [status |-> "ok", data |-> <<>>]
      /\ LeaveNotifying(t, {"write"})
      /\ UNCHANGED <<now_serving, call, ticket>>
  BY DEF ClearBuffer, Live
<1>2. \A u \in Thread : Live(u)' <=> Live(u)
  BY <1>1 DEF LeaveNotifying, Live, TypeOK, ThreadsOK
<1>3. Order' = Order
  BY <1>1, <1>2, SameOrder
<1>4. Content' = <<>>
  BY <1>1, NextContent
<1>5. call[t] = Fifo!NoCall
  BY <1>1, PendingCall
<1> QED BY <1>1, <1>3, <1>4, <1>5 DEF Fifo!Clear

LEMMA RemoveRemoves ==
  ASSUME TypeOK, TypeOK', NEW t \in Thread, NEW target, RemoveItems(t, target)
  PROVE  Fifo!Remove(t, target)
<1>1. /\ ~Live(t) /\ [op |-> "remove", target |-> target] \in Calls[t]
      /\ result' = [status |-> "ok", data |-> <<>>]
      /\ LeaveNotifying(t, {"write"})
      /\ UNCHANGED <<read_head, now_serving, call, ticket>>
  BY DEF RemoveItems, Live
<1>2. \A u \in Thread : Live(u)' <=> Live(u)
  BY <1>1 DEF LeaveNotifying, Live, TypeOK, ThreadsOK
<1>3. Order' = Order
  BY <1>1, <1>2, SameOrder
<1>4. PICK f \in KeptOrder(Content, target) :
        /\ buf' = WriteData(buf, [i \in 1 .. Len(f) |-> Content[f[i]]], read_head)
        /\ size' = Len([i \in 1 .. Len(f) |-> Content[f[i]]])
  BY DEF RemoveItems, Content
<1> DEFINE kept == [i \in 1 .. Len(f) |-> Content[f[i]]]
<1>5. kept \in Seq(Item) /\ Len(kept) <= size
  <2>1. Content \in Seq(Item) /\ Len(Content) = size
    BY ContentType
  <2>2. kept \in Seq(Item) /\ Len(kept) \in 0 .. Len(Content)
    BY <2>1, KeptItems
  <2>3. size \in Nat
    BY <2>1
  <2> HIDE DEF kept
  <2> QED BY <2>1, <2>2, <2>3
<1>6. buf' = WriteData(buf, kept, read_head) /\ size' = Len(kept)
  BY <1>4
<1> HIDE DEF kept
<1>7. Content' = kept
  BY <1>1, <1>5, <1>6, ContentWritten
<1>8. Fifo!KeptOrder(Content, target) = KeptOrder(Content, target)
  BY DEF Fifo!KeptOrder, KeptOrder
<1>9. call[t] = Fifo!NoCall
  BY <1>1, PendingCall
<1> QED BY <1>1, <1>3, <1>4, <1>7, <1>8, <1>9 DEF Fifo!Remove, kept

\* A step that nobody outside the buffer can see.
LEMMA QuietSteps ==
  ASSUME TypeOK, NEW status \in {"none", "false"},
         result' = [status |-> status, data |-> <<>>],
         UNCHANGED <<buf, read_head, size, now_serving, call, ticket>>,
         \A u \in Thread : Live(u)' <=> Live(u)
  PROVE  Fifo!Nothing(status)
<1>1. Content' = Content /\ Order' = Order
  BY ContentSame, SameOrder
<1> QED BY <1>1 DEF Fifo!Nothing

\* Every step of the buffer is a step of the FIFO sequence.
LEMMA EveryStepQueues ==
  ASSUME TypeOK, TypeOK', RingConsistent, TicketInv, ExpiredTimed, [Next]_vars
  PROVE  [Fifo!Next]_Fifo!vars
<1>1. ASSUME NEW t \in Thread, Call(t)
      PROVE  Fifo!Next
  <2>1. ASSUME NEW c \in Calls[t], ReturnEmpty(t, c)
        PROVE  Fifo!Next
    <3>1. Fifo!Nothing("false")
      BY <2>1, QuietSteps DEF ReturnEmpty, Live
    <3> QED BY <3>1 DEF Fifo!Next
  <2>2. ASSUME NEW c \in Calls[t], DrawTicket(t, c)
        PROVE  Fifo!Next
    <3>1. Fifo!Arrive(t, c) /\ c \in Fifo!QueueCall
      BY <2>2, DrawArrives DEF Fifo!Arrive
    <3> QED BY <3>1 DEF Fifo!Next
  <2>3. CASE ClearBuffer(t)
    BY <2>3, ClearClears DEF Fifo!Next
  <2>4. ASSUME NEW c \in Calls[t], c.op = "remove", RemoveItems(t, c.target)
        PROVE  Fifo!Next
    <3>1. Fifo!Remove(t, c.target)
      BY <2>4, RemoveRemoves
    <3> QED BY <2>4, <3>1 DEF Fifo!Next
  <2> QED BY <1>1, <2>1, <2>2, <2>3, <2>4 DEF Call
<1>2. ASSUME NEW t \in Thread, Wait(t) \/ TimeOut(t)
      PROVE  Fifo!Next
  <2>1. pc[t] # "idle" /\ \A u \in Thread : Live(u)' <=> Live(u)
    BY <1>2 DEF Wait, TimeOut, AtLoop, Live, TypeOK, ThreadsOK
  <2>2. Fifo!Nothing("none")
    BY <1>2, <2>1, QuietSteps DEF Wait, TimeOut, NoResult
  <2> QED BY <2>2 DEF Fifo!Next
<1>3. ASSUME NEW t \in Thread, WriteAppend(t) \/ WriteExtendWhole(t) \/ WriteExtendPart(t)
      PROVE  Fifo!Next
  BY <1>3, AppendWrites, WholeWrites, PartWrites DEF Fifo!Next
<1>4. ASSUME NEW t \in Thread, ReadItems(t)
      PROVE  Fifo!Next
  BY <1>4, ReadReads DEF Fifo!Next
<1>5. ASSUME NEW t \in Thread, GiveUpTurn(t) \/ AbandonTicket(t)
      PROVE  Fifo!Next
  BY <1>5, TimedWithdraws DEF Fifo!Next
<1>6. ASSUME NEW t \in Thread, RaiseInCall(t)
      PROVE  Fifo!Next
  BY <1>6, RaiseFails DEF Fifo!Next
<1>7. CASE UNCHANGED vars
  <2>1. Content' = Content /\ Order' = Order
    BY <1>7, ContentSame, SameOrder DEF vars, Live
  <2> QED BY <1>7, <2>1 DEF vars, Fifo!vars
<1> QED BY <1>1, <1>2, <1>3, <1>4, <1>5, <1>6, <1>7 DEF Next, Proceed

\* Whatever the interleaving, the time-outs and the failing calls, the calls behave as
\* calls on one bounded FIFO sequence, served in order of arrival.
THEOREM CallsQueue == Spec => ImplementsFifo
<1>1. Init => Fifo!Init
  <2> SUFFICES ASSUME Init
               PROVE  Fifo!Init
    OBVIOUS
  <2>1. Content = <<>>
    BY TypeInit, EmptyContent DEF Init
  <2>2. Order = {}
    BY DEF Init, Order, Live
  <2> QED BY <2>1, <2>2 DEF Init, Fifo!Init, NoCall, Fifo!NoCall, NoResult, Fifo!NoResult
<1>2. Init => ExpiredTimed
  BY DEF Init, ExpiredTimed
<1>3. TypeOK /\ ExpiredTimed /\ [Next]_vars => ExpiredTimed'
  BY ExpiredStep
<1>4. TypeOK /\ TypeOK' /\ RingConsistent /\ TicketInv /\ ExpiredTimed /\ [Next]_vars
        => [Fifo!Next]_Fifo!vars
  BY EveryStepQueues
<1>5. TypeOK /\ TicketInv /\ [Next]_vars => TicketInv'
  BY TicketStep
<1>6. Init => TicketInv
  BY TicketInit
<1> QED BY <1>1, <1>2, <1>3, <1>4, <1>5, <1>6, TypeCorrect, RingAlwaysConsistent, PTL
        DEF Spec, ImplementsFifo, Fifo!Spec
================================================================================

SPECIFICATION Spec
CONSTANTS
  t1 = t1
  t2 = t2
  t3 = t3
  a = a
  b = b
  bad = bad
  Thread = {t1, t2, t3}
  Value = {a}
  BadValue = {}
  Zero = Zero
  Calls <- ImpatientCalls
  MaxLen = 2
  TicketMod = 4
  WarningsRaise = FALSE
SYMMETRY Threads
INVARIANT HeldOutstanding TicketsDistinct AbandonedAhead NoStrandedTicket NoLostWakeup WriterWaitsForRoom
PROPERTY FifoFairness ImplementsFifo
CHECK_DEADLOCK FALSE

SPECIFICATION Spec
CONSTANTS
  t1 = t1
  t2 = t2
  t3 = t3
  a = a
  b = b
  bad = bad
  Thread = {t1, t2}
  Value = {a, b}
  BadValue = {bad}
  Zero = Zero
  Calls <- FailingCalls
  MaxLen = 3
  TicketMod = 3
  WarningsRaise = FALSE
INVARIANT WriterWaitsForRoom
CHECK_DEADLOCK FALSE

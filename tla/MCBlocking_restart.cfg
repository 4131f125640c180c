SPECIFICATION FairSpec
CONSTANTS
  t1 = t1
  t2 = t2
  t3 = t3
  a = a
  b = b
  bad = bad
  Thread = {t1, t2}
  Value = {a}
  BadValue = {}
  Zero = Zero
  Calls <- ClearingCalls
  MaxLen = 3
  TicketMod = 3
  WarningsRaise = FALSE
PROPERTY TimedCallsReturn
CHECK_DEADLOCK FALSE

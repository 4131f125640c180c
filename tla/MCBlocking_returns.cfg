SPECIFICATION BusyCallers
CONSTANTS
  t1 = t1
  t2 = t2
  t3 = t3
  a = a
  b = b
  bad = bad
  Thread = {t1, t2, t3}
  Value = {a}
  BadValue = {}
  Zero = Zero
  Calls <- BusyCalls
  MaxLen = 2
  TicketMod = 4
  WarningsRaise = FALSE
PROPERTY WritersReturn ReadersReturn

SPECIFICATION Spec
CONSTANTS
  t1 = t1
  t2 = t2
  t3 = t3
  a = a
  b = b
  bad = bad
  Thread = {t1, t2}
  Value = {a, b}
  BadValue = {bad}
  Zero = Zero
  Calls <- AnyCalls
  MaxLen = 3
  TicketMod = 3
  WarningsRaise = TRUE
SYMMETRY Threads
INVARIANT TypeOK RingConsistent BothWaitOnlyForStrictRead
PROPERTY ImplementsFifo
CHECK_DEADLOCK FALSE

SPECIFICATION Spec
CONSTANTS
  t1 = t1
  t2 = t2
  Threads = {t1, t2}
  NoThread = NoThread
  Length = 2
  Requests <- Calls
  MaxCalls = 1
  MaxFaults = 1
  Late = FALSE
INVARIANTS CallRight
CHECK_DEADLOCK FALSE

\* Handler, polling and fetching receiver of one slave; a read or a repetition fails, the slave restarts.
SPECIFICATION Spec
CONSTANTS
  PoolSize = 2
  NSlaves = 1
  Kinds = {"eoe", "report"}
  Enabled = {"eoe"}
  Callers = {0}
  EoeHook = TRUE
  Limits = {1}
  MaxMail = 2
  MaxLost = 1
  MaxFaults = 1
INVARIANTS BuffersConserved SlotsMatch
PROPERTY LinkSpec
CHECK_DEADLOCK FALSE

\* Two slaves in turn: every mail is read, though reads fail.
SPECIFICATION FairSpec
CONSTANTS
  PoolSize = 3
  NSlaves = 2
  Kinds = {"coe"}
  Enabled = {"coe"}
  Callers = {0}
  EoeHook = FALSE
  Limits = {1}
  MaxMail = 2
  MaxLost = 1
  MaxFaults = 0
PROPERTY EveryMailRead
INVARIANT FairTurn
CHECK_DEADLOCK FALSE

SPECIFICATION FairSpec
CONSTANTS
  MaxElist = 2
  Errors <- Numbers
  NoError = NoError
  MaxSM = 4
  MaxMapt = 2
  MaxDrives = 2
  Group = 1
  Buses <- SomeBuses
  MaxFaults = 2
INVARIANTS MappingRight
PROPERTIES LogSpec MappingEnds
CHECK_DEADLOCK FALSE

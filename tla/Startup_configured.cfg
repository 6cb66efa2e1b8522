SPECIFICATION BothSpec
CONSTANTS
  LastCell = 11
  FirstSection = 7
  Retries = 1
  MaxNacks = 2
  Width = 16
  Stocks <- AllStocks
  Budget <- Troubles
  Restarts <- Again
  MaxCalls <- Calls
  MaxSlave = 6
  Buses <- SomeBuses
  Categories <- Sections
  SyncDelay = 5
  SyncTimes <- Times
  SyncModes <- Cycles
  InfoLast = 5
  AliasCell = 1
  CrcCell = 3
  Modes = {"read", "write", "alias"}
  Word = 8
CHECK_DEADLOCK FALSE
INVARIANTS CacheIsOfSlave EepromsRight ControlKept ClocksRight

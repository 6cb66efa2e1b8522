SPECIFICATION FairSpec
CONSTANTS
  Objects <- OneObject
  OutData = 2
  InData = 2
  Ops = {"SDOread", "SDOwrite", "FOEread", "FOEwrite", "SoEread", "SoEwrite", "EOEsend", "EOErecv", "RxPDO", "TxPDO", "readODlist", "readODdescription", "readOEsingle", "EOEsetIp", "EOEgetIp"}
  Sizes = {1, 6}
  Rooms = {3, 8}
  Pool = 4
  Hooks = {TRUE, FALSE}
  FaultKinds = {"dry", "unsent", "unconfirmed", "late", "reused", "busy", "busyend", "refused", "lost", "repeated", "gone"}
  MaxFaults = 1
  MaxCalls = 2
  MaxFrames = 2
  MaxTraffic = 2
  Stamps = {"none", "counted", "uncounted"}
INVARIANTS  CallsSucceed NeverPastRoom BuffersReturned
PROPERTY EveryCallReturns
CHECK_DEADLOCK FALSE

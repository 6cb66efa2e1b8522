SPECIFICATION FairSpec
CONSTANTS
  t1 = t1
  t2 = t2
  MaxBuf = 3
  Threads = {t1, t2}
  NULL = NULL
  MaxRequests <- Calls
  MaxTries = 2
  MaxGiveUps = 1
  SendFails = FALSE
  FramesOutlive = FALSE
CHECK_DEADLOCK FALSE
INVARIANTS IndexExclusive ReplyMatches ReplyStable
PROPERTY Answered

SPECIFICATION Spec
CONSTANTS
  NSlaves = 2
  OutBits = {0, 4, 16, 32}
  InBits = {0, 4, 16}
  Mailboxes = {TRUE, FALSE}
  Modes = {"plain", "packed", "overlap"}
  Blocks = {TRUE, FALSE}
  Clocks = {TRUE, FALSE}
  MaxLRWData = 3
  FirstDC = 1
  MaxSegments = 8
  MaxBuf = 8
  LogStart = 0
INVARIANTS FrameFits IndicesReturned DataAtHome CounterTells

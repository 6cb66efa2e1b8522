\* Stations restart, go and come back between any two datagrams, and a frame is lost.
SPECIFICATION FairSpec
CONSTANTS
  NSlaves = 3
  Handled = {1, 2, 3}
  Watched = {2}
  Identity <- MCIdentity
  MaxLost = 1
  MaxFaults = 3
INVARIANT NoneSuspended
PROPERTIES OwnAddress Resumes
CHECK_DEADLOCK FALSE

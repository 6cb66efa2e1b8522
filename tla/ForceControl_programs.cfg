\* The sensor goes, restarts and drops, frames and mails are lost, sockets run out, and the controller is interrupted anywhere.
SPECIFICATION FairRobotSpec
CONSTANTS
  Programs = {"simple_ng", "force_sensor_node"}
  Samples = 2
  Polls = 2
  RetryEvery = 2
  Depth = 1
  Sockets = 2
  MaxLost = 1
  MaxFaults = 1
  Places = {0}
  MaxIter = 1
INVARIANT ArmReleased
PROPERTIES PublishedIsOfCycle NodeComesUp SensorResumes
CHECK_DEADLOCK FALSE

\* The launcher and "stop" may both have nothing left to do.
SPECIFICATION LiveSpec
CONSTANTS
  Enabled = {"lokid", "lokinet", "storage"}
  MaxWrites = 2
PROPERTIES EachIsDaemon LokinetListed StopEnds
CHECK_DEADLOCK FALSE

SPECIFICATION Spec
CONSTANTS
  Enabled = {"lokid", "lokinet", "storage"}
  MaxWrites = 2
PROPERTIES StopTruthful
CHECK_DEADLOCK FALSE

SPECIFICATION LiveSpec
CONSTANTS
  Pid = {p1, p2}
  NoPid = NoPid
  StartPeriod = 1
  WatchPeriod = 4
  RelaunchDelay = 3
PROPERTIES IntervalsCleared

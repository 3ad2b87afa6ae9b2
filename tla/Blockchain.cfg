\* Restarts are not configured: a restart request has to borrow the setting.
SPECIFICATION LiveSpec
CONSTANTS
  Pid = {p1, p2}
  NoPid = NoPid
  ConfigRestart = FALSE
  RelaunchDelay = 2
  ReleaseDelay = 3
INVARIANTS LokidManaged RestartRestored RestartSurvivesClose
PROPERTIES ImplementsDaemon Relaunched ShutdownDrains

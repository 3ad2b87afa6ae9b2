\* Restarts are configured: every end of lokid leads to a relaunch.
SPECIFICATION LiveHSpec
CONSTANTS
  Pid = {p1, p2}
  NoPid = NoPid
  ConfigRestart = TRUE
  RelaunchDelay = 1
  ReleaseDelay = 2
  FirstCheck = 3
  CheckPeriod = 3
  StuckLimit = 1
  MaxChains = 2
INVARIANTS Watched
PROPERTIES StallNoticed ChecksDrain Relaunched

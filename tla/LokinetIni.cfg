\* A launcher that has exited does nothing any more.
SPECIFICATION LiveIniSpec
CONSTANTS
  Pid = {p1, p2}
  NoPid = NoPid
  RelaunchDelay = 1
  KillDelay = 1
  ExitDelay = 2
  MaxRetries = 1
  Address = {a1}
  LocalResolver = {r1, r2}
  Candidates = 2
  MaxIpRetries = 1
INVARIANTS LokinetManaged GraceGiven DraftComplete AddressTold
PROPERTIES ImplementsDaemon LokinetRelaunched StopDrains IniSettles
CHECK_DEADLOCK FALSE

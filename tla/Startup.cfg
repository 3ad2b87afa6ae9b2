CONSTANTS
  Launcher = {l1, l2}
  LokidPid = {p1, p2, p3}
  LokinetPid = {n1, n2}
  MaxDeaths = 2
SPECIFICATION LiveSpec
INVARIANTS OneLauncher OneLokid
PROPERTIES NeverStuck
CHECK_DEADLOCK FALSE

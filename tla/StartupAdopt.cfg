CONSTANTS
  Launcher = {l1}
  LokidPid = {p1, p2}
  LokinetPid = {n1}
  MaxDeaths = 1
SPECIFICATION Spec
PROPERTIES Adopts
CHECK_DEADLOCK FALSE

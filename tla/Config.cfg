\* A configuration is launched, or refused, once.
SPECIFICATION Spec
CONSTANTS
  None = None
  IniPorts = {0, 7000, 38157}
  OptionPort = 7000
  PublicIp = "192.0.2.1"
  Versions = {3, 5, 7, 8, 9}
  InstalledStorage = 21
  MaxSet = 4
INVARIANTS NoClash SuiteAgrees DefaultsAccepted
CHECK_DEADLOCK FALSE

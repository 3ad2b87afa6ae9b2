\* A process that has exited, or that waits for an answer for ever, does nothing.
SPECIFICATION LiveSpec
CONSTANTS
  Server = {s1, s2}
  NoServer = NoServer
  NTcp = 2
  Network = TRUE
  ConnectDelay = 1
  TestDelay = 2
  SendDelay = 1
  MaxWire = 7
  StorageEnabled = TRUE
  Limit = 1
  StorageLimit = 2
  RpcLimit = 3
INVARIANTS TypeOK FramesIntact StartVerified NoStaleTimer SuccessTruthful
PROPERTIES VerificationEnds ParentVerdict
CHECK_DEADLOCK FALSE
